--------------------------- MODULE SequenceLemmas ---------------------------
(***************************************************************************)
(* Facts about sequences that the proofs about the compiler keep needing:  *)
(* what is where after operations were inserted into a block, and what the *)
(* concatenation of a sequence of sequences holds.                         *)
(***************************************************************************)
EXTENDS SequencesExt, Integers, SequenceTheorems, WellFoundedInduction, TLAPS

-----------------------------------------------------------------------------
(* Induction over the natural numbers, for a set instead of a predicate.   *)
LEMMA NatSetInduction ==
    ASSUME NEW S, 0 \in S, \A n \in Nat : n \in S => n + 1 \in S
    PROVE  Nat \subseteq S
<1> SUFFICES ASSUME ~ Nat \subseteq S PROVE FALSE
  OBVIOUS
<1> DEFINE T == Nat \ S
<1>1. T \subseteq Nat /\ T # {}
  OBVIOUS
<1>2. PICK x \in T : \A y \in T : ~ (<<y, x>> \in OpToRel(<, Nat))
  <2> HIDE DEF T
  <2> QED BY <1>1, WFMin, NatLessThanWellFounded, Zenon
<1>3. x \in Nat /\ x \notin S /\ x # 0
  OBVIOUS
<1>4. x - 1 \in Nat /\ x - 1 < x /\ x = (x - 1) + 1
  BY <1>3
<1>5. <<x - 1, x>> \in OpToRel(<, Nat)
  BY <1>3, <1>4 DEF OpToRel
<1>6. x - 1 \notin S
  BY <1>3, <1>4
<1> QED BY <1>2, <1>4, <1>5, <1>6

(* The elements of a sequence are a set it is a sequence of.               *)
LEMMA SeqOfElements ==
    ASSUME NEW S, NEW s \in Seq(S)
    PROVE  s \in Seq(ToSet(s)) /\ ToSet(s) \subseteq S
BY DEF ToSet

(* A function on 1 .. n is a sequence.                                     *)
LEMMA FunctionIsSeq ==
    ASSUME NEW r, NEW n \in Nat, r = [i \in 1 .. n |-> r[i]]
    PROVE  r \in Seq(ToSet(r)) /\ Len(r) = n
<1>1. DOMAIN r = 1 .. n
  BY Zenon
<1>2. r \in [1 .. n -> ToSet(r)]
  BY <1>1 DEF ToSet
<1>3. r \in Seq(ToSet(r))
  BY <1>2, SeqDef
<1> QED BY <1>1, <1>3

(* s with t inserted after its first k elements.                           *)
Insert(s, t, k) == SubSeq(s, 1, k) \o t \o SubSeq(s, k + 1, Len(s))

(* Inserting t after the first k elements of s moves the others behind t.  *)
LEMMA InsertSeq ==
    ASSUME NEW S, NEW s \in Seq(S), NEW t \in Seq(S), NEW k \in 0 .. Len(s)
    PROVE  /\ Insert(s, t, k) \in Seq(S)
           /\ Len(Insert(s, t, k)) = Len(s) + Len(t)
           /\ \A n \in 1 .. k : Insert(s, t, k)[n] = s[n]
           /\ \A n \in 1 .. Len(t) : Insert(s, t, k)[k + n] = t[n]
           /\ \A n \in k + 1 .. Len(s) : Insert(s, t, k)[n + Len(t)] = s[n]
<1> DEFINE a == SubSeq(s, 1, k)
           c == SubSeq(s, k + 1, Len(s))
<1>1. s \in Seq(S) /\ t \in Seq(S)
  OBVIOUS
<1>2. Len(s) \in Nat /\ Len(t) \in Nat
  BY <1>1, LenProperties
<1>3. /\ a \in Seq(S) /\ Len(a) = k
      /\ \A n \in 1 .. k : a[n] = s[n]
  <2>1. \A n \in 1 .. k : s[n] \in S
    BY <1>1, <1>2, ElementOfSeq
  <2> QED BY <2>1, <1>2, SubSeqProperties
<1>4. /\ c \in Seq(S) /\ Len(c) = Len(s) - k
      /\ \A n \in 1 .. Len(s) - k : c[n] = s[k + n]
  <2>1. \A n \in k + 1 .. Len(s) : s[n] \in S
    BY <1>1, <1>2, ElementOfSeq
  <2>2. k + 1 \in Int /\ Len(s) \in Int
    BY <1>2
  <2>3. /\ SubSeq(s, k + 1, Len(s)) \in Seq(S)
        /\ Len(SubSeq(s, k + 1, Len(s))) =
               IF k + 1 <= Len(s) THEN Len(s) - (k + 1) + 1 ELSE 0
        /\ \A i \in 1 .. Len(s) - (k + 1) + 1 :
               SubSeq(s, k + 1, Len(s))[i] = s[k + 1 + i - 1]
    BY <2>1, <2>2, SubSeqProperties
  <2> QED BY <2>3, <1>2
<1> HIDE DEF a, c
<1> DEFINE d == a \o t
<1>5. /\ d \in Seq(S) /\ Len(d) = k + Len(t)
      /\ \A n \in 1 .. k + Len(t) : d[n] = IF n <= k THEN a[n] ELSE t[n - k]
  BY <1>1, <1>3, ConcatProperties
<1> HIDE DEF d
<1> DEFINE r == d \o c
<1>6. /\ r \in Seq(S) /\ Len(r) = Len(d) + Len(c)
      /\ \A n \in 1 .. Len(d) + Len(c) :
             r[n] = IF n <= Len(d) THEN d[n] ELSE c[n - Len(d)]
  BY <1>4, <1>5, ConcatProperties
<1> HIDE DEF r
<1>7. Len(r) = Len(s) + Len(t)
  BY <1>2, <1>4, <1>5, <1>6
<1>8. \A n \in 1 .. k : r[n] = s[n]
  <2> TAKE n \in 1 .. k
  <2>1. n \in 1 .. Len(d) /\ n \in 1 .. Len(d) + Len(c) /\ n <= Len(d) /\ n <= k
    BY <1>2, <1>4, <1>5
  <2> QED BY <1>3, <1>5, <1>6, <2>1
<1>9. \A n \in 1 .. Len(t) : r[k + n] = t[n]
  <2> TAKE n \in 1 .. Len(t)
  <2>1. /\ k + n \in 1 .. Len(d) /\ k + n \in 1 .. Len(d) + Len(c)
        /\ ~ (k + n <= k) /\ (k + n) - k = n
    BY <1>2, <1>4, <1>5
  <2>2. r[k + n] = d[k + n]
    BY <1>6, <2>1
  <2>3. d[k + n] = t[n]
    BY <1>5, <2>1
  <2> QED BY <2>2, <2>3
<1>10. \A n \in k + 1 .. Len(s) : r[n + Len(t)] = s[n]
  <2> TAKE n \in k + 1 .. Len(s)
  <2>1. /\ n + Len(t) \in 1 .. Len(d) + Len(c) /\ ~ (n + Len(t) <= Len(d))
        /\ (n + Len(t)) - Len(d) = n - k
        /\ n - k \in 1 .. Len(s) - k /\ k + (n - k) = n
    BY <1>2, <1>4, <1>5
  <2>2. r[n + Len(t)] = c[n - k]
    BY <1>6, <2>1
  <2> QED BY <1>4, <2>1, <2>2
<1> QED BY <1>6, <1>7, <1>8, <1>9, <1>10 DEF Insert, r, d, a, c

-----------------------------------------------------------------------------
(* FlattenSeq.                                                             *)

(* acc holds the concatenations of the first n sequences of ss, n <= N.    *)
Accumulates(acc, ss, N) ==
    acc = [i \in 1 .. N |-> IF i = 1 THEN ss[i] ELSE acc[i - 1] \o ss[i]]

(* The recursion of FlattenSeq has a solution.                             *)
LEMMA AccumulatorExists ==
    ASSUME NEW ss, NEW N \in Nat
    PROVE  \E acc : Accumulates(acc, ss, N)
<1> DEFINE P == {n \in Nat : \E acc : Accumulates(acc, ss, n)}
<1>1. 0 \in P
  <2>1. Accumulates([i \in 1 .. 0 |-> 0], ss, 0)
    BY DEF Accumulates
  <2> QED BY <2>1
<1>2. ASSUME NEW n \in Nat, n \in P PROVE n + 1 \in P
  <2>1. PICK acc : Accumulates(acc, ss, n)
    BY <1>2
  <2> DEFINE new == [i \in 1 .. n + 1 |->
                        IF i <= n THEN acc[i]
                        ELSE IF i = 1 THEN ss[i] ELSE acc[i - 1] \o ss[i]]
  <2>2. ASSUME NEW i \in 1 .. n + 1
        PROVE  new[i] = IF i = 1 THEN ss[i] ELSE new[i - 1] \o ss[i]
    <3>1. i # 1 => i - 1 \in 1 .. n + 1 /\ i - 1 <= n /\ new[i - 1] = acc[i - 1]
      OBVIOUS
    <3>2. CASE i <= n
      <4>1. i \in 1 .. n
        BY <3>2
      <4>2. acc[i] = IF i = 1 THEN ss[i] ELSE acc[i - 1] \o ss[i]
        BY <2>1, <4>1 DEF Accumulates
      <4>3. new[i] = acc[i]
        BY <3>2
      <4> QED BY <3>1, <4>2, <4>3
    <3>3. CASE ~ (i <= n)
      <4>1. new[i] = IF i = 1 THEN ss[i] ELSE acc[i - 1] \o ss[i]
        BY <3>3
      <4> QED BY <3>1, <4>1
    <3> QED BY <3>2, <3>3
  <2>3. Accumulates(new, ss, n + 1)
    <3>1. new = [i \in 1 .. n + 1 |-> new[i]]
      OBVIOUS
    <3>2. new = [i \in 1 .. n + 1 |-> IF i = 1 THEN ss[i] ELSE new[i - 1] \o ss[i]]
      <4> HIDE DEF new
      <4> QED BY <2>2, <3>1, Zenon
    <3> HIDE DEF new
    <3> QED BY <3>2, Zenon DEF Accumulates
  <2> QED BY <2>3
<1> HIDE DEF P
<1>3. N \in P
  BY <1>1, <1>2, NatSetInduction
<1> QED BY <1>3 DEF P

(* What the concatenation is the last entry of.                            *)
LEMMA FlattenAccumulates ==
    ASSUME NEW ss, Len(ss) \in Nat, Len(ss) # 0
    PROVE  \E acc : Accumulates(acc, ss, Len(ss)) /\ FlattenSeq(ss) = acc[Len(ss)]
<1> DEFINE acc == CHOOSE f : f = [i \in 1 .. Len(ss) |->
                                     IF i = 1 THEN ss[i] ELSE f[i - 1] \o ss[i]]
<1>1. acc = [i \in 1 .. Len(ss) |-> IF i = 1 THEN ss[i] ELSE acc[i - 1] \o ss[i]]
  <2>1. \E f : f = [i \in 1 .. Len(ss) |-> IF i = 1 THEN ss[i] ELSE f[i - 1] \o ss[i]]
    BY AccumulatorExists, Zenon DEF Accumulates
  <2> QED BY <2>1, Zenon
<1>2. FlattenSeq(ss) = acc[Len(ss)]
  BY DEF FlattenSeq
<1> QED BY <1>1, <1>2, Zenon DEF Accumulates

(* Where the n-th sequence of ss is in their concatenation: behind the     *)
(* start[n] elements of those before it.                                   *)
Starts(start, flat, ss) ==
    /\ start \in [DOMAIN ss -> Nat]
    /\ \A i \in DOMAIN ss : start[i] + Len(ss[i]) <= Len(flat)
    /\ \A i, j \in DOMAIN ss : i < j => start[i] + Len(ss[i]) <= start[j]
    /\ \A i \in DOMAIN ss : \A m \in 1 .. Len(ss[i]) : flat[start[i] + m] = ss[i][m]
    /\ \A n \in 1 .. Len(flat) :
           \E i \in DOMAIN ss : \E m \in 1 .. Len(ss[i]) : n = start[i] + m

(* What is where in the concatenation of two sequences.                    *)
LEMMA ConcatParts ==
    ASSUME NEW S, NEW s \in Seq(S), NEW t \in Seq(S)
    PROVE  /\ s \o t \in Seq(S)
           /\ Len(s) \in Nat /\ Len(t) \in Nat
           /\ Len(s \o t) = Len(s) + Len(t)
           /\ \A m \in 1 .. Len(s) : (s \o t)[m] = s[m]
           /\ \A m \in 1 .. Len(t) : (s \o t)[Len(s) + m] = t[m]
           /\ \A p \in 1 .. Len(s \o t) :
                  p \in 1 .. Len(s) \/ \E m \in 1 .. Len(t) : p = Len(s) + m
<1> DEFINE r == s \o t
<1>1. /\ r \in Seq(S) /\ Len(r) = Len(s) + Len(t)
      /\ \A i \in 1 .. Len(s) + Len(t) :
             r[i] = IF i <= Len(s) THEN s[i] ELSE t[i - Len(s)]
  BY ConcatProperties
<1>2. Len(s) \in Nat /\ Len(t) \in Nat
  OBVIOUS
<1> HIDE DEF r
<1>3. ASSUME NEW m \in 1 .. Len(t) PROVE r[Len(s) + m] = t[m]
  <2>1. /\ Len(s) + m \in 1 .. Len(s) + Len(t) /\ ~ (Len(s) + m <= Len(s))
        /\ (Len(s) + m) - Len(s) = m
    BY <1>2
  <2> QED BY <1>1, <2>1
<1>4. ASSUME NEW p \in 1 .. Len(r), p \notin 1 .. Len(s)
      PROVE  \E m \in 1 .. Len(t) : p = Len(s) + m
  <2>1. p - Len(s) \in 1 .. Len(t) /\ p = Len(s) + (p - Len(s))
    BY <1>1, <1>2, <1>4
  <2> QED BY <2>1
<1>5. ASSUME NEW m \in 1 .. Len(s) PROVE r[m] = s[m]
  <2>1. m \in 1 .. Len(s) + Len(t) /\ m <= Len(s)
    BY <1>2
  <2> QED BY <1>1, <2>1
<1> QED BY <1>1, <1>2, <1>3, <1>4, <1>5 DEF r

(* The concatenation whole of the first n sequences of ss.                 *)
Joined(whole, start, ss, S, n) ==
    /\ whole \in Seq(S)
    /\ Len(whole) = start[n] + Len(ss[n])
    /\ \A i \in 1 .. n : start[i] \in Nat /\ start[i] + Len(ss[i]) <= Len(whole)
    /\ \A i \in 1 .. n : \A m \in 1 .. Len(ss[i]) : whole[start[i] + m] = ss[i][m]
    /\ \A p \in 1 .. Len(whole) :
           \E i \in 1 .. n : \E m \in 1 .. Len(ss[i]) : p = start[i] + m

(* One more sequence at the end.                                           *)
LEMMA JoinStep ==
    ASSUME NEW S, NEW ss, NEW start, NEW n \in Nat, n >= 1, NEW whole,
           Joined(whole, start, ss, S, n),
           \A i \in 1 .. n + 1 : ss[i] \in Seq(S),
           start[n + 1] = Len(whole)
    PROVE  Joined(whole \o ss[n + 1], start, ss, S, n + 1)
<1> DEFINE t == ss[n + 1]
           r == whole \o t
<1>1. whole \in Seq(S) /\ t \in Seq(S)
  BY DEF Joined
<1>2. /\ r \in Seq(S)
      /\ Len(whole) \in Nat /\ Len(t) \in Nat
      /\ Len(r) = Len(whole) + Len(t)
      /\ \A m \in 1 .. Len(whole) : r[m] = whole[m]
      /\ \A m \in 1 .. Len(t) : r[Len(whole) + m] = t[m]
      /\ \A p \in 1 .. Len(r) :
             p \in 1 .. Len(whole) \/ \E m \in 1 .. Len(t) : p = Len(whole) + m
  <2> HIDE DEF t
  <2> QED BY <1>1, ConcatParts
<1> HIDE DEF r
<1>3. ASSUME NEW i \in 1 .. n
      PROVE  /\ start[i] \in Nat /\ start[i] + Len(ss[i]) <= Len(r)
             /\ \A m \in 1 .. Len(ss[i]) : r[start[i] + m] = ss[i][m]
  <2>1. /\ start[i] \in Nat /\ start[i] + Len(ss[i]) <= Len(whole)
        /\ Len(ss[i]) \in Nat
    <3>1. i \in 1 .. n + 1
      OBVIOUS
    <3>2. ss[i] \in Seq(S)
      BY <3>1
    <3> QED BY <3>2 DEF Joined
  <2>2. ASSUME NEW m \in 1 .. Len(ss[i]) PROVE r[start[i] + m] = ss[i][m]
    <3>1. start[i] + m \in 1 .. Len(whole)
      <4>1. Len(whole) \in Nat
        BY <1>2
      <4> QED BY ONLY <2>1, <4>1, m \in 1 .. Len(ss[i])
    <3>2. whole[start[i] + m] = ss[i][m]
      BY DEF Joined
    <3> QED BY <1>2, <3>1, <3>2
  <2> QED BY <1>2, <2>1, <2>2
<1>4. ASSUME NEW p \in 1 .. Len(r)
      PROVE  \E i \in 1 .. n + 1 : \E m \in 1 .. Len(ss[i]) : p = start[i] + m
  <2>1. CASE p \in 1 .. Len(whole)
    <3>1. PICK i \in 1 .. n : \E m \in 1 .. Len(ss[i]) : p = start[i] + m
      BY <2>1 DEF Joined
    <3>2. i \in 1 .. n + 1
      OBVIOUS
    <3> QED BY <3>1, <3>2
  <2>2. CASE \E m \in 1 .. Len(t) : p = Len(whole) + m
    <3>1. n + 1 \in 1 .. n + 1
      OBVIOUS
    <3> QED BY <2>2, <3>1
  <2> QED BY <1>2, <2>1, <2>2
<1>5. ASSUME NEW i \in 1 .. n + 1
      PROVE  /\ start[i] \in Nat /\ start[i] + Len(ss[i]) <= Len(r)
             /\ \A m \in 1 .. Len(ss[i]) : r[start[i] + m] = ss[i][m]
  <2>1. i \in 1 .. n \/ i = n + 1
    OBVIOUS
  <2>2. CASE i = n + 1
    <3>1. ss[i] = t /\ start[i] = Len(whole)
      BY <2>2
    <3> HIDE DEF t
    <3> QED BY <1>2, <3>1
  <2> QED BY <1>3, <2>1, <2>2
<1> QED BY <1>2, <1>4, <1>5 DEF Joined, r

(* The concatenation of ss holds its sequences one after the other, and    *)
(* nothing else.                                                           *)
LEMMA FlattenProperties ==
    ASSUME NEW S, NEW ss \in Seq(Seq(S))
    PROVE  /\ FlattenSeq(ss) \in Seq(S)
           /\ \E start : Starts(start, FlattenSeq(ss), ss)
<1> DEFINE N == Len(ss)
<1>1. /\ N \in Nat /\ DOMAIN ss = 1 .. N
      /\ \A i \in 1 .. N : ss[i] \in Seq(S)
  OBVIOUS
<1>2. CASE N = 0
  <2>1. ss = << >> /\ FlattenSeq(ss) = ss
    BY <1>2 DEF FlattenSeq
  <2>2. Starts([i \in DOMAIN ss |-> 0], FlattenSeq(ss), ss)
    BY <2>1 DEF Starts
  <2>3. << >> \in Seq(S)
    OBVIOUS
  <2>4. FlattenSeq(ss) \in Seq(S)
    BY <2>1, <2>3
  <2> QED BY <2>2, <2>4
<1>3. CASE N # 0
  <2>1. PICK acc : Accumulates(acc, ss, N) /\ FlattenSeq(ss) = acc[N]
    BY <1>1, <1>3, FlattenAccumulates
  <2> DEFINE start == [i \in 1 .. N |-> IF i = 1 THEN 0 ELSE Len(acc[i - 1])]
             Good(n) == Joined(acc[n], start, ss, S, n)
  <2>2. Good(1)
    <3>1. 1 \in 1 .. N /\ acc[1] = ss[1] /\ start[1] = 0
      BY <1>1, <1>3, <2>1 DEF Accumulates
    <3>2. ss[1] \in Seq(S) /\ Len(ss[1]) \in Nat
      BY <1>1, <3>1
    <3> HIDE DEF start
    <3>3. \A i \in 1 .. 1 : i = 1
      OBVIOUS
    <3> QED BY <3>1, <3>2, <3>3 DEF Joined
  <2>3. ASSUME NEW n \in 1 .. N - 1, Good(n) PROVE Good(n + 1)
    <3>1. /\ n + 1 \in 1 .. N /\ n + 1 # 1 /\ (n + 1) - 1 = n
          /\ n \in Nat /\ n >= 1 /\ \A i \in 1 .. n + 1 : i \in 1 .. N
      BY <1>1
    <3>2. acc[n + 1] = acc[n] \o ss[n + 1] /\ start[n + 1] = Len(acc[n])
      BY <2>1, <3>1 DEF Accumulates
    <3>3. \A i \in 1 .. n + 1 : ss[i] \in Seq(S)
      BY <1>1, <3>1
    <3> HIDE DEF start, N
    <3> QED BY <2>3, <3>1, <3>2, <3>3, JoinStep
  <2> HIDE DEF Good
  <2>4. \A n \in 1 .. N : Good(n)
    <3> DEFINE P == {n \in Nat : n + 1 \in 1 .. N => Good(n + 1)}
    <3>1. 0 \in P
      BY <2>2
    <3>2. ASSUME NEW n \in Nat, n \in P PROVE n + 1 \in P
      <4> SUFFICES ASSUME n + 2 \in 1 .. N PROVE Good(n + 2)
        OBVIOUS
      <4>1. n + 1 \in 1 .. N - 1 /\ n + 1 \in 1 .. N /\ (n + 1) + 1 = n + 2
        BY <1>1
      <4> QED BY <2>3, <3>2, <4>1
    <3> HIDE DEF P
    <3>3. Nat \subseteq P
      BY <3>1, <3>2, NatSetInduction
    <3> TAKE n \in 1 .. N
    <3>4. n - 1 \in Nat /\ (n - 1) + 1 = n
      OBVIOUS
    <3> QED BY <3>3, <3>4 DEF P
  <2>5. N \in 1 .. N /\ Good(N)
    BY <1>1, <1>3, <2>4
  <2>6. \A i, j \in 1 .. N : i < j => start[i] + Len(ss[i]) <= start[j]
    <3> SUFFICES ASSUME NEW i \in 1 .. N, NEW j \in 1 .. N, i < j
                 PROVE  start[i] + Len(ss[i]) <= start[j]
      OBVIOUS
    <3>1. j - 1 \in 1 .. N /\ i \in 1 .. j - 1 /\ start[j] = Len(acc[j - 1])
      BY <1>1
    <3>2. Good(j - 1)
      BY <2>4, <3>1
    <3> HIDE DEF start, N
    <3> QED BY <3>1, <3>2 DEF Good, Joined
  <2>7. start \in [DOMAIN ss -> Nat]
    <3>1. \A i \in 1 .. N : start[i] \in Nat
      BY <2>5 DEF Good, Joined
    <3> QED BY <1>1, <3>1
  <2> HIDE DEF start
  <2>8. Starts(start, acc[N], ss)
    <3>1. DOMAIN ss = 1 .. N
      BY <1>1
    <3>2. Joined(acc[N], start, ss, S, N)
      BY <2>5 DEF Good
    <3> DEFINE flat == acc[N]
    <3>3. /\ \A i \in 1 .. N : start[i] + Len(ss[i]) <= Len(flat)
          /\ \A i \in 1 .. N : \A m \in 1 .. Len(ss[i]) : flat[start[i] + m] = ss[i][m]
          /\ \A n \in 1 .. Len(flat) :
                 \E i \in 1 .. N : \E m \in 1 .. Len(ss[i]) : n = start[i] + m
      BY <3>2, Zenon DEF Joined
    <3> HIDE DEF N, flat
    <3>4. Starts(start, flat, ss)
      BY <2>6, <2>7, <3>1, <3>3, ZenonT(60) DEF Starts
    <3> QED BY <3>4 DEF flat
  <2> QED BY <2>1, <2>5, <2>8 DEF Good, Joined
<1> QED BY <1>2, <1>3

-----------------------------------------------------------------------------
(* Sequences of no set in particular, that grow and shrink at their ends.  *)

IsSequence(s) == s \in Seq(ToSet(s))

(* A sequence of elements of a set is a sequence.                          *)
LEMMA SeqIsSequence ==
    ASSUME NEW S, NEW s \in Seq(S)
    PROVE  IsSequence(s)
BY SeqOfElements DEF IsSequence

(* A sequence is a sequence of any set that its elements are in.           *)
LEMMA SequenceOver ==
    ASSUME NEW S, NEW s, IsSequence(s), \A i \in 1 .. Len(s) : s[i] \in S
    PROVE  s \in Seq(S)
<1>1. /\ Len(s) \in Nat /\ s \in [1 .. Len(s) -> ToSet(s)]
  BY LenProperties DEF IsSequence
<1>2. s \in [1 .. Len(s) -> S]
  BY <1>1
<1> QED BY <1>1, <1>2, SeqDef

(* The empty sequence is one.                                              *)
LEMMA EmptyIsSequence == IsSequence(<< >>) /\ Len(<< >>) = 0
<1>1. << >> \in Seq({})
  OBVIOUS
<1> QED BY <1>1, SeqIsSequence

(* The length and the domain of a sequence.                                *)
LEMMA SequenceFacts ==
    ASSUME NEW s, IsSequence(s)
    PROVE  /\ Len(s) \in Nat /\ DOMAIN s = 1 .. Len(s)
           /\ s = << >> <=> Len(s) = 0
           /\ \A i \in 1 .. Len(s) : s[i] \in ToSet(s)
<1>1. /\ Len(s) \in Nat /\ DOMAIN s = 1 .. Len(s)
      /\ \A i \in 1 .. Len(s) : s[i] \in ToSet(s)
  BY LenProperties DEF IsSequence, ToSet
<1>2. s = << >> <=> Len(s) = 0
  BY EmptySeq DEF IsSequence
<1> QED BY <1>1, <1>2

(* What is where after an element was appended.                            *)
LEMMA AppendFacts ==
    ASSUME NEW s, IsSequence(s), NEW e
    PROVE  /\ IsSequence(Append(s, e)) /\ Len(Append(s, e)) = Len(s) + 1
           /\ \A i \in 1 .. Len(s) : Append(s, e)[i] = s[i]
           /\ Append(s, e)[Len(s) + 1] = e
<1> DEFINE S == ToSet(s) \cup {e}
<1>1. s \in Seq(S) /\ e \in S
  <2>1. \A i \in 1 .. Len(s) : s[i] \in S
    BY SequenceFacts
  <2> HIDE DEF S
  <2>2. s \in Seq(S)
    BY <2>1, SequenceOver
  <2> QED BY <2>2 DEF S
<1> HIDE DEF S
<1>2. /\ Append(s, e) \in Seq(S) /\ Len(Append(s, e)) = Len(s) + 1
      /\ \A i \in 1 .. Len(s) : Append(s, e)[i] = s[i]
      /\ Append(s, e)[Len(s) + 1] = e
  BY <1>1, AppendProperties
<1>3. IsSequence(Append(s, e))
  BY <1>2, SeqIsSequence
<1> QED BY <1>2, <1>3

(* What is where in a concatenation.                                       *)
LEMMA ConcatFacts ==
    ASSUME NEW s, IsSequence(s), NEW t, IsSequence(t)
    PROVE  /\ IsSequence(s \o t) /\ Len(s \o t) = Len(s) + Len(t)
           /\ \A m \in 1 .. Len(s) : (s \o t)[m] = s[m]
           /\ \A m \in 1 .. Len(t) : (s \o t)[Len(s) + m] = t[m]
           /\ \A p \in 1 .. Len(s \o t) :
                  p \in 1 .. Len(s) \/ \E m \in 1 .. Len(t) : p = Len(s) + m
<1> DEFINE S == ToSet(s) \cup ToSet(t)
<1>1. s \in Seq(S) /\ t \in Seq(S)
  <2>1. \A i \in 1 .. Len(s) : s[i] \in S
    BY SequenceFacts
  <2>2. \A i \in 1 .. Len(t) : t[i] \in S
    BY SequenceFacts
  <2> HIDE DEF S
  <2> QED BY <2>1, <2>2, SequenceOver
<1> HIDE DEF S
<1>2. s \o t \in Seq(S)
  BY <1>1, ConcatParts
<1>3. IsSequence(s \o t)
  BY <1>2, SeqIsSequence
<1> QED BY <1>1, <1>3, ConcatParts

(* A part of a sequence.                                                   *)
LEMMA SubSeqFacts ==
    ASSUME NEW s, IsSequence(s), NEW m \in 1 .. Len(s) + 1, NEW n \in m - 1 .. Len(s)
    PROVE  /\ IsSequence(SubSeq(s, m, n)) /\ Len(SubSeq(s, m, n)) = n - m + 1
           /\ \A i \in 1 .. n - m + 1 : SubSeq(s, m, n)[i] = s[m + i - 1]
<1> DEFINE S == ToSet(s)
<1>1. s \in Seq(S) /\ Len(s) \in Nat
  BY SequenceFacts DEF IsSequence
<1> HIDE DEF S
<1>2. /\ SubSeq(s, m, n) \in Seq(S)
      /\ Len(SubSeq(s, m, n)) = n - m + 1
      /\ \A i \in 1 .. n - m + 1 : SubSeq(s, m, n)[i] = s[m + i - 1]
  BY <1>1
<1>3. IsSequence(SubSeq(s, m, n))
  BY <1>2, SeqIsSequence
<1> QED BY <1>2, <1>3

(* A sequence without its first element.                                   *)
LEMMA TailFacts ==
    ASSUME NEW s, IsSequence(s), s # << >>
    PROVE  /\ IsSequence(Tail(s)) /\ Len(Tail(s)) = Len(s) - 1
           /\ \A i \in 1 .. Len(s) - 1 : Tail(s)[i] = s[i + 1]
<1> DEFINE S == ToSet(s)
<1>1. s \in Seq(S) /\ Len(s) \in Nat
  BY SequenceFacts DEF IsSequence
<1> HIDE DEF S
<1>2. /\ Tail(s) \in Seq(S) /\ Len(Tail(s)) = Len(s) - 1
      /\ \A i \in 1 .. Len(s) - 1 : Tail(s)[i] = s[i + 1]
  BY <1>1
<1>3. IsSequence(Tail(s))
  BY <1>2, SeqIsSequence
<1> QED BY <1>2, <1>3

(* A sequence of one element, of two and of three.                         *)
LEMMA TupleFacts ==
    ASSUME NEW a, NEW b, NEW c
    PROVE  /\ IsSequence(<<a>>) /\ Len(<<a>>) = 1
           /\ IsSequence(<<a, b>>) /\ Len(<<a, b>>) = 2
           /\ IsSequence(<<a, b, c>>) /\ Len(<<a, b, c>>) = 3
<1>1. <<a>> \in Seq({a}) /\ <<a, b>> \in Seq({a, b}) /\ <<a, b, c>> \in Seq({a, b, c})
  OBVIOUS
<1>2. Len(<<a>>) = 1 /\ Len(<<a, b>>) = 2 /\ Len(<<a, b, c>>) = 3
  OBVIOUS
<1> QED BY <1>1, <1>2, SeqIsSequence

(* A function on 1 .. n.                                                   *)
LEMMA FunctionFacts ==
    ASSUME NEW r, NEW n \in Nat, r = [i \in 1 .. n |-> r[i]]
    PROVE  IsSequence(r) /\ Len(r) = n
BY FunctionIsSeq DEF IsSequence

(* Two sequences of the same length with the same elements are the same.   *)
LEMMA SameSequence ==
    ASSUME NEW s, IsSequence(s), NEW t, IsSequence(t), Len(s) = Len(t),
           \A i \in 1 .. Len(s) : s[i] = t[i]
    PROVE  s = t
<1>1. DOMAIN s = 1 .. Len(s) /\ DOMAIN t = 1 .. Len(s)
  BY SequenceFacts
<1>2. s = [i \in DOMAIN s |-> s[i]] /\ t = [i \in DOMAIN t |-> t[i]]
  BY DEF IsSequence
<1> QED BY <1>1, <1>2

(* Elements put together one by one.                                       *)
LEMMA TupleConcat ==
    ASSUME NEW a, NEW b, NEW c
    PROVE  /\ <<a>> \o << >> \o <<b>> = <<a, b>>
           /\ <<a>> \o <<b>> \o <<c>> = <<a, b, c>>
<1> DEFINE S == {a, b, c}
<1>1. /\ <<a>> \in Seq(S) /\ <<b>> \in Seq(S) /\ <<a, b>> \in Seq(S)
      /\ a \in S /\ b \in S /\ c \in S
  OBVIOUS
<1>2. <<a, b>> = Append(<<a>>, b) /\ <<a, b, c>> = Append(<<a, b>>, c)
  <2>1. /\ IsSequence(<<a>>) /\ Len(<<a>>) = 1
        /\ IsSequence(<<a, b>>) /\ Len(<<a, b>>) = 2
        /\ IsSequence(<<a, b, c>>) /\ Len(<<a, b, c>>) = 3
    BY TupleFacts
  <2>2. ASSUME NEW s, NEW e, NEW t, IsSequence(s), IsSequence(t), Len(t) = Len(s) + 1,
               \A i \in 1 .. Len(s) : t[i] = s[i], t[Len(s) + 1] = e
        PROVE  t = Append(s, e)
    <3> DEFINE r == Append(s, e)
    <3>1. /\ IsSequence(r) /\ Len(r) = Len(s) + 1 /\ Len(s) \in Nat
          /\ \A i \in 1 .. Len(s) : r[i] = s[i]
          /\ r[Len(s) + 1] = e
      BY <2>2, AppendFacts, SequenceFacts
    <3> HIDE DEF r
    <3>2. \A i \in 1 .. Len(s) + 1 : i \in 1 .. Len(s) \/ i = Len(s) + 1
      BY <3>1
    <3>3. \A i \in 1 .. Len(t) : t[i] = r[i]
      BY <2>2, <3>1, <3>2
    <3>4. t = r
      BY <2>2, <3>1, <3>3, SameSequence
    <3> QED BY <3>4 DEF r
  <2>3. \A i \in 1 .. Len(<<a>>) : <<a, b>>[i] = <<a>>[i]
    BY <2>1
  <2>4. <<a, b>>[Len(<<a>>) + 1] = b /\ <<a, b, c>>[Len(<<a, b>>) + 1] = c
    BY <2>1
  <2>5. \A i \in 1 .. Len(<<a, b>>) : <<a, b, c>>[i] = <<a, b>>[i]
    BY <2>1
  <2>6. Len(<<a, b>>) = Len(<<a>>) + 1 /\ Len(<<a, b, c>>) = Len(<<a, b>>) + 1
    BY <2>1
  <2>7. <<a, b>> = Append(<<a>>, b)
    BY <2>1, <2>2, <2>3, <2>4, <2>6
  <2>8. <<a, b, c>> = Append(<<a, b>>, c)
    BY <2>1, <2>2, <2>4, <2>5, <2>6
  <2> QED BY <2>7, <2>8
<1> HIDE DEF S
<1>3. <<a>> \o << >> = <<a>>
  BY <1>1, ConcatEmptySeq
<1>4. Append(<<a>>, b) = <<a>> \o <<b>> /\ Append(<<a, b>>, c) = <<a, b>> \o <<c>>
  BY <1>1, AppendIsConcat
<1> QED BY <1>2, <1>3, <1>4, Zenon

(* A sequence without its i-th element.                                    *)
LEMMA RemoveFacts ==
    ASSUME NEW s, IsSequence(s), NEW i \in 1 .. Len(s)
    PROVE  /\ IsSequence(RemoveAt(s, i)) /\ Len(RemoveAt(s, i)) = Len(s) - 1
           /\ \A n \in 1 .. i - 1 : RemoveAt(s, i)[n] = s[n]
           /\ \A n \in i .. Len(s) - 1 : RemoveAt(s, i)[n] = s[n + 1]
<1> DEFINE a == SubSeq(s, 1, i - 1)
           b == SubSeq(s, i + 1, Len(s))
<1>1. Len(s) \in Nat
  BY SequenceFacts
<1>2. /\ IsSequence(a) /\ Len(a) = i - 1
      /\ \A n \in 1 .. i - 1 : a[n] = s[n]
  <2> DEFINE l == 1
             h == i - 1
  <2>1. l \in 1 .. Len(s) + 1 /\ h \in l - 1 .. Len(s) /\ h - l + 1 = i - 1
    BY <1>1
  <2>2. \A n \in 1 .. i - 1 : l + n - 1 = n
    OBVIOUS
  <2> HIDE DEF l, h
  <2>3. /\ IsSequence(SubSeq(s, l, h)) /\ Len(SubSeq(s, l, h)) = h - l + 1
        /\ \A n \in 1 .. h - l + 1 : SubSeq(s, l, h)[n] = s[l + n - 1]
    BY <2>1, SubSeqFacts
  <2>4. a = SubSeq(s, l, h)
    BY DEF l, h
  <2> QED BY <2>1, <2>2, <2>3, <2>4
<1>3. /\ IsSequence(b) /\ Len(b) = Len(s) - i
      /\ \A n \in 1 .. Len(s) - i : b[n] = s[i + n]
  <2> DEFINE l == i + 1
             h == Len(s)
  <2>1. l \in 1 .. Len(s) + 1 /\ h \in l - 1 .. Len(s) /\ h - l + 1 = Len(s) - i
    BY <1>1
  <2>2. \A n \in 1 .. Len(s) - i : l + n - 1 = i + n
    BY <1>1
  <2> HIDE DEF l, h
  <2>3. /\ IsSequence(SubSeq(s, l, h)) /\ Len(SubSeq(s, l, h)) = h - l + 1
        /\ \A n \in 1 .. h - l + 1 : SubSeq(s, l, h)[n] = s[l + n - 1]
    BY <2>1, SubSeqFacts
  <2>4. b = SubSeq(s, l, h)
    BY DEF l, h
  <2> QED BY <2>1, <2>2, <2>3, <2>4
<1>4. RemoveAt(s, i) = a \o b
  BY DEF RemoveAt
<1> HIDE DEF a, b
<1>5. /\ IsSequence(a \o b) /\ Len(a \o b) = Len(a) + Len(b)
      /\ \A m \in 1 .. Len(a) : (a \o b)[m] = a[m]
      /\ \A m \in 1 .. Len(b) : (a \o b)[Len(a) + m] = b[m]
  <2>1. IsSequence(a) /\ IsSequence(b)
    BY <1>2, <1>3
  <2>2. /\ IsSequence(a \o b) /\ Len(a \o b) = Len(a) + Len(b)
        /\ \A m \in 1 .. Len(a) : (a \o b)[m] = a[m]
        /\ \A m \in 1 .. Len(b) : (a \o b)[Len(a) + m] = b[m]
        /\ \A p \in 1 .. Len(a \o b) :
               p \in 1 .. Len(a) \/ \E m \in 1 .. Len(b) : p = Len(a) + m
    BY ONLY <2>1, ConcatFacts
  <2> QED BY <2>2
<1>6. ASSUME NEW n \in i .. Len(s) - 1 PROVE RemoveAt(s, i)[n] = s[n + 1]
  <2>1. n - i + 1 \in 1 .. Len(s) - i /\ Len(a) + (n - i + 1) = n /\ i + (n - i + 1) = n + 1
    BY <1>1, <1>2
  <2>2. (a \o b)[Len(a) + (n - i + 1)] = b[n - i + 1]
    BY <1>3, <1>5, <2>1
  <2> QED BY <1>3, <1>4, <2>1, <2>2
<1> QED BY <1>1, <1>2, <1>3, <1>4, <1>5, <1>6

(* The least member of a set of natural numbers.                           *)
LEMMA MinOfNaturals ==
    ASSUME NEW S, S \subseteq Nat, S # {}
    PROVE  Min(S) \in S /\ \A y \in S : Min(S) <= y
<1> DEFINE P == {n \in Nat : S \cap 0 .. n # {} => \E x \in S : \A y \in S : x <= y}
<1>1. 0 \in P
  <2> SUFFICES ASSUME S \cap 0 .. 0 # {} PROVE \E x \in S : \A y \in S : x <= y
    OBVIOUS
  <2>1. 0 \in S
    OBVIOUS
  <2> QED BY <2>1
<1>2. ASSUME NEW n \in Nat, n \in P PROVE n + 1 \in P
  <2> SUFFICES ASSUME S \cap 0 .. n + 1 # {} PROVE \E x \in S : \A y \in S : x <= y
    OBVIOUS
  <2>1. CASE S \cap 0 .. n # {}
    BY <1>2, <2>1
  <2>2. CASE S \cap 0 .. n = {}
    <3>1. n + 1 \in S
      BY <2>2
    <3>2. \A y \in S : n + 1 <= y
      BY <2>2
    <3> QED BY <3>1, <3>2
  <2> QED BY <2>1, <2>2
<1> HIDE DEF P
<1>3. PICK n \in Nat : n \in S
  OBVIOUS
<1>4. n \in P
  BY <1>1, <1>2, NatSetInduction
<1>5. \E x \in S : \A y \in S : x <= y
  BY <1>3, <1>4 DEF P
<1> QED BY <1>5, Zenon DEF Min

(* Where an element of a sequence is first.                                *)
PlaceOf(s, e) == SelectInSeq(s, LAMBDA x : x = e)

(* It is there.                                                            *)
LEMMA PlaceFacts ==
    ASSUME NEW s, IsSequence(s), NEW e \in ToSet(s)
    PROVE  PlaceOf(s, e) \in 1 .. Len(s) /\ s[PlaceOf(s, e)] = e
<1> DEFINE I == {i \in 1 .. Len(s) : s[i] = e}
<1>1. DOMAIN s = 1 .. Len(s) /\ Len(s) \in Nat
  BY SequenceFacts
<1>2. I # {}
  BY <1>1 DEF ToSet
<1>3. PlaceOf(s, e) = Min(I)
  BY <1>2, Zenon DEF PlaceOf, SelectInSeq
<1>4. I \subseteq Nat
  BY <1>1
<1>5. Min(I) \in I
  <2> HIDE DEF I
  <2> QED BY <1>2, <1>4, MinOfNaturals
<1> QED BY <1>3, <1>5

(* r has a, b, c and d one after the other; j, k and l elements are before *)
(* the last three.                                                         *)
InParts(r, a, b, c, d, j, k, l) ==
    /\ IsSequence(r) /\ Len(r) = l + Len(d)
    /\ j \in Nat /\ k \in Nat /\ l \in Nat
    /\ \A m \in 1 .. j : r[m] = a[m]
    /\ \A m \in 1 .. Len(b) : r[j + m] = b[m]
    /\ \A m \in 1 .. Len(c) : r[k + m] = c[m]
    /\ \A m \in 1 .. Len(d) : r[l + m] = d[m]

(* What is where in a concatenation of four.                               *)
LEMMA FourParts ==
    ASSUME NEW a, IsSequence(a), NEW b, IsSequence(b), NEW c, IsSequence(c),
           NEW d, IsSequence(d), NEW r, r = a \o b \o c \o d,
           NEW j, j = Len(a), NEW k, k = j + Len(b), NEW l, l = k + Len(c)
    PROVE  InParts(r, a, b, c, d, j, k, l)
<1> DEFINE x == a \o b
           y == x \o c
<1>1. Len(a) \in Nat /\ Len(b) \in Nat /\ Len(c) \in Nat /\ Len(d) \in Nat
  BY SequenceFacts
<1>2. /\ IsSequence(x) /\ Len(x) = Len(a) + Len(b)
      /\ \A m \in 1 .. Len(a) : x[m] = a[m]
      /\ \A m \in 1 .. Len(b) : x[Len(a) + m] = b[m]
  <2>1. IsSequence(a) /\ IsSequence(b)
    OBVIOUS
  <2>2. /\ IsSequence(a \o b) /\ Len(a \o b) = Len(a) + Len(b)
        /\ \A m \in 1 .. Len(a) : (a \o b)[m] = a[m]
        /\ \A m \in 1 .. Len(b) : (a \o b)[Len(a) + m] = b[m]
        /\ \A p \in 1 .. Len(a \o b) :
               p \in 1 .. Len(a) \/ \E m \in 1 .. Len(b) : p = Len(a) + m
    BY ONLY <2>1, ConcatFacts
  <2> QED BY <2>2
<1> HIDE DEF x
<1>3. /\ IsSequence(y) /\ Len(y) = Len(x) + Len(c)
      /\ \A m \in 1 .. Len(x) : y[m] = x[m]
      /\ \A m \in 1 .. Len(c) : y[Len(x) + m] = c[m]
  <2>1. IsSequence(x) /\ IsSequence(c)
    BY <1>2
  <2>2. /\ IsSequence(x \o c) /\ Len(x \o c) = Len(x) + Len(c)
        /\ \A m \in 1 .. Len(x) : (x \o c)[m] = x[m]
        /\ \A m \in 1 .. Len(c) : (x \o c)[Len(x) + m] = c[m]
        /\ \A p \in 1 .. Len(x \o c) :
               p \in 1 .. Len(x) \/ \E m \in 1 .. Len(c) : p = Len(x) + m
    BY ONLY <2>1, ConcatFacts
  <2> QED BY <2>2
<1>4. r = y \o d
  BY DEF x
<1> HIDE DEF y
<1>5. /\ IsSequence(y \o d) /\ Len(y \o d) = Len(y) + Len(d)
      /\ \A m \in 1 .. Len(y) : (y \o d)[m] = y[m]
      /\ \A m \in 1 .. Len(d) : (y \o d)[Len(y) + m] = d[m]
  <2>1. IsSequence(y) /\ IsSequence(d)
    BY <1>3
  <2>2. /\ IsSequence(y \o d) /\ Len(y \o d) = Len(y) + Len(d)
        /\ \A m \in 1 .. Len(y) : (y \o d)[m] = y[m]
        /\ \A m \in 1 .. Len(d) : (y \o d)[Len(y) + m] = d[m]
        /\ \A p \in 1 .. Len(y \o d) :
               p \in 1 .. Len(y) \/ \E m \in 1 .. Len(d) : p = Len(y) + m
    BY ONLY <2>1, ConcatFacts
  <2> QED BY <2>2
<1>6. j = Len(a) /\ k = Len(x) /\ l = Len(y) /\ j \in Nat /\ k \in Nat /\ l \in Nat
  BY <1>1, <1>2, <1>3
<1>7. ASSUME NEW m \in 1 .. j PROVE r[m] = a[m]
  <2>1. m \in 1 .. Len(x) /\ m \in 1 .. Len(y)
    BY <1>1, <1>2, <1>3, <1>6
  <2> QED BY <1>2, <1>3, <1>4, <1>5, <1>6, <2>1
<1>8. ASSUME NEW m \in 1 .. Len(b) PROVE r[j + m] = b[m]
  <2>1. j + m \in 1 .. Len(x) /\ j + m \in 1 .. Len(y)
    BY <1>1, <1>2, <1>3, <1>6
  <2> QED BY <1>2, <1>3, <1>4, <1>5, <1>6, <2>1
<1>9. ASSUME NEW m \in 1 .. Len(c) PROVE r[k + m] = c[m]
  <2>1. k + m \in 1 .. Len(y)
    BY <1>1, <1>2, <1>3, <1>6
  <2> QED BY <1>3, <1>4, <1>5, <1>6, <2>1
<1> QED BY <1>4, <1>5, <1>6, <1>7, <1>8, <1>9 DEF InParts

-----------------------------------------------------------------------------
(* Flattening a sequence of sequences.                                     *)

(* The first n sequences of ss, one after the other.                       *)
Joint(ss, n) == FlattenSeq([i \in 1 .. n |-> ss[i]])

(* n sequences of it, behind the first m.                                  *)
Shifted(ss, m, n) == [i \in 1 .. n |-> ss[m + i]]

(* The recursion of FlattenSeq has one solution, whatever follows.         *)
LEMMA AccumulatorUnique ==
    ASSUME NEW a, NEW b, NEW s, NEW t, NEW M \in Nat, NEW K \in Nat,
           Accumulates(a, s, M), Accumulates(b, t, K), K <= M,
           \A i \in 1 .. K : s[i] = t[i]
    PROVE  \A i \in 1 .. K : a[i] = b[i]
<1> DEFINE P == {n \in Nat : n + 1 <= K => a[n + 1] = b[n + 1]}
<1>1. ASSUME NEW i \in 1 .. K
      PROVE  /\ a[i] = IF i = 1 THEN s[i] ELSE a[i - 1] \o s[i]
             /\ b[i] = IF i = 1 THEN s[i] ELSE b[i - 1] \o s[i]
  <2>1. i \in 1 .. M /\ s[i] = t[i]
    OBVIOUS
  <2> QED BY <2>1 DEF Accumulates
<1>2. 0 \in P
  <2>1. 1 <= K => 1 \in 1 .. K
    OBVIOUS
  <2> QED BY <2>1, <1>1
<1>3. ASSUME NEW n \in Nat, n \in P PROVE n + 1 \in P
  <2> SUFFICES ASSUME (n + 1) + 1 <= K PROVE a[(n + 1) + 1] = b[(n + 1) + 1]
    OBVIOUS
  <2> DEFINE i == (n + 1) + 1
  <2>1. i \in 1 .. K /\ i # 1 /\ i - 1 = n + 1 /\ n + 1 <= K
    OBVIOUS
  <2>2. a[i - 1] = b[i - 1]
    BY <1>3, <2>1
  <2> HIDE DEF i
  <2>3. a[i] = b[i]
    BY <1>1, <2>1, <2>2
  <2> QED BY <2>3 DEF i
<1> HIDE DEF P
<1>4. Nat \subseteq P
  BY <1>2, <1>3, NatSetInduction
<1> TAKE i \in 1 .. K
<1>5. i - 1 \in P /\ (i - 1) + 1 = i
  BY <1>4
<1> QED BY <1>5 DEF P

(* The first n of them are sequences over S.                               *)
Parts(ss, n, S) == \A i \in 1 .. n : ss[i] \in Seq(S)

(* One more.                                                               *)
LEMMA JointStep ==
    ASSUME NEW S, NEW ss, NEW n \in Nat, Parts(ss, n + 1, S)
    PROVE  /\ Joint(ss, 0) = << >>
           /\ Joint(ss, n) \in Seq(S)
           /\ Joint(ss, n + 1) = Joint(ss, n) \o ss[n + 1]
<1> USE DEF Parts
<1> DEFINE f(m) == [i \in 1 .. m |-> ss[i]]
<1>1. Joint(ss, 0) = << >>
  <2>1. f(0) = << >>
    OBVIOUS
  <2>2. FlattenSeq(<< >>) = << >>
    BY DEF FlattenSeq
  <2> QED BY <2>1, <2>2 DEF Joint
<1>2. ASSUME NEW m \in Nat
      PROVE  /\ Len(f(m)) = m /\ \A i \in 1 .. m : f(m)[i] = ss[i]
             /\ DOMAIN f(m) = 1 .. m
  OBVIOUS
<1>3. Joint(ss, n) \in Seq(S)
  <2>1. f(n) \in Seq(Seq(S))
    <3>1. \A i \in 1 .. n : ss[i] \in Seq(S)
      OBVIOUS
    <3>2. f(n) \in [1 .. n -> Seq(S)]
      BY <3>1
    <3> HIDE DEF f
    <3> QED BY <3>2, SeqDef
  <2> HIDE DEF f
  <2>2. FlattenSeq(f(n)) \in Seq(S)
    BY <2>1, FlattenProperties
  <2> QED BY <2>2 DEF Joint, f
<1>4. ASSUME NEW m \in Nat, m # 0
      PROVE  \E acc : Accumulates(acc, f(m), m) /\ Joint(ss, m) = acc[m]
  <2> HIDE DEF f
  <2>1. Len(f(m)) = m
    BY <1>2
  <2>2. \E acc : Accumulates(acc, f(m), m) /\ FlattenSeq(f(m)) = acc[m]
    BY <1>4, <2>1, FlattenAccumulates
  <2> QED BY <2>2 DEF Joint, f
<1> PICK a : Accumulates(a, f(n + 1), n + 1) /\ Joint(ss, n + 1) = a[n + 1]
  BY <1>4
<1>5. n + 1 \in 1 .. n + 1 /\ (n + 1) - 1 = n /\ (n + 1 = 1 <=> n = 0)
  OBVIOUS
<1>6. ss[n + 1] \in Seq(S) /\ f(n + 1)[n + 1] = ss[n + 1]
  BY <1>2, <1>5
<1> HIDE DEF f
<1>7. a[n + 1] = IF n = 0 THEN ss[n + 1] ELSE a[n] \o ss[n + 1]
  <2>1. a[n + 1] = IF n + 1 = 1 THEN f(n + 1)[n + 1] ELSE a[(n + 1) - 1] \o f(n + 1)[n + 1]
    BY <1>5, Zenon DEF Accumulates
  <2> QED BY <2>1, <1>5, <1>6
<1>8. ASSUME n = 0 PROVE Joint(ss, n + 1) = Joint(ss, n) \o ss[n + 1]
  <2> DEFINE x == ss[n + 1]
  <2>1. << >> \o x = x
    <3>1. x \in Seq(S)
      BY <1>6
    <3> HIDE DEF x
    <3> QED BY <3>1, ConcatEmptySeq
  <2>2. Joint(ss, n) = << >> /\ Joint(ss, n + 1) = x
    BY <1>1, <1>7, <1>8
  <2> QED BY <2>1, <2>2
<1>9. ASSUME n # 0 PROVE Joint(ss, n + 1) = Joint(ss, n) \o ss[n + 1]
  <2> PICK b : Accumulates(b, f(n), n) /\ Joint(ss, n) = b[n]
    BY <1>4, <1>9
  <2>1. n <= n + 1 /\ n + 1 \in Nat /\ \A i \in 1 .. n : i \in 1 .. n + 1
    OBVIOUS
  <2>2. \A i \in 1 .. n : f(n + 1)[i] = f(n)[i]
    BY <1>2, <2>1
  <2>3. \A i \in 1 .. n : a[i] = b[i]
    BY <2>1, <2>2, AccumulatorUnique
  <2>4. a[n] = b[n]
    BY <2>3, <1>9
  <2> QED BY <1>7, <1>9, <2>4
<1> QED BY <1>1, <1>3, <1>8, <1>9

(* They are told apart by their sequences only.                            *)
LEMMA JointSame ==
    ASSUME NEW ss, NEW tt, NEW n \in Nat, \A i \in 1 .. n : ss[i] = tt[i]
    PROVE  Joint(ss, n) = Joint(tt, n)
<1>1. [i \in 1 .. n |-> ss[i]] = [i \in 1 .. n |-> tt[i]]
  BY Zenon
<1> QED BY <1>1 DEF Joint

(* l is the sum of m and n.                                                *)
Together(l, m, n) == l = m + n

(* The first l sequences of ss are its first m, and then n more.           *)
Splits(ss, l, m, n, S) ==
    /\ Joint(ss, m) \in Seq(S)
    /\ Joint(Shifted(ss, m, n), n) \in Seq(S)
    /\ Joint(ss, l) = Joint(ss, m) \o Joint(Shifted(ss, m, n), n)

(* The first m, and then n more.                                           *)
LEMMA JointSplit ==
    ASSUME NEW S, NEW ss, NEW m \in Nat, NEW n \in Nat, NEW l, Together(l, m, n),
           Parts(ss, l, S)
    PROVE  Splits(ss, l, m, n, S)
<1> USE DEF Parts, Together, Splits
<1> DEFINE rest == Shifted(ss, m, n)
           P == {k \in Nat : k <= n =>
                    /\ Joint(rest, k) \in Seq(S)
                    /\ Joint(ss, m + k) = Joint(ss, m) \o Joint(rest, k)}
<1>1. \A i \in 1 .. n : rest[i] = ss[m + i] /\ rest[i] \in Seq(S)
  <2>1. \A i \in 1 .. n : m + i \in 1 .. m + n
    OBVIOUS
  <2>2. \A i \in 1 .. n : rest[i] = ss[m + i]
    BY Zenon DEF Shifted
  <2> HIDE DEF rest
  <2> QED BY <2>1, <2>2
<1> HIDE DEF rest
<1>2. Joint(ss, m) \in Seq(S)
  <2> DEFINE tt == [i \in 1 .. m + 1 |-> IF i <= m THEN ss[i] ELSE << >>]
  <2>1. \A i \in 1 .. m + 1 : tt[i] \in Seq(S)
    <3>1. << >> \in Seq(S) /\ \A i \in 1 .. m : i \in 1 .. m + n
      OBVIOUS
    <3>2. \A i \in 1 .. m : ss[i] \in Seq(S)
      BY <3>1
    <3>3. \A i \in 1 .. m + 1 : i <= m => i \in 1 .. m
      OBVIOUS
    <3> QED BY <3>1, <3>2, <3>3
  <2>2. \A i \in 1 .. m : tt[i] = ss[i]
    OBVIOUS
  <2> HIDE DEF tt
  <2>3. Joint(tt, m) \in Seq(S)
    BY <2>1, JointStep
  <2> QED BY <2>2, <2>3, JointSame
<1>3. 0 \in P
  <2>1. << >> \in Seq(S) /\ m + 0 = m
    OBVIOUS
  <2>2. Joint(rest, 0) = << >>
    <3>1. [i \in 1 .. 0 |-> rest[i]] = << >> /\ FlattenSeq(<< >>) = << >>
      BY DEF FlattenSeq
    <3> QED BY <3>1 DEF Joint
  <2>3. Joint(ss, m) \o << >> = Joint(ss, m)
    BY <1>2, ConcatEmptySeq
  <2> QED BY <2>1, <2>2, <2>3
<1>4. ASSUME NEW k \in Nat, k \in P PROVE k + 1 \in P
  <2> SUFFICES ASSUME k + 1 <= n
               PROVE  /\ Joint(rest, k + 1) \in Seq(S)
                      /\ Joint(ss, m + (k + 1)) = Joint(ss, m) \o Joint(rest, k + 1)
    OBVIOUS
  <2>1. /\ k <= n /\ k + 1 \in 1 .. n /\ m + (k + 1) = (m + k) + 1 /\ m + k \in Nat
        /\ \A i \in 1 .. k + 1 : i \in 1 .. n
        /\ \A i \in 1 .. (m + k) + 1 : i \in 1 .. m + n
    OBVIOUS
  <2>2. Joint(rest, k) \in Seq(S) /\ Joint(ss, m + k) = Joint(ss, m) \o Joint(rest, k)
    BY <1>4, <2>1
  <2>3. Joint(rest, k + 1) = Joint(rest, k) \o rest[k + 1]
    <3>1. \A i \in 1 .. k + 1 : rest[i] \in Seq(S)
      BY <1>1, <2>1
    <3> QED BY <3>1, JointStep
  <2>4. Joint(ss, (m + k) + 1) = Joint(ss, m + k) \o ss[(m + k) + 1]
    <3>1. \A i \in 1 .. (m + k) + 1 : ss[i] \in Seq(S)
      BY <2>1
    <3> QED BY <2>1, <3>1, JointStep
  <2>5. rest[k + 1] = ss[(m + k) + 1] /\ rest[k + 1] \in Seq(S)
    BY <1>1, <2>1
  <2> DEFINE x == Joint(ss, m)
             y == Joint(rest, k)
             z == rest[k + 1]
  <2>6. x \in Seq(S) /\ y \in Seq(S) /\ z \in Seq(S)
    BY <1>2, <2>2, <2>5
  <2> HIDE DEF x, y, z
  <2>7. (x \o y) \o z = x \o (y \o z) /\ y \o z \in Seq(S)
    BY <2>6, ConcatAssociative, ConcatProperties
  <2> QED BY <2>1, <2>2, <2>3, <2>4, <2>5, <2>7 DEF x, y, z
<1> HIDE DEF P
<1>5. n \in P /\ n <= n
  BY <1>3, <1>4, NatSetInduction
<1> QED BY <1>2, <1>5 DEF P, rest

(* Each of K rows joins T of them.                                         *)
Nested(rows, ss, T, K) ==
    \A j \in 1 .. K : rows[j] = Joint(Shifted(ss, (j - 1) * T, T), T)

(* In rows of T.                                                           *)
LEMMA JointNested ==
    ASSUME NEW S, NEW ss, NEW T \in Nat, NEW K \in Nat, NEW rows, NEW n, n = K * T,
           Parts(ss, n, S), Nested(rows, ss, T, K)
    PROVE  Joint(rows, K) = Joint(ss, n) /\ Joint(rows, K) \in Seq(S)
<1>0. \A j \in 1 .. K : rows[j] = Joint(Shifted(ss, (j - 1) * T, T), T)
  BY Zenon DEF Nested
<1>p. \A i \in 1 .. n : ss[i] \in Seq(S)
  BY DEF Parts
<1> DEFINE P == {k \in Nat : k <= K => /\ \A j \in 1 .. k : rows[j] \in Seq(S)
                                       /\ Joint(rows, k) = Joint(ss, k * T)
                                       /\ Joint(rows, k) \in Seq(S)}
<1>1. 0 \in P
  <2>1. 0 * T = 0
    OBVIOUS
  <2>2. \A x : Joint(x, 0) = << >>
    <3> TAKE x
    <3>1. [i \in 1 .. 0 |-> x[i]] = << >> /\ FlattenSeq(<< >>) = << >>
      BY DEF FlattenSeq
    <3> QED BY <3>1 DEF Joint
  <2>3. << >> \in Seq(S) /\ 1 .. 0 = {}
    OBVIOUS
  <2> QED BY <2>1, <2>2, <2>3
<1>2. ASSUME NEW k \in Nat, k \in P PROVE k + 1 \in P
  <2> SUFFICES ASSUME k + 1 <= K
               PROVE  /\ \A j \in 1 .. k + 1 : rows[j] \in Seq(S)
                      /\ Joint(rows, k + 1) = Joint(ss, (k + 1) * T)
                      /\ Joint(rows, k + 1) \in Seq(S)
    OBVIOUS
  <2> DEFINE m == k * T
             row == Shifted(ss, m, T)
  <2>1. /\ k <= K /\ k + 1 \in 1 .. K /\ (k + 1) - 1 = k
        /\ m \in Nat /\ (k + 1) * T = m + T /\ m + T <= K * T /\ K * T \in Nat
    <3>1. k * T \in Nat /\ (k + 1) * T = k * T + T /\ K * T \in Nat
      OBVIOUS
    <3>2. (k + 1) * T <= K * T
      <4>1. K = (k + 1) + (K - (k + 1)) /\ K - (k + 1) \in Nat
        OBVIOUS
      <4> DEFINE e == K - (k + 1)
      <4>2. K * T = (k + 1) * T + e * T /\ e * T \in Nat
        <5>1. e \in Nat /\ K = (k + 1) + e
          BY <4>1
        <5> HIDE DEF e
        <5> QED BY <5>1
      <4> HIDE DEF e
      <4> QED BY <3>1, <4>2
    <3> QED BY <3>1, <3>2
  <2>2. rows[k + 1] = Joint(row, T)
    BY <1>0, <2>1
  <2> HIDE DEF m
  <2>3. \A i \in 1 .. m + T : ss[i] \in Seq(S)
    <3>1. \A i \in 1 .. m + T : i \in 1 .. n
      BY <2>1
    <3> QED BY <1>p, <3>1
  <2>4. /\ Joint(row, T) \in Seq(S) /\ Joint(ss, m) \in Seq(S)
        /\ Joint(ss, m + T) = Joint(ss, m) \o Joint(row, T)
    <3>1. m \in Nat /\ T \in Nat
      BY <2>1
    <3> DEFINE l == m + T
    <3>2. Parts(ss, l, S)
      BY <2>3 DEF Parts
    <3>3. Together(l, m, T)
      BY DEF Together
    <3> HIDE DEF l
    <3>4. Splits(ss, l, m, T, S)
      BY ONLY <3>1, <3>2, <3>3, JointSplit
    <3> QED BY <3>4, Zenon DEF l, Splits
  <2> HIDE DEF row
  <2>5. /\ \A j \in 1 .. k : rows[j] \in Seq(S)
        /\ Joint(rows, k) = Joint(ss, m) /\ Joint(rows, k) \in Seq(S)
    BY <1>2, <2>1 DEF m
  <2>6. \A j \in 1 .. k + 1 : rows[j] \in Seq(S)
    <3>1. \A j \in 1 .. k + 1 : j \in 1 .. k \/ j = k + 1
      OBVIOUS
    <3> QED BY <3>1, <2>2, <2>4, <2>5
  <2>7. Joint(rows, k + 1) = Joint(rows, k) \o rows[k + 1]
    BY <2>6, JointStep DEF Parts
  <2>8. Joint(ss, m) \o Joint(row, T) \in Seq(S)
    BY <2>4, ConcatProperties
  <2> QED BY <2>1, <2>2, <2>4, <2>5, <2>6, <2>7, <2>8
<1> HIDE DEF P
<1>3. K \in P /\ K <= K
  BY <1>1, <1>2, NatSetInduction
<1> QED BY <1>3 DEF P
=============================================================================
