---------------------------- MODULE LexerProofs ----------------------------
(***************************************************************************)
(* The lexer returns the tokens of the text by the longest match, for      *)
(* every text, and stays in it.  The invariant says where the lexer is in  *)
(* the text and which tokens are still ahead of that place.                *)
(***************************************************************************)
EXTENDS Lexer, SequenceLemmas, FiniteSetTheorems

-----------------------------------------------------------------------------
(* Sets of positions.                                                      *)

(* The greatest member, when it is known.                                  *)
LEMMA MaxIs ==
    ASSUME NEW S, S \subseteq Int, NEW m \in S, \A x \in S : x <= m
    PROVE  Max(S) = m
<1>1. \E x \in S : \A y \in S : x >= y
  OBVIOUS
<1>2. Max(S) \in S /\ \A y \in S : Max(S) >= y
  BY <1>1, Zenon DEF Max
<1>3. Max(S) \in Int /\ m \in Int /\ Max(S) <= m /\ Max(S) >= m
  BY <1>2
<1> QED BY <1>3

(* The line ends among the first q characters, and the last of them.       *)
Newlines(s, q) == {j \in 1 .. q : s[j] = "nl"}

LastOf(S) == IF S = {} THEN 0 ELSE Max(S)

(* What one more character changes.                                        *)
LEMMA NewlinesNext ==
    ASSUME NEW s, NEW q \in Nat
    PROVE  /\ s[q + 1] # "nl" => Newlines(s, q + 1) = Newlines(s, q)
           /\ s[q + 1] = "nl" =>
                  /\ Cardinality(Newlines(s, q + 1)) = Cardinality(Newlines(s, q)) + 1
                  /\ LastOf(Newlines(s, q + 1)) = q + 1
<1> DEFINE N == Newlines(s, q)
           M == Newlines(s, q + 1)
<1>1. N \subseteq 1 .. q /\ q + 1 \notin N
  BY DEF Newlines
<1>2. IsFiniteSet(N)
  <2>1. N \in SUBSET Nat /\ \A n \in N : n <= q
    BY <1>1
  <2> HIDE DEF N
  <2> QED BY ONLY q \in Nat, <2>1, FS_BoundedSetOfNaturals
<1>3. ASSUME s[q + 1] # "nl" PROVE M = N
  BY <1>3 DEF Newlines
<1>4. ASSUME s[q + 1] = "nl" PROVE M = N \cup {q + 1}
  BY <1>4 DEF Newlines
<1> HIDE DEF M, N
<1>5. ASSUME s[q + 1] = "nl" PROVE Cardinality(M) = Cardinality(N) + 1
  BY <1>1, <1>2, <1>4, <1>5, FS_AddElement
<1>6. ASSUME s[q + 1] = "nl" PROVE LastOf(M) = q + 1
  <2> DEFINE m == q + 1
  <2>1. m \in M /\ M \subseteq Int /\ \A x \in M : x <= m
    <3>1. M = N \cup {q + 1}
      BY <1>4, <1>6
    <3> QED BY <1>1, <3>1
  <2> HIDE DEF m
  <2>2. Max(M) = m
    BY ONLY <2>1, MaxIs
  <2>3. M # {}
    BY <2>1
  <2> QED BY <2>2, <2>3 DEF LastOf, m
<1> QED BY <1>3, <1>5, <1>6 DEF M, N

(* There are no more of them than characters.                              *)
LEMMA NewlinesBounds ==
    ASSUME NEW s, NEW q \in Nat
    PROVE  /\ Cardinality(Newlines(s, q)) \in 0 .. q
           /\ LastOf(Newlines(s, q)) \in 0 .. q
           /\ Cardinality(Newlines(s, 0)) = 0 /\ LastOf(Newlines(s, 0)) = 0
<1>1. Newlines(s, 0) = {}
  BY DEF Newlines
<1>2. Cardinality(Newlines(s, 0)) = 0 /\ LastOf(Newlines(s, 0)) = 0
  BY <1>1, FS_EmptySet DEF LastOf
<1> DEFINE P == {n \in Nat : /\ Cardinality(Newlines(s, n)) \in 0 .. n
                             /\ LastOf(Newlines(s, n)) \in 0 .. n}
<1>3. 0 \in P
  BY <1>2
<1>4. ASSUME NEW n \in Nat, n \in P PROVE n + 1 \in P
  BY <1>4, NewlinesNext
<1> HIDE DEF P
<1>5. q \in P
  BY <1>3, <1>4, NatSetInduction
<1> QED BY <1>2, <1>5 DEF P

(* The place of a character that ends no line.                             *)
LEMMA PlaceIs ==
    ASSUME NEW s, NEW q \in Nat, q # 0, s[q] # "nl"
    PROVE  Place(s, q) = <<1 + Cardinality(Newlines(s, q)), q - LastOf(Newlines(s, q))>>
<1>1. {j \in 1 .. q - 1 : s[j] = "nl"} = Newlines(s, q)
  BY DEF Newlines
<1> QED BY <1>1, Zenon DEF Place, LastOf

-----------------------------------------------------------------------------
(* Tokens that are ahead.                                                  *)

(* What the characters of the token that begins at i may be.               *)
More(s, i) ==
    IF s[i] \in Letters THEN WordChars ELSE IF s[i] \in Digits THEN NumberChars ELSE {}

(* A token ends where its characters do.                                   *)
LEMMA EndIs ==
    ASSUME NEW s, Len(s) \in Nat, NEW i \in 1 .. Len(s), NEW p \in i .. Len(s),
           \A k \in i + 1 .. p : s[k] \in More(s, i),
           p = Len(s) \/ s[p + 1] \notin More(s, i)
    PROVE  End(s, i) = p
<1> DEFINE S == {j \in i .. Len(s) : \A k \in i + 1 .. j : s[k] \in More(s, i)}
<1>1. p \in S
  OBVIOUS
<1>2. S \subseteq Int
  OBVIOUS
<1>3. ASSUME NEW x \in S PROVE x <= p
  <2> SUFFICES ASSUME p < x PROVE FALSE
    OBVIOUS
  <2>1. p + 1 \in i + 1 .. x /\ p # Len(s)
    OBVIOUS
  <2> QED BY <2>1
<1> HIDE DEF S
<1>4. Max(S) = p
  BY ONLY <1>1, <1>2, <1>3, MaxIs
<1>5. End(s, i) = Max(S)
  BY Zenon DEF End, More, S
<1> QED BY <1>4, <1>5

(* It ends somewhere in the text.                                          *)
LEMMA EndInText ==
    ASSUME NEW s, Len(s) \in Nat, NEW i \in 1 .. Len(s)
    PROVE  End(s, i) \in i .. Len(s)
<1> DEFINE S == {j \in i .. Len(s) : \A k \in i + 1 .. j : s[k] \in More(s, i)}
           P == {n \in Nat : \A x \in S : Len(s) - n <= x => \E m \in S : \A y \in S : y <= m}
<1>1. i \in S /\ S \subseteq i .. Len(s)
  OBVIOUS
<1>2. 0 \in P
  OBVIOUS
<1>3. ASSUME NEW n \in Nat, n \in P PROVE n + 1 \in P
  <2> SUFFICES ASSUME NEW x \in S, Len(s) - (n + 1) <= x
               PROVE  \E m \in S : \A y \in S : y <= m
    OBVIOUS
  <2>1. CASE \E y \in S : y > x
    <3>1. PICK y \in S : y > x
      BY <2>1
    <3>2. Len(s) - n <= y
      BY <1>1, <3>1
    <3> QED BY <1>3, <3>1, <3>2
  <2>2. CASE \A y \in S : ~ y > x
    BY <1>1, <2>2
  <2> QED BY <2>1, <2>2
<1> HIDE DEF P
<1>4. Len(s) \in P
  BY <1>2, <1>3, NatSetInduction
<1>5. PICK m \in S : \A y \in S : y <= m
  <2>1. Len(s) - Len(s) <= i
    OBVIOUS
  <2> QED BY <1>1, <1>4, <2>1 DEF P
<1> HIDE DEF S
<1>6. S \subseteq Int
  BY <1>1
<1>7. Max(S) = m
  BY ONLY <1>5, <1>6, MaxIs
<1>8. End(s, i) = Max(S)
  BY Zenon DEF End, More, S
<1> QED BY <1>1, <1>5, <1>7, <1>8

(* The tokens from i on, when f has those from each later place.           *)
FromHere(s, f, i) ==
    IF i > Len(s) THEN << >>
    ELSE IF Blank(s, i) THEN f[i + 1]
    ELSE <<<<i, End(s, i)>>>> \o f[End(s, i) + 1]

(* They depend on the later places alone.                                  *)
LEMMA FromLater ==
    ASSUME NEW s, Len(s) \in Nat, NEW f, NEW g, NEW i \in 1 .. Len(s) + 1,
           \A k \in i + 1 .. Len(s) + 1 : f[k] = g[k]
    PROVE  FromHere(s, f, i) = FromHere(s, g, i)
<1>1. CASE i > Len(s)
  BY <1>1, Zenon DEF FromHere
<1>2. CASE i <= Len(s)
  <2>1. i \in 1 .. Len(s)
    BY <1>2
  <2>2. End(s, i) + 1 \in i + 1 .. Len(s) + 1
    BY <2>1, EndInText
  <2>3. i + 1 \in i + 1 .. Len(s) + 1
    BY <2>1
  <2>4. f[i + 1] = g[i + 1] /\ f[End(s, i) + 1] = g[End(s, i) + 1]
    BY <2>2, <2>3
  <2> QED BY <2>4, Zenon DEF FromHere
<1> QED BY <1>1, <1>2

(* The places and tokens that Spans defines for a text.                    *)
From(s) == CHOOSE f : f = [i \in 1 .. Len(s) + 1 |-> FromHere(s, f, i)]

(* They are defined.                                                       *)
LEMMA FromDefined ==
    ASSUME NEW s, Len(s) \in Nat
    PROVE  \A i \in 1 .. Len(s) + 1 : From(s)[i] = FromHere(s, From(s), i)
<1> DEFINE D == 1 .. Len(s) + 1
           Solves(f, n) == \A i \in D : Len(s) + 1 - n <= i => f[i] = FromHere(s, f, i)
           P == {n \in Nat : \E f : f = [i \in D |-> f[i]] /\ Solves(f, n)}
<1>1. 0 \in P
  <2> DEFINE f == [i \in D |-> << >>]
  <2>1. f = [i \in D |-> f[i]]
    BY Zenon
  <2>2. ASSUME NEW i \in D, Len(s) + 1 - 0 <= i PROVE f[i] = FromHere(s, f, i)
    <3>1. i > Len(s) /\ f[i] = << >>
      BY <2>2
    <3> HIDE DEF f
    <3> QED BY <3>1, Zenon DEF FromHere
  <2> HIDE DEF f
  <2>3. \E g : g = [i \in D |-> g[i]] /\ Solves(g, 0)
    BY <2>1, <2>2
  <2> QED BY <2>3
<1>2. ASSUME NEW n \in Nat, n \in P PROVE n + 1 \in P
  <2>1. PICK f : f = [i \in D |-> f[i]] /\ Solves(f, n)
    BY <1>2
  <2> DEFINE j == Len(s) + 1 - (n + 1)
             g == [i \in D |-> IF i = j THEN FromHere(s, f, j) ELSE f[i]]
  <2>2. g = [i \in D |-> g[i]]
    BY Zenon
  <2>3. \A i \in D : i # j => g[i] = f[i]
    OBVIOUS
  <2>4. j \in D => g[j] = FromHere(s, f, j)
    OBVIOUS
  <2> HIDE DEF g
  <2>5. ASSUME NEW i \in D, j <= i PROVE g[i] = FromHere(s, g, i)
    <3>1. \A k \in i + 1 .. Len(s) + 1 : k \in D /\ k # j
      BY <2>5
    <3>2. \A k \in i + 1 .. Len(s) + 1 : f[k] = g[k]
      BY <2>3, <3>1
    <3>3. FromHere(s, f, i) = FromHere(s, g, i)
      BY <3>2, FromLater
    <3>4. CASE i = j
      BY <2>4, <3>3, <3>4
    <3>5. CASE i # j
      <4>1. Len(s) + 1 - n <= i
        BY <2>5, <3>5
      <4>2. f[i] = FromHere(s, f, i)
        BY <2>1, <4>1
      <4> QED BY <2>3, <3>3, <3>5, <4>2
    <3> QED BY <3>4, <3>5
  <2>6. Solves(g, n + 1)
    BY <2>5
  <2> QED BY <2>2, <2>6
<1> HIDE DEF P
<1>3. Len(s) \in P
  BY <1>1, <1>2, NatSetInduction
<1>4. PICK f : f = [i \in D |-> f[i]] /\ Solves(f, Len(s))
  BY <1>3 DEF P
<1>5. \A i \in D : f[i] = FromHere(s, f, i)
  BY <1>4
<1>6. f = [i \in D |-> FromHere(s, f, i)]
  BY <1>4, <1>5
<1>7. \E h : h = [i \in 1 .. Len(s) + 1 |-> FromHere(s, h, i)]
  BY <1>6
<1>8. From(s) = [i \in 1 .. Len(s) + 1 |-> FromHere(s, From(s), i)]
  BY <1>7, Zenon DEF From
<1> QED BY <1>8, Zenon

(* All tokens are those from the first place on.                           *)
LEMMA SpansAre ==
    ASSUME NEW s
    PROVE  Spans(s) = From(s)[1]
BY Zenon DEF Spans, From, FromHere

(* They are a sequence, and no more of them than characters.               *)
LEMMA FromIsSequence ==
    ASSUME NEW s, Len(s) \in Nat, NEW i \in 1 .. Len(s) + 1
    PROVE  IsSequence(From(s)[i]) /\ Len(From(s)[i]) <= Len(s) + 1 - i
<1> DEFINE F == From(s)
           D == 1 .. Len(s) + 1
           Good(j) == IsSequence(F[j]) /\ Len(F[j]) <= Len(s) + 1 - j
           P == {n \in Nat : \A j \in D : Len(s) + 1 - n <= j => Good(j)}
<1>1. \A j \in D : F[j] = FromHere(s, F, j)
  BY FromDefined
<1> HIDE DEF F
<1>2. ASSUME NEW j \in D, \A k \in j + 1 .. Len(s) + 1 : Good(k) PROVE Good(j)
  <2>1. CASE j > Len(s)
    <3>1. F[j] = << >>
      BY <1>1, <2>1, Zenon DEF FromHere
    <3> QED BY <2>1, <3>1, EmptyIsSequence
  <2>2. CASE j <= Len(s) /\ Blank(s, j)
    <3>1. F[j] = F[j + 1]
      <4>1. ~ j > Len(s)
        BY <2>2
      <4> QED BY <1>1, <2>2, <4>1, Zenon DEF FromHere
    <3>2. Good(j + 1)
      BY <1>2, <2>2
    <3>3. Len(F[j + 1]) \in Nat
      BY <3>2, SequenceFacts
    <3> QED BY <3>1, <3>2, <3>3
  <2>3. CASE j <= Len(s) /\ ~ Blank(s, j)
    <3> DEFINE e == End(s, j)
               a == <<<<j, e>>>>
               b == F[e + 1]
    <3>1. F[j] = a \o b
      <4>1. ~ j > Len(s)
        BY <2>3
      <4> QED BY <1>1, <2>3, <4>1, Zenon DEF FromHere
    <3>2. e \in j .. Len(s)
      BY <2>3, EndInText
    <3> HIDE DEF e
    <3>3. Good(e + 1)
      BY <1>2, <3>2
    <3>4. IsSequence(a) /\ Len(a) = 1
      BY TupleFacts
    <3>5. IsSequence(b) /\ Len(b) <= Len(s) - e
      BY <3>2, <3>3
    <3>6. Len(b) \in Nat
      BY <3>5, SequenceFacts
    <3> HIDE DEF a, b
    <3>7. IsSequence(a \o b) /\ Len(a \o b) = Len(a) + Len(b)
      BY <3>4, <3>5, ConcatFacts
    <3> QED BY <3>1, <3>2, <3>4, <3>5, <3>6, <3>7
  <2> QED BY <2>1, <2>2, <2>3
<1> HIDE DEF Good
<1>3. 0 \in P
  <2>1. ASSUME NEW j \in D, Len(s) + 1 - 0 <= j PROVE Good(j)
    <3>1. \A k \in j + 1 .. Len(s) + 1 : Good(k)
      BY <2>1
    <3> QED BY <1>2, <3>1
  <2> QED BY <2>1
<1>4. ASSUME NEW n \in Nat, n \in P PROVE n + 1 \in P
  <2>1. ASSUME NEW j \in D, Len(s) + 1 - (n + 1) <= j PROVE Good(j)
    <3>1. \A k \in j + 1 .. Len(s) + 1 : Good(k)
      BY <1>4, <2>1
    <3> QED BY <1>2, <3>1
  <2> QED BY <2>1
<1> HIDE DEF P
<1>5. Len(s) \in P
  BY <1>3, <1>4, NatSetInduction
<1>6. Good(i)
  BY <1>5 DEF P
<1> QED BY <1>6 DEF Good, F

(* The first k of all tokens are those in front of i.                      *)
Rest(s, k, i) ==
    /\ Len(Spans(s)) = k + Len(From(s)[i])
    /\ \A n \in 1 .. Len(From(s)[i]) : Spans(s)[k + n] = From(s)[i][n]

(* None is in front of the first place, and none behind the last.          *)
LEMMA RestEnds ==
    ASSUME NEW s, Len(s) \in Nat
    PROVE  /\ Rest(s, 0, 1) /\ Len(Spans(s)) \in 0 .. Len(s)
           /\ \A k \in Nat : Rest(s, k, Len(s) + 1) => Len(Spans(s)) = k
<1> DEFINE F == From(s)
<1>1. IsSequence(F[1]) /\ Len(F[1]) <= Len(s) + 1 - 1
  <2> DEFINE i == 1
  <2>1. i \in 1 .. Len(s) + 1
    OBVIOUS
  <2> HIDE DEF i
  <2>2. IsSequence(F[i]) /\ Len(F[i]) <= Len(s) + 1 - i
    BY <2>1, FromIsSequence
  <2> QED BY <2>2 DEF i
<1>2. Len(F[Len(s) + 1]) = 0
  <2> DEFINE e == Len(s) + 1
  <2>1. e \in 1 .. Len(s) + 1 /\ e > Len(s)
    OBVIOUS
  <2> HIDE DEF e
  <2>2. F[e] = << >>
    BY <2>1, FromDefined, Zenon DEF FromHere
  <2> QED BY <2>2, EmptyIsSequence DEF e
<1>3. Len(F[1]) \in Nat
  BY <1>1, SequenceFacts
<1>4. Spans(s) = F[1]
  BY SpansAre
<1> HIDE DEF F
<1>5. Rest(s, 0, 1)
  BY <1>3, <1>4 DEF Rest, F
<1>6. \A k \in Nat : Rest(s, k, Len(s) + 1) => Len(Spans(s)) = k
  BY <1>2 DEF Rest, F
<1> QED BY <1>1, <1>3, <1>4, <1>5, <1>6

(* A blank is in front of no token.                                        *)
LEMMA RestBlank ==
    ASSUME NEW s, Len(s) \in Nat, NEW i \in 1 .. Len(s), Blank(s, i), NEW k, Rest(s, k, i)
    PROVE  Rest(s, k, i + 1)
<1>1. i \in 1 .. Len(s) + 1 /\ ~ i > Len(s)
  OBVIOUS
<1>2. From(s)[i] = From(s)[i + 1]
  BY <1>1, FromDefined, Zenon DEF FromHere
<1> QED BY <1>2, Zenon DEF Rest

(* What is no blank begins the next token.                                 *)
LEMMA RestToken ==
    ASSUME NEW s, Len(s) \in Nat, NEW i \in 1 .. Len(s), ~ Blank(s, i),
           NEW k \in Nat, Rest(s, k, i)
    PROVE  /\ k + 1 <= Len(Spans(s)) /\ Spans(s)[k + 1] = <<i, End(s, i)>>
           /\ Rest(s, k + 1, End(s, i) + 1)
<1> DEFINE F == From(s)
           e == End(s, i)
           a == <<<<i, e>>>>
           b == F[e + 1]
<1>1. i \in 1 .. Len(s) + 1 /\ ~ i > Len(s)
  OBVIOUS
<1>2. F[i] = a \o b
  BY <1>1, FromDefined, Zenon DEF FromHere
<1>3. e \in i .. Len(s)
  BY EndInText
<1> HIDE DEF e
<1>4. IsSequence(b)
  <2> DEFINE n == e + 1
  <2>1. n \in 1 .. Len(s) + 1
    BY <1>3
  <2> HIDE DEF n
  <2>2. IsSequence(F[n])
    BY <2>1, FromIsSequence
  <2> QED BY <2>2 DEF n
<1>5. IsSequence(a) /\ Len(a) = 1 /\ a[1] = <<i, e>>
  BY TupleFacts
<1>6. Len(b) \in Nat
  BY <1>4, SequenceFacts
<1> HIDE DEF a, b, F
<1>7. /\ Len(a \o b) = Len(a) + Len(b)
      /\ \A m \in 1 .. Len(a) : (a \o b)[m] = a[m]
      /\ \A m \in 1 .. Len(b) : (a \o b)[Len(a) + m] = b[m]
  <2>1. IsSequence(a) /\ IsSequence(b)
    BY <1>4, <1>5
  <2>2. /\ IsSequence(a \o b) /\ Len(a \o b) = Len(a) + Len(b)
        /\ \A m \in 1 .. Len(a) : (a \o b)[m] = a[m]
        /\ \A m \in 1 .. Len(b) : (a \o b)[Len(a) + m] = b[m]
        /\ \A p \in 1 .. Len(a \o b) :
               p \in 1 .. Len(a) \/ \E m \in 1 .. Len(b) : p = Len(a) + m
    BY ONLY <2>1, ConcatFacts
  <2> QED BY <2>2
<1>8. /\ Len(F[i]) = 1 + Len(b) /\ F[i][1] = <<i, e>>
      /\ \A m \in 1 .. Len(b) : F[i][1 + m] = b[m]
  BY <1>2, <1>5, <1>7
<1>9. /\ Len(Spans(s)) = k + Len(F[i])
      /\ \A n \in 1 .. Len(F[i]) : Spans(s)[k + n] = F[i][n]
  BY DEF Rest, F
<1>10. k + 1 <= Len(Spans(s)) /\ Spans(s)[k + 1] = <<i, e>>
  BY <1>6, <1>8, <1>9
<1>11. Len(Spans(s)) = k + 1 + Len(b)
  BY <1>6, <1>8, <1>9
<1>12. ASSUME NEW n \in 1 .. Len(b) PROVE Spans(s)[k + 1 + n] = b[n]
  <2>1. 1 + n \in 1 .. Len(F[i]) /\ k + (1 + n) = k + 1 + n
    BY <1>6, <1>8
  <2> QED BY <1>8, <1>9, <2>1
<1>13. Rest(s, k + 1, e + 1)
  BY <1>11, <1>12 DEF Rest, b, F
<1> QED BY <1>10, <1>13 DEF e

-----------------------------------------------------------------------------
(* Characters.                                                             *)

(* The character at p is in a comment that goes on.                        *)
Open(s, p) == \E j \in 1 .. p : s[j] = "#" /\ \A k \in j .. p : s[k] \notin {"nl", "cr"}

(* What one more character changes.                                        *)
LEMMA OpenNext ==
    ASSUME NEW s, NEW p \in Nat
    PROVE  /\ Open(s, p + 1) <=>
                  s[p + 1] \notin {"nl", "cr"} /\ (s[p + 1] = "#" \/ Open(s, p))
           /\ ~ Open(s, 0)
           /\ Blank(s, p + 1) <=> s[p + 1] \in Space \/ Open(s, p + 1)
<1> DEFINE A(j, q) == s[j] = "#" /\ \A k \in j .. q : s[k] \notin {"nl", "cr"}
<1>1. ASSUME Open(s, p + 1)
      PROVE  s[p + 1] \notin {"nl", "cr"} /\ (s[p + 1] = "#" \/ Open(s, p))
  <2>1. PICK j \in 1 .. p + 1 : A(j, p + 1)
    BY <1>1 DEF Open
  <2>2. p + 1 \in j .. p + 1
    OBVIOUS
  <2>3. s[p + 1] \notin {"nl", "cr"}
    BY <2>1, <2>2
  <2>4. CASE j = p + 1
    BY <2>1, <2>3, <2>4
  <2>5. CASE j # p + 1
    <3>1. j \in 1 .. p /\ \A k \in j .. p : k \in j .. p + 1
      BY <2>5
    <3>2. A(j, p)
      BY <2>1, <3>1
    <3> QED BY <2>3, <3>1, <3>2 DEF Open
  <2> QED BY <2>4, <2>5
<1>2. ASSUME s[p + 1] \notin {"nl", "cr"}, s[p + 1] = "#" PROVE Open(s, p + 1)
  <2>1. A(p + 1, p + 1) /\ p + 1 \in 1 .. p + 1
    BY <1>2
  <2> QED BY <2>1 DEF Open
<1>3. ASSUME s[p + 1] \notin {"nl", "cr"}, Open(s, p) PROVE Open(s, p + 1)
  <2>1. PICK j \in 1 .. p : A(j, p)
    BY <1>3 DEF Open
  <2>2. \A k \in j .. p + 1 : k \in j .. p \/ k = p + 1
    OBVIOUS
  <2>3. A(j, p + 1) /\ j \in 1 .. p + 1
    BY <1>3, <2>1, <2>2
  <2> QED BY <2>3 DEF Open
<1>4. ~ Open(s, 0)
  BY DEF Open
<1>5. Blank(s, p + 1) <=> s[p + 1] \in Space \/ Open(s, p + 1)
  BY Zenon DEF Blank, Open
<1> QED BY <1>1, <1>2, <1>3, <1>4, <1>5

(* A character that is none of the end or the name of a token.             *)
Plain(c) == c \notin {"nul", "ff"} \cup TokenNames

(* As a token it is of the same kind, and does not end the file.           *)
LEMMA TokenOfPlain ==
    ASSUME NEW c, Plain(c)
    PROVE  /\ TokenOf(c) # "eof"
           /\ TokenOf(c) \in Space <=> c \in Space
           /\ TokenOf(c) \in Letters <=> c \in Letters
           /\ TokenOf(c) \in Digits <=> c \in Digits
           /\ TokenOf(c) \in WordChars <=> c \in WordChars
           /\ TokenOf(c) \in NumberChars <=> c \in NumberChars
           /\ TokenOf(c) = "#" <=> c = "#"
           /\ TokenOf(c) \in {"nl", "cr"} <=> c \in {"nl", "cr"}
           /\ c \in Space \cup WordChars \cup NumberChars \cup {"#"} => TokenOf(c) = c
<1> DEFINE D == DOMAIN NegativeTokens
<1>1. D = {"ff", "fe", "fd", "fc", "fb", "ce", "cd"}
  BY DEF NegativeTokens
<1>2. /\ TokenNames = {"eof", "return", "var", "def", "struct", "identifier", "number"}
      /\ \A d \in D : NegativeTokens[d] \in TokenNames
      /\ \A d \in D : d # "ff" => NegativeTokens[d] # "eof"
  BY <1>1 DEF NegativeTokens, TokenNames
<1>3. /\ \A d \in D \cup TokenNames : d \notin Letters \cup Digits
      /\ \A d \in D \cup TokenNames : d \notin Space \cup {"_", ".", "#"}
  <2>1. \A d \in D \cup TokenNames : d \notin Letters \cup Digits
    BY CharactersAreDistinct
  <2>2. \A d \in D \cup TokenNames : d \notin Space \cup {"_", ".", "#"}
    BY <1>1, <1>2 DEF Space
  <2> QED BY <2>1, <2>2
<1>4. CASE c \in D
  <2>1. TokenOf(c) = NegativeTokens[c]
    BY <1>4 DEF TokenOf
  <2>2. c # "ff"
    BY DEF Plain
  <2>3. TokenOf(c) \in TokenNames /\ TokenOf(c) # "eof"
    BY <1>2, <1>4, <2>1, <2>2
  <2> QED BY <1>3, <1>4, <2>3 DEF WordChars, NumberChars, Space
<1>5. CASE c \notin D
  <2>1. TokenOf(c) = c
    BY <1>5 DEF TokenOf
  <2>2. c # "eof"
    BY <1>2 DEF Plain
  <2> QED BY <2>1, <2>2
<1> QED BY <1>4, <1>5

(* The characters tokens are made of.                                      *)
LEMMA TokenCharacters ==
    /\ "eof" \notin Space \cup Letters \cup Digits \cup WordChars \cup NumberChars \cup {"#"}
    /\ \A c \in WordChars \cup NumberChars : c \notin {"nl", "cr", "#"}
    /\ \A c \in Letters \cup Digits : c \notin Space
    /\ \A c \in Letters : c \notin Digits
<1>1. "eof" \in TokenNames
  BY DEF TokenNames, NegativeTokens
<1> QED BY <1>1, CharactersAreDistinct DEF Space, WordChars, NumberChars

(* A word is a keyword, an identifier or a number, and never the end.      *)
LEMMA KeywordIsNoEnd ==
    ASSUME NEW word
    PROVE  KeywordOr("identifier", word) # "eof"
<1>1. CASE \E k \in DOMAIN Keywords : Keywords[k] = word
  <2>1. KeywordOr("identifier", word) \in DOMAIN Keywords
    BY <1>1, Zenon DEF KeywordOr
  <2>2. DOMAIN Keywords = {"return", "def", "var", "struct"}
    BY DEF Keywords
  <2> QED BY <2>1, <2>2
<1>2. CASE ~ \E k \in DOMAIN Keywords : Keywords[k] = word
  <2>1. KeywordOr("identifier", word) = "identifier"
    BY <1>2, Zenon DEF KeywordOr
  <2> QED BY <2>1
<1> QED BY <1>1, <1>2

-----------------------------------------------------------------------------
(* The buffer.                                                             *)

(* s is what the lexer gets to see of the text.                            *)
SeesText(s) ==
    /\ IsSequence(text) /\ IsSequence(s) /\ Len(s) <= Len(text)
    /\ \A n \in 1 .. Len(s) : s[n] = text[n] /\ Plain(s[n])
    /\ Len(s) < Len(text) => text[Len(s) + 1] \in {"nul", "ff"}

(* Visible is that.                                                        *)
LEMMA VisibleIsSeen ==
    ASSUME text \in Texts
    PROVE  SeesText(Visible)
<1> DEFINE S == {n \in DOMAIN text : text[n] \in {"nul", "ff"}}
<1>1. IsSequence(text) /\ \A n \in 1 .. Len(text) : text[n] \notin TokenNames
  <2>1. text \in Seq(ToSet(text)) /\ ToSet(text) \cap TokenNames = {}
    BY TextsAreOfCharacters
  <2>2. IsSequence(text)
    BY <2>1, SeqIsSequence
  <2>3. \A n \in 1 .. Len(text) : text[n] \in ToSet(text)
    BY <2>2, SequenceFacts
  <2> QED BY <2>1, <2>2, <2>3
<1>2. Len(text) \in Nat /\ DOMAIN text = 1 .. Len(text)
  BY <1>1, SequenceFacts
<1>3. CASE S = {}
  <2>1. Visible = text
    BY <1>3, Zenon DEF Visible
  <2>2. \A n \in 1 .. Len(text) : Plain(text[n])
    BY <1>1, <1>2, <1>3 DEF Plain
  <2> QED BY <1>1, <1>2, <2>1, <2>2 DEF SeesText
<1>4. CASE S # {}
  <2> DEFINE m == Min(S)
  <2>1. m \in S /\ \A n \in S : m <= n
    <3>1. S \subseteq Nat
      BY <1>2
    <3> HIDE DEF S
    <3> QED BY <1>4, <3>1, MinOfNaturals
  <2>2. Visible = SubSeq(text, 1, m - 1)
    BY <1>4, Zenon DEF Visible
  <2> HIDE DEF m
  <2>3. m \in 1 .. Len(text) /\ text[m] \in {"nul", "ff"}
    BY <1>2, <2>1
  <2>4. ASSUME NEW n \in 1 .. m - 1 PROVE Plain(text[n])
    <3>1. n \in 1 .. Len(text) /\ n \notin S
      BY <2>1, <2>3
    <3> QED BY <1>1, <1>2, <3>1 DEF Plain
  <2>5. /\ IsSequence(Visible) /\ Len(Visible) = m - 1
        /\ \A i \in 1 .. m - 1 : Visible[i] = text[i]
    <3> DEFINE a == 1
               b == m - 1
    <3>1. /\ a \in 1 .. Len(text) + 1 /\ b \in a - 1 .. Len(text)
          /\ b - a + 1 = m - 1 /\ \A i \in 1 .. m - 1 : a + i - 1 = i
      BY <1>2, <2>3
    <3> HIDE DEF a, b
    <3>2. /\ IsSequence(SubSeq(text, a, b)) /\ Len(SubSeq(text, a, b)) = b - a + 1
          /\ \A i \in 1 .. b - a + 1 : SubSeq(text, a, b)[i] = text[a + i - 1]
      BY ONLY <1>1, <3>1, SubSeqFacts
    <3>3. Visible = SubSeq(text, a, b)
      BY <2>2 DEF a, b
    <3> QED BY <3>1, <3>2, <3>3
  <2> QED BY <1>1, <1>2, <2>3, <2>4, <2>5 DEF SeesText
<1> QED BY <1>3, <1>4

(* A line has the next characters up to a NUL, and is empty only if there  *)
(* is none.                                                                *)
LEMMA LineIs ==
    ASSUME IsSequence(text), current \in 1 .. Len(text) + 1
    PROVE  /\ IsSequence(ReadNextLine) /\ current + Len(ReadNextLine) <= Len(text) + 1
           /\ \A n \in 1 .. Len(ReadNextLine) :
                  /\ ReadNextLine[n] = text[current - 1 + n]
                  /\ ReadNextLine[n] # "nul"
           /\ Len(ReadNextLine) = 0 =>
                  current = Len(text) + 1 \/ text[current] = "nul"
<1> DEFINE S == {n \in current .. Len(text) : text[n] \in {"nl", "nul"}}
           L == ReadNextLine
<1>1. Len(text) \in Nat
  BY SequenceFacts
<1>2. ASSUME NEW e \in current - 1 .. Len(text), L = SubSeq(text, current, e)
      PROVE  /\ IsSequence(L) /\ Len(L) = e - current + 1
             /\ \A n \in 1 .. Len(L) : L[n] = text[current - 1 + n]
  <2>1. PICK c : c = current
    OBVIOUS
  <2>2. c \in 1 .. Len(text) + 1 /\ e \in c - 1 .. Len(text)
    BY <2>1
  <2>3. /\ IsSequence(SubSeq(text, c, e)) /\ Len(SubSeq(text, c, e)) = e - c + 1
        /\ \A i \in 1 .. e - c + 1 : SubSeq(text, c, e)[i] = text[c + i - 1]
    BY ONLY IsSequence(text), <2>2, SubSeqFacts
  <2>4. \A i \in 1 .. e - c + 1 : c + i - 1 = c - 1 + i
    BY <2>2
  <2> HIDE DEF L
  <2> QED BY <1>2, <2>1, <2>3, <2>4
<1>3. CASE S = {}
  <2>1. L = SubSeq(text, current, Len(text))
    BY <1>3, Zenon DEF ReadNextLine
  <2> HIDE DEF L
  <2>2. /\ IsSequence(L) /\ Len(L) = Len(text) - current + 1
        /\ \A n \in 1 .. Len(L) : L[n] = text[current - 1 + n]
    BY <1>1, <1>2, <2>1
  <2>3. \A n \in 1 .. Len(L) : text[current - 1 + n] # "nul"
    <3>1. \A n \in 1 .. Len(L) : current - 1 + n \in current .. Len(text)
      BY <1>1, <2>2
    <3> QED BY <1>3, <3>1
  <2>4. current + Len(L) <= Len(text) + 1 /\ (Len(L) = 0 => current = Len(text) + 1)
    BY <1>1, <2>2
  <2>5. \A n \in 1 .. Len(L) : L[n] = text[current - 1 + n] /\ L[n] # "nul"
    BY <2>2, <2>3
  <2> QED BY <2>2, <2>4, <2>5 DEF L
<1>4. CASE S # {}
  <2> DEFINE m == Min(S)
  <2>1. m \in S /\ \A n \in S : m <= n
    <3>1. S \subseteq Nat
      BY <1>1
    <3> HIDE DEF S
    <3> QED BY <1>4, <3>1, MinOfNaturals
  <2>2. /\ text[m] = "nul" => L = SubSeq(text, current, m - 1)
        /\ text[m] # "nul" => L = SubSeq(text, current, m)
    BY <1>4, Zenon DEF ReadNextLine
  <2> HIDE DEF m, L
  <2>3. m \in current .. Len(text) /\ text[m] \in {"nl", "nul"}
    BY <2>1
  <2>4. \A n \in current .. m - 1 : text[n] # "nul"
    BY <1>1, <2>1, <2>3
  <2>5. CASE text[m] = "nul"
    <3>1. m - 1 \in current - 1 .. Len(text)
      BY <1>1, <2>3
    <3>2. /\ IsSequence(L) /\ Len(L) = m - 1 - current + 1
          /\ \A n \in 1 .. Len(L) : L[n] = text[current - 1 + n]
      BY <1>2, <2>2, <2>5, <3>1
    <3>3. \A n \in 1 .. Len(L) : current - 1 + n \in current .. m - 1
      BY <1>1, <2>3, <3>2
    <3>4. Len(L) = 0 => current = m
      BY <1>1, <2>3, <3>2
    <3> QED BY <1>1, <2>3, <2>4, <2>5, <3>2, <3>3, <3>4 DEF L
  <2>6. CASE text[m] # "nul"
    <3>1. m \in current - 1 .. Len(text)
      BY <1>1, <2>3
    <3>2. /\ IsSequence(L) /\ Len(L) = m - current + 1
          /\ \A n \in 1 .. Len(L) : L[n] = text[current - 1 + n]
      BY <1>2, <2>2, <2>6, <3>1
    <3>3. \A n \in 1 .. Len(L) :
              current - 1 + n \in current .. m - 1 \/ current - 1 + n = m
      BY <1>1, <2>3, <3>2
    <3>4. Len(L) # 0
      BY <1>1, <2>3, <3>2
    <3> QED BY <1>1, <2>3, <2>4, <2>6, <3>2, <3>3, <3>4 DEF L
  <2> QED BY <2>5, <2>6
<1> QED BY <1>3, <1>4

(* A newline stands in front of the text.                                  *)
Char(q) == IF q = 0 THEN "nl" ELSE text[q]

(* The characters behind the q-th are those of the buffer, which goes on   *)
(* to the end of a line.                                                   *)
Buffered(q) ==
    /\ q \in -1 .. Len(text) /\ IsSequence(curLineBuffer)
    /\ current = q + 1 + Len(curLineBuffer) /\ current \in 1 .. Len(text) + 1
    /\ \A n \in 1 .. Len(curLineBuffer) :
           curLineBuffer[n] = Char(q + n) /\ curLineBuffer[n] # "nul"
    /\ Len(curLineBuffer) = 0 => q = Len(text) \/ (q >= 0 /\ text[q + 1] = "nul")

(* What reading one more does.                                             *)
LEMMA AdvanceBuffer ==
    ASSUME IsSequence(text), NEW q, Buffered(q), Advance
    PROVE  /\ text' = text
           /\ curLineBuffer = << >> =>
                  /\ q = Len(text) \/ (q >= 0 /\ text[q + 1] = "nul")
                  /\ lastChar' = "eof"
                  /\ UNCHANGED <<current, curLineBuffer, curLineNum, curCol>>
           /\ curLineBuffer # << >> =>
                  /\ Buffered(q + 1)' /\ Char(q + 1) # "nul"
                  /\ lastChar' = TokenOf(Char(q + 1))
                  /\ curLineNum' = curLineNum + (IF Char(q + 1) = "nl" THEN 1 ELSE 0)
                  /\ curCol' = IF Char(q + 1) = "nl" THEN 0 ELSE curCol + 1
<1>1. Len(text) \in Nat /\ Len(curLineBuffer) \in Nat
  BY SequenceFacts DEF Buffered
<1>2. text' = text
  BY DEF Advance
<1>3. CASE curLineBuffer = << >>
  <2>1. Len(curLineBuffer) = 0
    BY <1>3, EmptyIsSequence
  <2>2. lastChar' = "eof" /\ UNCHANGED <<current, curLineBuffer, curLineNum, curCol>>
    BY <1>3 DEF Advance
  <2> QED BY <1>2, <1>3, <2>1, <2>2 DEF Buffered
<1>4. CASE curLineBuffer # << >>
  <2> DEFINE B == curLineBuffer
             C == curLineBuffer'
             L == IF Len(B) = 1 THEN ReadNextLine ELSE << >>
             T == Tail(B)
  <2>1. /\ lastChar' = TokenOf(Head(B)) /\ C = T \o L /\ current' = current + Len(L)
        /\ curLineNum' = curLineNum + (IF Head(B) = "nl" THEN 1 ELSE 0)
        /\ curCol' = IF Head(B) = "nl" THEN 0 ELSE curCol + 1
    BY <1>4, Zenon DEF Advance, NextColumn
  <2>2. IsSequence(B) /\ Len(B) # 0
    BY <1>4, SequenceFacts DEF Buffered
  <2>3. Head(B) = B[1] /\ B[1] = Char(q + 1) /\ B[1] # "nul"
    <3>1. 1 \in 1 .. Len(B)
      BY <1>1, <2>2
    <3>2. B[1] = Char(q + 1) /\ B[1] # "nul"
      BY <3>1 DEF Buffered
    <3>3. Head(B) = B[1]
      BY DEF Head
    <3> QED BY <3>2, <3>3
  <2>4. /\ IsSequence(T) /\ Len(T) = Len(B) - 1
        /\ \A i \in 1 .. Len(B) - 1 : T[i] = B[i + 1]
    BY <1>4, <2>2, TailFacts
  <2>5. /\ IsSequence(L) /\ current + Len(L) <= Len(text) + 1 /\ Len(L) \in Nat
        /\ Len(B) # 1 => Len(L) = 0
        /\ \A n \in 1 .. Len(L) : L[n] = text[current - 1 + n] /\ L[n] # "nul"
        /\ Len(B) = 1 /\ Len(L) = 0 => current = Len(text) + 1 \/ text[current] = "nul"
    <3>1. CASE Len(B) = 1
      <4>1. L = ReadNextLine
        BY <3>1
      <4> HIDE DEF L
      <4>2. current \in 1 .. Len(text) + 1
        BY DEF Buffered
      <4>3. IsSequence(L) => Len(L) \in Nat
        BY SequenceFacts
      <4> QED BY <3>1, <4>1, <4>2, <4>3, LineIs
    <3>2. CASE Len(B) # 1
      <4>1. L = << >>
        BY <3>2
      <4> HIDE DEF L
      <4>2. IsSequence(L) /\ Len(L) = 0
        BY <4>1, EmptyIsSequence
      <4> QED BY <1>1, <3>2, <4>2 DEF Buffered
    <3> QED BY <3>1, <3>2
  <2> HIDE DEF L, T, C
  <2>6. /\ IsSequence(C) /\ Len(C) = Len(T) + Len(L)
        /\ \A m \in 1 .. Len(T) : C[m] = T[m]
        /\ \A m \in 1 .. Len(L) : C[Len(T) + m] = L[m]
    <3>1. IsSequence(T) /\ IsSequence(L)
      BY <2>4, <2>5
    <3>2. /\ IsSequence(T \o L) /\ Len(T \o L) = Len(T) + Len(L)
          /\ \A m \in 1 .. Len(T) : (T \o L)[m] = T[m]
          /\ \A m \in 1 .. Len(L) : (T \o L)[Len(T) + m] = L[m]
          /\ \A p \in 1 .. Len(T \o L) :
                 p \in 1 .. Len(T) \/ \E m \in 1 .. Len(L) : p = Len(T) + m
      BY ONLY <3>1, ConcatFacts
    <3> QED BY <2>1, <3>2
  <2>7. /\ q \in -1 .. Len(text) /\ current = q + 1 + Len(B)
        /\ \A n \in 1 .. Len(B) : B[n] = Char(q + n) /\ B[n] # "nul"
    BY DEF Buffered
  <2>8. q + 1 \in 0 .. Len(text) /\ current \in 1 .. Len(text) + 1
    BY <1>1, <2>2, <2>7 DEF Buffered
  <2>9. current' = (q + 1) + 1 + Len(C) /\ current' \in 1 .. Len(text) + 1
    BY <1>1, <2>1, <2>4, <2>5, <2>6, <2>7, <2>8
  <2>10. ASSUME NEW n \in 1 .. Len(C) PROVE C[n] = Char(q + 1 + n) /\ C[n] # "nul"
    <3>1. CASE n \in 1 .. Len(T)
      <4>1. n + 1 \in 1 .. Len(B) /\ q + (n + 1) = q + 1 + n /\ n \in 1 .. Len(B) - 1
        BY <1>1, <2>4, <2>7, <3>1
      <4>2. C[n] = B[n + 1]
        BY <2>4, <2>6, <3>1, <4>1
      <4> QED BY <2>7, <4>1, <4>2
    <3>2. CASE n \notin 1 .. Len(T)
      <4>1. PICK m \in 1 .. Len(L) : n = Len(T) + m
        <5>1. n - Len(T) \in 1 .. Len(L) /\ n = Len(T) + (n - Len(T))
          BY <1>1, <2>4, <2>5, <2>6, <3>2
        <5> QED BY <5>1
      <4>2. Len(B) = 1
        BY <2>5
      <4>3. current - 1 + m = q + 1 + n /\ q + 1 + n # 0
        BY <1>1, <2>4, <2>7, <4>1, <4>2
      <4>4. C[n] = text[current - 1 + m] /\ C[n] # "nul"
        BY <2>5, <2>6, <4>1
      <4>5. Char(q + 1 + n) = text[q + 1 + n]
        BY <4>3 DEF Char
      <4> QED BY <4>3, <4>4, <4>5
    <3> QED BY <3>1, <3>2
  <2>11. ASSUME Len(C) = 0
         PROVE  q + 1 = Len(text) \/ (q + 1 >= 0 /\ text[q + 1 + 1] = "nul")
    <3>1. Len(T) = 0 /\ Len(L) = 0
      BY <1>1, <2>2, <2>4, <2>5, <2>6, <2>11
    <3>2. Len(B) = 1
      BY <1>1, <2>4, <3>1
    <3>3. current = q + 1 + 1
      BY <2>7, <3>2
    <3> QED BY <2>5, <2>7, <2>8, <3>1, <3>2, <3>3
  <2>12. Buffered(q + 1)'
    <3>1. \A k : Char(k)' = Char(k)
      BY <1>2 DEF Char
    <3> QED BY <1>2, <2>6, <2>8, <2>9, <2>10, <2>11, <3>1 DEF Buffered, C
  <2> QED BY <1>2, <1>4, <2>1, <2>3, <2>12
<1> QED BY <1>3, <1>4

-----------------------------------------------------------------------------
(* Where the lexer is.                                                     *)

(* Nothing is read.                                                        *)
Unread ==
    /\ Buffered(-1) /\ Len(curLineBuffer) = 1 /\ lastChar = " "
    /\ curLineNum = 0 /\ curCol = 0

(* The character read ahead is the q-th of s, and the line and column are  *)
(* its own.                                                                *)
LexAt(s, q) ==
    /\ Buffered(q) /\ lastChar = TokenOf(Char(q))
    /\ curLineNum = 1 + Cardinality(Newlines(s, q))
    /\ curCol = q - LastOf(Newlines(s, q))

(* The end was read ahead.                                                 *)
EndAt ==
    /\ lastChar = "eof"
    /\ current \in 1 .. Len(text) + 1 /\ Len(curLineBuffer) <= Len(text) + 1
    /\ curLineNum \in 0 .. Len(text) + 1 /\ curCol \in 0 .. Len(text)

Here(s, q) == IF q <= Len(s) THEN LexAt(s, q) ELSE EndAt

(* What the character c read ahead at q says.                              *)
ReadAhead(s, q, c) ==
    /\ c = "eof" <=> q = Len(s) + 1
    /\ q = 0 => c = "nl"
    /\ q \in 1 .. Len(s) => c = TokenOf(s[q]) /\ Plain(s[q])

(* It tells the end from the text.                                         *)
LEMMA AheadIs ==
    ASSUME NEW s, SeesText(s), NEW q \in 0 .. Len(s) + 1, NEW c,
           q <= Len(s) => c = TokenOf(Char(q)), q > Len(s) => c = "eof"
    PROVE  ReadAhead(s, q, c)
<1>1. Len(s) \in Nat
  BY SequenceFacts DEF SeesText
<1>2. CASE q = 0
  <2>1. c = TokenOf("nl")
    BY <1>1, <1>2 DEF Char
  <2>2. TokenOf("nl") = "nl"
    BY DEF TokenOf, NegativeTokens
  <2> QED BY <1>1, <1>2, <2>1, <2>2 DEF ReadAhead
<1>3. CASE q \in 1 .. Len(s)
  <2>1. c = TokenOf(s[q]) /\ Plain(s[q])
    BY <1>1, <1>3 DEF Char, SeesText
  <2>2. TokenOf(s[q]) # "eof"
    BY <2>1, TokenOfPlain
  <2> QED BY <1>1, <1>3, <2>1, <2>2 DEF ReadAhead
<1>4. CASE q = Len(s) + 1
  BY <1>1, <1>4 DEF ReadAhead
<1> QED BY <1>1, <1>2, <1>3, <1>4

(* The first character read is the newline in front of the text.           *)
LEMMA FirstRead ==
    ASSUME NEW s, SeesText(s), Unread, Advance
    PROVE  LexAt(s, 0)'
<1>1. IsSequence(text) /\ Buffered(-1) /\ curLineBuffer # << >>
  <2>1. IsSequence(text)
    BY DEF SeesText
  <2>2. Buffered(-1)
    BY Zenon DEF Unread
  <2>3. Len(curLineBuffer) = 1
    BY Zenon DEF Unread
  <2>4. curLineBuffer # << >>
    BY <2>3, EmptyIsSequence
  <2> QED BY <2>1, <2>2, <2>4
<1> DEFINE q == -1
<1>2. q + 1 = 0 /\ Char(q + 1) = "nl"
  BY DEF Char
<1>3. Buffered(q)
  BY <1>1
<1> HIDE DEF q
<1>4. /\ Buffered(q + 1)' /\ text' = text
      /\ lastChar' = TokenOf(Char(q + 1))
      /\ curLineNum' = curLineNum + (IF Char(q + 1) = "nl" THEN 1 ELSE 0)
      /\ curCol' = IF Char(q + 1) = "nl" THEN 0 ELSE curCol + 1
  BY <1>1, <1>3, AdvanceBuffer
<1>5. Buffered(0)' /\ lastChar' = TokenOf(Char(0)) /\ Char(0)' = Char(0)
  BY <1>2, <1>4 DEF Char
<1>6. curLineNum' = 1 /\ curCol' = 0
  <2>1. curLineNum' = curLineNum + 1 /\ curCol' = 0
    BY <1>2, <1>4, Zenon
  <2>2. curLineNum = 0
    BY Zenon DEF Unread
  <2> QED BY <2>1, <2>2
<1>7. Cardinality(Newlines(s, 0)) = 0 /\ LastOf(Newlines(s, 0)) = 0
  BY NewlinesBounds
<1> QED BY <1>5, <1>6, <1>7 DEF LexAt

(* One character more, or the end.                                         *)
LEMMA ReadsOn ==
    ASSUME NEW s, SeesText(s), NEW q \in 0 .. Len(s), LexAt(s, q), Advance
    PROVE  Here(s, q + 1)' /\ ReadAhead(s, q + 1, lastChar') /\ text' = text
<1>1. IsSequence(text) /\ Buffered(q) /\ Len(s) \in Nat /\ Len(text) \in Nat
  BY SequenceFacts DEF SeesText, LexAt
<1>2. /\ text' = text
      /\ curLineBuffer = << >> =>
             /\ q = Len(text) \/ (q >= 0 /\ text[q + 1] = "nul")
             /\ lastChar' = "eof"
             /\ UNCHANGED <<current, curLineBuffer, curLineNum, curCol>>
      /\ curLineBuffer # << >> =>
             /\ Buffered(q + 1)' /\ Char(q + 1) # "nul"
             /\ lastChar' = TokenOf(Char(q + 1))
             /\ curLineNum' = curLineNum + (IF Char(q + 1) = "nl" THEN 1 ELSE 0)
             /\ curCol' = IF Char(q + 1) = "nl" THEN 0 ELSE curCol + 1
  BY <1>1, AdvanceBuffer
<1> DEFINE n == Cardinality(Newlines(s, q))
           l == LastOf(Newlines(s, q))
<1>3. n \in 0 .. q /\ l \in 0 .. q
  BY NewlinesBounds
<1>4. curLineNum = 1 + n /\ curCol = q - l
  BY DEF LexAt
<1>5. /\ \A k \in 1 .. Len(s) : s[k] = text[k] /\ s[k] \notin {"nul", "ff"}
      /\ Len(s) <= Len(text)
      /\ Len(s) < Len(text) => text[Len(s) + 1] \in {"nul", "ff"}
  BY DEF SeesText, Plain
<1>6. Char(q + 1) = text[q + 1]
  BY DEF Char
<1>7. /\ current \in 1 .. Len(text) + 1 /\ Len(curLineBuffer) \in Nat
      /\ current = q + 1 + Len(curLineBuffer)
  BY SequenceFacts DEF LexAt, Buffered
<1>8. /\ s[q + 1] # "nl" => Newlines(s, q + 1) = Newlines(s, q)
      /\ s[q + 1] = "nl" =>
             /\ Cardinality(Newlines(s, q + 1)) = n + 1
             /\ LastOf(Newlines(s, q + 1)) = q + 1
  BY NewlinesNext
<1> HIDE DEF n, l
<1>9. CASE q + 1 <= Len(s)
  <2>1. q + 1 \in 1 .. Len(s)
    BY <1>9
  <2>2. s[q + 1] = text[q + 1] /\ s[q + 1] # "nul"
    BY <1>5, <2>1
  <2>3. curLineBuffer # << >>
    BY <1>1, <1>2, <1>5, <2>1, <2>2
  <2>4. /\ Buffered(q + 1)' /\ lastChar' = TokenOf(Char(q + 1))
        /\ curLineNum' = curLineNum + (IF s[q + 1] = "nl" THEN 1 ELSE 0)
        /\ curCol' = IF s[q + 1] = "nl" THEN 0 ELSE curCol + 1
    BY <1>2, <1>6, <2>2, <2>3
  <2>5. Char(q + 1)' = Char(q + 1)
    BY <1>2 DEF Char
  <2>6. /\ curLineNum' = 1 + Cardinality(Newlines(s, q + 1))
        /\ curCol' = (q + 1) - LastOf(Newlines(s, q + 1))
    <3>1. CASE s[q + 1] = "nl"
      BY <1>3, <1>4, <1>8, <2>4, <3>1
    <3>2. CASE s[q + 1] # "nl"
      <4>1. Newlines(s, q + 1) = Newlines(s, q)
        BY <1>8, <3>2
      <4>2. Cardinality(Newlines(s, q + 1)) = n /\ LastOf(Newlines(s, q + 1)) = l
        BY <4>1 DEF n, l
      <4> QED BY <1>3, <1>4, <2>4, <3>2, <4>2
    <3> QED BY <3>1, <3>2
  <2>7. LexAt(s, q + 1)'
    BY <2>4, <2>5, <2>6 DEF LexAt
  <2> DEFINE n1 == q + 1
             c == lastChar'
  <2>8. n1 \in 0 .. Len(s) + 1 /\ n1 <= Len(s) /\ ~ n1 > Len(s) /\ c = TokenOf(Char(n1))
    BY <1>1, <1>9, <2>4
  <2> HIDE DEF n1, c
  <2>9. ReadAhead(s, n1, c)
    BY ONLY SeesText(s), <2>8, AheadIs
  <2> QED BY <1>2, <1>9, <2>7, <2>9 DEF Here, n1, c
<1>10. CASE ~ q + 1 <= Len(s)
  <2>1. q = Len(s)
    BY <1>1, <1>10
  <2>2. EndAt'
    <3>1. CASE curLineBuffer = << >>
      <4>1. lastChar' = "eof" /\ UNCHANGED <<current, curLineBuffer, curLineNum, curCol>>
        BY <1>2, <3>1
      <4> QED BY <1>1, <1>2, <1>3, <1>4, <1>5, <1>7, <2>1, <4>1 DEF EndAt
    <3>2. CASE curLineBuffer # << >>
      <4>1. /\ Buffered(q + 1)' /\ Char(q + 1) # "nul"
            /\ lastChar' = TokenOf(Char(q + 1))
            /\ curLineNum' = curLineNum + (IF Char(q + 1) = "nl" THEN 1 ELSE 0)
            /\ curCol' = IF Char(q + 1) = "nl" THEN 0 ELSE curCol + 1
        BY <1>2, <3>2
      <4>2. /\ q + 1 \in -1 .. Len(text)
            /\ current' = q + 1 + 1 + Len(curLineBuffer')
            /\ current' \in 1 .. Len(text) + 1
            /\ Len(curLineBuffer') \in Nat
        BY <1>2, <4>1, SequenceFacts DEF Buffered
      <4>3. text[q + 1] = "ff"
        BY <1>1, <1>5, <1>6, <2>1, <4>1, <4>2
      <4>4. lastChar' = "eof"
        BY <1>6, <4>1, <4>3 DEF TokenOf, NegativeTokens
      <4>5. curLineNum' = curLineNum /\ curCol' = curCol + 1
        BY <1>3, <1>4, <1>6, <4>1, <4>3
      <4> QED BY <1>1, <1>2, <1>3, <1>4, <2>1, <4>2, <4>4, <4>5 DEF EndAt
    <3> QED BY <3>1, <3>2
  <2> DEFINE n1 == q + 1
             c == lastChar'
  <2>3. n1 \in 0 .. Len(s) + 1 /\ ~ n1 <= Len(s) /\ c = "eof"
    BY <1>1, <2>1, <2>2 DEF EndAt
  <2> HIDE DEF n1, c
  <2>4. ReadAhead(s, n1, c)
    BY ONLY SeesText(s), <2>3, AheadIs
  <2> QED BY <1>2, <1>10, <2>2, <2>4 DEF Here, n1, c
<1> QED BY <1>9, <1>10

(* The place is in the text.                                               *)
LEMMA HereInText ==
    ASSUME NEW s, SeesText(s), NEW q \in 0 .. Len(s) + 1, Here(s, q)
    PROVE  /\ current \in 1 .. Len(text) + 1 /\ Len(curLineBuffer) <= Len(text) + 1
           /\ curLineNum \in 0 .. Len(text) + 1 /\ curCol \in 0 .. Len(text)
<1>1. Len(s) \in Nat /\ Len(text) \in Nat /\ Len(s) <= Len(text)
  BY SequenceFacts DEF SeesText
<1>2. CASE q <= Len(s)
  <2>1. LexAt(s, q)
    BY <1>2 DEF Here
  <2>2. Cardinality(Newlines(s, q)) \in 0 .. q /\ LastOf(Newlines(s, q)) \in 0 .. q
    BY NewlinesBounds
  <2>3. curLineNum \in 0 .. Len(text) + 1 /\ curCol \in 0 .. Len(text)
    BY <1>1, <1>2, <2>1, <2>2 DEF LexAt
  <2>4. current \in 1 .. Len(text) + 1 /\ Len(curLineBuffer) \in Nat
        /\ current = q + 1 + Len(curLineBuffer)
    BY <2>1, SequenceFacts DEF LexAt, Buffered
  <2> QED BY <1>1, <2>3, <2>4
<1>3. CASE ~ q <= Len(s)
  BY <1>3 DEF Here, EndAt
<1> QED BY <1>2, <1>3

(* At each place.                                                          *)
LEMMA HereRead ==
    ASSUME NEW s, SeesText(s), NEW q \in 0 .. Len(s) + 1, Here(s, q)
    PROVE  ReadAhead(s, q, lastChar)
<1>1. Len(s) \in Nat
  BY SequenceFacts DEF SeesText
<1>2. q <= Len(s) => lastChar = TokenOf(Char(q))
  BY DEF Here, LexAt
<1>3. q > Len(s) => lastChar = "eof"
  BY <1>1 DEF Here, EndAt
<1> QED BY <1>2, <1>3, AheadIs

-----------------------------------------------------------------------------
(* The tokens returned.                                                    *)

Word(s, span) == SubSeq(s, span[1], span[2])

(* The token r is the one of s that span has.                              *)
GoodToken(s, span, r) ==
    /\ r.tok = TokenAt(s, span) /\ r.tok # "eof"
    /\ r.location = Place(s, span[1])
    /\ Word(s, span)[1] \in Letters => r.id = Word(s, span)
    /\ Word(s, span)[1] \in Digits => r.num = Strtod(Word(s, span))

Given(s) ==
    /\ IsSequence(out) /\ Len(out) <= Len(Spans(s)) + 1
    /\ \A n \in 1 .. Len(out) :
           /\ n > Len(Spans(s)) => out[n].tok = "eof"
           /\ n <= Len(Spans(s)) => GoodToken(s, Spans(s)[n], out[n])

(* A character of a token's text.                                          *)
LEMMA WordIs ==
    ASSUME NEW s, IsSequence(s), NEW i \in 1 .. Len(s), NEW p \in i .. Len(s)
    PROVE  Word(s, <<i, p>>) = SubSeq(s, i, p) /\ SubSeq(s, i, p)[1] = s[i]
<1>1. Len(s) \in Nat
  BY SequenceFacts
<1>2. i \in 1 .. Len(s) + 1 /\ p \in i - 1 .. Len(s) /\ 1 \in 1 .. p - i + 1
  BY <1>1
<1>3. \A k \in 1 .. p - i + 1 : SubSeq(s, i, p)[k] = s[i + k - 1]
  BY ONLY IsSequence(s), <1>2, SubSeqFacts
<1>4. i + 1 - 1 = i
  BY <1>1
<1>5. Word(s, <<i, p>>) = SubSeq(s, i, p)
  BY DEF Word
<1> QED BY <1>2, <1>3, <1>4, <1>5

(* A word.                                                                 *)
LEMMA GoodWord ==
    ASSUME NEW s, IsSequence(s), NEW i \in 1 .. Len(s), NEW p \in i .. Len(s),
           s[i] \in Letters, NEW r,
           r.tok = KeywordOr("identifier", SubSeq(s, i, p)), r.id = SubSeq(s, i, p),
           r.location = Place(s, i)
    PROVE  GoodToken(s, <<i, p>>, r)
<1> DEFINE w == SubSeq(s, i, p)
           span == <<i, p>>
<1>1. Word(s, span) = w /\ w[1] = s[i]
  BY WordIs
<1>2. span[1] = i /\ span[2] = p
  OBVIOUS
<1>3. r.tok = KeywordOr("identifier", w) /\ r.id = w
  OBVIOUS
<1> HIDE DEF w, span
<1>4. TokenAt(s, span) = KeywordOr("identifier", SubSeq(s, i, p))
  BY <1>2, Zenon DEF TokenAt
<1>5. TokenAt(s, span) = KeywordOr("identifier", w)
  BY <1>4 DEF w
<1>6. s[i] \notin Digits
  BY TokenCharacters
<1>7. KeywordOr("identifier", w) # "eof"
  BY KeywordIsNoEnd
<1>8. GoodToken(s, span, r)
  BY <1>1, <1>2, <1>3, <1>5, <1>6, <1>7 DEF GoodToken
<1> QED BY <1>8 DEF span

(* A number.                                                               *)
LEMMA GoodNumber ==
    ASSUME NEW s, IsSequence(s), NEW i \in 1 .. Len(s), NEW p \in i .. Len(s),
           s[i] \in Digits, NEW r,
           r.tok = "number", r.num = Strtod(SubSeq(s, i, p)), r.location = Place(s, i)
    PROVE  GoodToken(s, <<i, p>>, r)
<1> DEFINE w == SubSeq(s, i, p)
           span == <<i, p>>
<1>1. Word(s, span) = w /\ w[1] = s[i]
  BY WordIs
<1>2. span[1] = i /\ span[2] = p
  OBVIOUS
<1>3. r.num = Strtod(w)
  OBVIOUS
<1> HIDE DEF w, span
<1>4. s[i] \notin Letters
  BY TokenCharacters
<1>5. TokenAt(s, span) = "number"
  BY <1>2, <1>4, Zenon DEF TokenAt
<1>6. GoodToken(s, span, r)
  BY <1>1, <1>2, <1>3, <1>4, <1>5 DEF GoodToken
<1> QED BY <1>6 DEF span

(* A character of its own.                                                 *)
LEMMA GoodCharacter ==
    ASSUME NEW s, IsSequence(s), NEW i \in 1 .. Len(s),
           s[i] \notin Letters \cup Digits, Plain(s[i]), NEW r,
           r.tok = TokenOf(s[i]), r.location = Place(s, i)
    PROVE  GoodToken(s, <<i, i>>, r)
<1> DEFINE w == SubSeq(s, i, i)
           span == <<i, i>>
<1>1. Word(s, span) = w /\ w[1] = s[i]
  <2>1. i \in i .. Len(s)
    BY SequenceFacts
  <2> QED BY <2>1, WordIs
<1>2. span[1] = i /\ span[2] = i
  OBVIOUS
<1> HIDE DEF w, span
<1>3. s[i] \notin Letters /\ s[i] \notin Digits
  OBVIOUS
<1>4. TokenAt(s, span) = TokenOf(s[i])
  BY <1>2, <1>3, Zenon DEF TokenAt
<1>5. TokenOf(s[i]) # "eof"
  BY TokenOfPlain
<1>6. GoodToken(s, span, r)
  BY <1>1, <1>2, <1>3, <1>4, <1>5 DEF GoodToken
<1> QED BY <1>6 DEF span

(* The end comes after all tokens.                                         *)
LEMMA NotEnded ==
    ASSUME NEW s, Given(s), Len(out) <= Len(Spans(s))
    PROVE  ~ Ended
<1> SUFFICES ASSUME out # << >>, Last(out).tok = "eof" PROVE FALSE
  BY DEF Ended
<1>1. Len(out) \in 1 .. Len(out)
  BY SequenceFacts DEF Given
<1>2. GoodToken(s, Spans(s)[Len(out)], out[Len(out)])
  BY <1>1 DEF Given
<1>3. Last(out) = out[Len(out)]
  BY DEF Last
<1> QED BY <1>2, <1>3 DEF GoodToken

(* One more token after good ones.                                         *)
LEMMA GivesToken ==
    ASSUME NEW s, IsSequence(s), Given(s), NEW i \in 1 .. Len(s), ~ Blank(s, i),
           Rest(s, Len(out), i), NEW r, GoodToken(s, <<i, End(s, i)>>, r),
           out' = IF Ended THEN out ELSE Append(out, r)
    PROVE  Given(s)' /\ Rest(s, Len(out'), End(s, i) + 1)
<1>1. Len(s) \in Nat /\ Len(out) \in Nat /\ IsSequence(out)
  BY SequenceFacts DEF Given
<1>2. /\ Len(out) + 1 <= Len(Spans(s)) /\ Spans(s)[Len(out) + 1] = <<i, End(s, i)>>
      /\ Rest(s, Len(out) + 1, End(s, i) + 1)
  BY <1>1, RestToken
<1>3. Len(Spans(s)) \in Nat
  BY <1>1, RestEnds
<1>4. ~ Ended
  <2>1. Len(out) <= Len(Spans(s))
    BY <1>1, <1>2, <1>3
  <2> QED BY <2>1, NotEnded
<1>5. out' = Append(out, r)
  BY <1>4
<1> DEFINE o == Append(out, r)
<1>6. /\ IsSequence(o) /\ Len(o) = Len(out) + 1
      /\ \A n \in 1 .. Len(out) : o[n] = out[n]
      /\ o[Len(out) + 1] = r
  BY <1>1, AppendFacts
<1> HIDE DEF o
<1>7. ASSUME NEW n \in 1 .. Len(o)
      PROVE  /\ n > Len(Spans(s)) => o[n].tok = "eof"
             /\ n <= Len(Spans(s)) => GoodToken(s, Spans(s)[n], o[n])
  <2>1. CASE n \in 1 .. Len(out)
    BY <1>6, <2>1 DEF Given
  <2>2. CASE n = Len(out) + 1
    BY <1>1, <1>2, <1>3, <1>6, <2>2
  <2> QED BY <1>1, <1>6, <2>1, <2>2
<1>8. out' = o
  BY <1>5 DEF o
<1>9. Len(o) <= Len(Spans(s)) + 1
  BY <1>1, <1>2, <1>3, <1>6
<1>10. Given(s)'
  BY <1>6, <1>7, <1>8, <1>9 DEF Given
<1> QED BY <1>2, <1>6, <1>8, <1>10

(* The end after the last token.                                           *)
LEMMA GivesEnd ==
    ASSUME NEW s, IsSequence(s), Given(s), Rest(s, Len(out), Len(s) + 1),
           NEW r, r.tok = "eof", out' = IF Ended THEN out ELSE Append(out, r)
    PROVE  Given(s)' /\ Len(out') = Len(Spans(s)) + 1
<1>1. Len(s) \in Nat /\ Len(out) \in Nat /\ IsSequence(out)
  BY SequenceFacts DEF Given
<1>2. Len(out) = Len(Spans(s))
  BY <1>1, RestEnds
<1>3. Len(Spans(s)) \in Nat
  BY <1>1, <1>2
<1>4. ~ Ended
  <2>1. Len(out) <= Len(Spans(s))
    BY <1>1, <1>2, <1>3
  <2> QED BY <2>1, NotEnded
<1>5. out' = Append(out, r)
  BY <1>4
<1> DEFINE o == Append(out, r)
<1>6. /\ IsSequence(o) /\ Len(o) = Len(out) + 1
      /\ \A n \in 1 .. Len(out) : o[n] = out[n]
      /\ o[Len(out) + 1] = r
  BY <1>1, AppendFacts
<1> HIDE DEF o
<1>7. ASSUME NEW n \in 1 .. Len(o)
      PROVE  /\ n > Len(Spans(s)) => o[n].tok = "eof"
             /\ n <= Len(Spans(s)) => GoodToken(s, Spans(s)[n], o[n])
  <2>1. CASE n \in 1 .. Len(out)
    BY <1>6, <2>1 DEF Given
  <2>2. CASE n = Len(out) + 1
    BY <1>1, <1>2, <1>3, <1>6, <2>2
  <2> QED BY <1>1, <1>6, <2>1, <2>2
<1>8. out' = o
  BY <1>5 DEF o
<1>9. Len(o) = Len(Spans(s)) + 1 /\ Len(o) <= Len(Spans(s)) + 1
  BY <1>1, <1>2, <1>3, <1>6
<1>10. Given(s)'
  BY <1>6, <1>7, <1>8, <1>9 DEF Given
<1> QED BY <1>8, <1>9, <1>10

-----------------------------------------------------------------------------
(* The invariant.                                                          *)

(* No comment is open at q, or its line ends there.                        *)
Quiet(s, q) == q \in 1 .. Len(s) => s[q] \in {"nl", "cr"} \/ ~ Open(s, q - 1)

(* str has the characters i .. p of s, which begin a token.                *)
Spelled(s, i, p, str) ==
    /\ i \in 1 .. Len(s) /\ p \in i .. Len(s) /\ str = SubSeq(s, i, p)
    /\ \A k \in i + 1 .. p : s[k] \in More(s, i)
    /\ ~ Blank(s, i) /\ ~ Open(s, p)

Between == in \in {"idle", "skip"}

(* In front of the first character, of the q-th, and at the end.           *)
AtStart == Between /\ Unread /\ Len(out) = 0

Waiting(s, q) ==
    /\ Between /\ q \in 0 .. Len(s) + 1 /\ Here(s, q) /\ Quiet(s, q)
    /\ Rest(s, Len(out), IF q = 0 THEN 1 ELSE q)

AtEnd(s) == Between /\ EndAt /\ Len(out) = Len(Spans(s)) + 1

(* In the token from i on, read up to p.                                   *)
Within(s, i, p) ==
    /\ LexAt(s, p) /\ lastLocation = Place(s, i) /\ Rest(s, Len(out), i)
    /\ \/ in = "identifier" /\ s[i] \in Letters /\ Spelled(s, i, p, identifierStr)
       \/ in = "number" /\ s[i] \in Digits /\ Spelled(s, i, p, numStr)

(* In a comment, read up to p.                                             *)
Commented(s, p) ==
    /\ in = "comment" /\ p \in 1 .. Len(s) /\ LexAt(s, p)
    /\ Open(s, p) /\ Rest(s, Len(out), p)

Located(s) ==
    \/ AtStart
    \/ \E q : Waiting(s, q)
    \/ AtEnd(s)
    \/ \E i, p : Within(s, i, p)
    \/ \E p : Commented(s, p)

LexerOK(s) == s = Visible /\ SeesText(s) /\ Given(s) /\ Located(s)

LexerInv == \E s : LexerOK(s)

-----------------------------------------------------------------------------
(* The steps.                                                              *)

(* Between comments and tokens a blank is whitespace or opens a comment.   *)
LEMMA QuietFacts ==
    ASSUME NEW s, NEW q \in 1 .. Len(s), Len(s) \in Nat, Quiet(s, q)
    PROVE  /\ Blank(s, q) <=> s[q] \in Space \cup {"#"}
           /\ Open(s, q) <=> s[q] = "#"
<1> DEFINE p == q - 1
<1>1. p \in Nat /\ p + 1 = q
  OBVIOUS
<1>2. s[q] \in {"nl", "cr"} \/ ~ Open(s, p)
  BY DEF Quiet
<1> HIDE DEF p
<1>3. /\ Open(s, p + 1) <=> s[p + 1] \notin {"nl", "cr"} /\ (s[p + 1] = "#" \/ Open(s, p))
      /\ Blank(s, p + 1) <=> s[p + 1] \in Space \/ Open(s, p + 1)
  BY <1>1, OpenNext
<1>4. /\ Open(s, q) <=> s[q] \notin {"nl", "cr"} /\ (s[q] = "#" \/ Open(s, p))
      /\ Blank(s, q) <=> s[q] \in Space \/ Open(s, q)
  BY <1>1, <1>3
<1> QED BY <1>2, <1>4 DEF Space

(* Behind what is no comment it is quiet.                                  *)
LEMMA QuietNext ==
    ASSUME NEW s, NEW p \in Nat, ~ Open(s, p)
    PROVE  Quiet(s, p + 1)
<1>1. (p + 1) - 1 = p
  OBVIOUS
<1> QED BY <1>1 DEF Quiet

(* A character more of a token.                                            *)
LEMMA SpelledOn ==
    ASSUME NEW s, IsSequence(s), NEW i, NEW p, NEW str, Spelled(s, i, p, str),
           p + 1 <= Len(s), s[p + 1] \in More(s, i)
    PROVE  Spelled(s, i, p + 1, Append(str, s[p + 1]))
<1>1. Len(s) \in Nat /\ i \in 1 .. Len(s) /\ p \in i .. Len(s) /\ str = SubSeq(s, i, p)
  BY SequenceFacts DEF Spelled
<1> DEFINE q == p + 1
           a == SubSeq(s, i, p)
           b == SubSeq(s, i, q)
           t == Append(a, s[q])
<1>2. /\ i \in 1 .. Len(s) + 1 /\ p \in i - 1 .. Len(s) /\ q \in i - 1 .. Len(s)
      /\ q \in i .. Len(s) /\ q = p + 1
  BY <1>1
<1> HIDE DEF q
<1>3. /\ IsSequence(a) /\ Len(a) = p - i + 1
      /\ \A k \in 1 .. p - i + 1 : a[k] = s[i + k - 1]
  BY ONLY IsSequence(s), <1>2, SubSeqFacts
<1>4. /\ IsSequence(b) /\ Len(b) = q - i + 1
      /\ \A k \in 1 .. q - i + 1 : b[k] = s[i + k - 1]
  BY ONLY IsSequence(s), <1>2, SubSeqFacts
<1> HIDE DEF a, b
<1>5. /\ IsSequence(t) /\ Len(t) = Len(a) + 1
      /\ \A k \in 1 .. Len(a) : t[k] = a[k]
      /\ t[Len(a) + 1] = s[q]
  BY ONLY <1>3, AppendFacts
<1> HIDE DEF t
<1>6. ASSUME NEW k \in 1 .. Len(t) PROVE t[k] = b[k]
  <2>1. CASE k \in 1 .. Len(a)
    <3>1. k \in 1 .. p - i + 1 /\ k \in 1 .. q - i + 1
      BY <1>1, <1>2, <1>3, <2>1
    <3> QED BY <1>3, <1>4, <1>5, <2>1, <3>1
  <2>2. CASE k = Len(a) + 1
    <3>1. k \in 1 .. q - i + 1 /\ i + k - 1 = q
      BY <1>1, <1>2, <1>3, <2>2
    <3>2. b[k] = s[i + k - 1]
      BY <1>4, <3>1
    <3> QED BY <1>5, <2>2, <3>1, <3>2
  <2>3. k \in 1 .. Len(a) \/ k = Len(a) + 1
    BY <1>1, <1>3, <1>5
  <2> QED BY <2>1, <2>2, <2>3
<1>7. t = b
  <2>1. Len(t) = Len(b)
    BY <1>1, <1>2, <1>3, <1>4, <1>5
  <2> QED BY <1>4, <1>5, <1>6, <2>1, SameSequence
<1>8. s[q] \in WordChars \cup NumberChars
  BY DEF q, More
<1>9. ~ Open(s, q)
  <2>1. s[q] # "#"
    BY <1>8, TokenCharacters
  <2>2. p \in Nat /\ ~ Open(s, p)
    BY <1>1 DEF Spelled
  <2> QED BY <2>1, <2>2, OpenNext DEF q
<1>10. \A k \in i + 1 .. q : s[k] \in More(s, i)
  <2>1. \A k \in i + 1 .. q : k \in i + 1 .. p \/ k = q
    BY <1>1, <1>2
  <2> QED BY <2>1 DEF Spelled, q
<1>11. Spelled(s, i, q, t)
  BY <1>1, <1>2, <1>7, <1>9, <1>10 DEF Spelled, b
<1> QED BY <1>1, <1>11 DEF t, q, a

(* A token that is complete.                                               *)
LEMMA SpelledEnds ==
    ASSUME NEW s, IsSequence(s), NEW i, NEW p, NEW str, Spelled(s, i, p, str),
           p = Len(s) \/ s[p + 1] \notin More(s, i)
    PROVE  End(s, i) = p
<1>1. /\ Len(s) \in Nat /\ i \in 1 .. Len(s) /\ p \in i .. Len(s)
      /\ \A k \in i + 1 .. p : s[k] \in More(s, i)
  BY SequenceFacts DEF Spelled
<1> QED BY <1>1, EndIs

(* A character alone.                                                      *)
LEMMA SpelledFirst ==
    ASSUME NEW s, IsSequence(s), NEW q \in 1 .. Len(s), ~ Blank(s, q), ~ Open(s, q)
    PROVE  Spelled(s, q, q, <<s[q]>>)
<1>1. Len(s) \in Nat
  BY SequenceFacts
<1>2. q \in 1 .. Len(s) + 1 /\ q \in q - 1 .. Len(s) /\ q \in q .. Len(s)
  BY <1>1
<1> DEFINE a == SubSeq(s, q, q)
           b == <<s[q]>>
<1>3. /\ IsSequence(a) /\ Len(a) = q - q + 1
      /\ \A k \in 1 .. q - q + 1 : a[k] = s[q + k - 1]
  BY ONLY IsSequence(s), <1>2, SubSeqFacts
<1>4. IsSequence(b) /\ Len(b) = 1 /\ b[1] = s[q]
  BY TupleFacts
<1> HIDE DEF a, b
<1>5. q - q + 1 = 1 /\ q + 1 - 1 = q
  BY <1>1
<1>6. a[1] = s[q] /\ Len(a) = 1
  BY <1>3, <1>5
<1>7. \A k \in 1 .. Len(a) : a[k] = b[k]
  BY <1>4, <1>6
<1>8. a = b
  BY <1>3, <1>4, <1>6, <1>7, SameSequence
<1>9. \A k \in q + 1 .. q : s[k] \in More(s, q)
  BY <1>1
<1>10. b = SubSeq(s, q, q)
  BY <1>8 DEF a
<1>11. Spelled(s, q, q, b)
  BY <1>2, <1>9, <1>10 DEF Spelled
<1> QED BY <1>11 DEF b

(* The text stays.                                                         *)
LEMMA TextKept ==
    ASSUME NEW s, s = Visible, SeesText(s), text' = text
    PROVE  (s = Visible)' /\ SeesText(s)'
<1>1. (s = Visible)'
  BY DEF Visible
<1>2. SeesText(s)'
  BY DEF SeesText
<1> QED BY <1>1, <1>2

(* Where nothing is read the place stays.                                  *)
LEMMA PlaceKept ==
    ASSUME NEW s, UNCHANGED Reading
    PROVE  /\ text' = text
           /\ Unread => Unread'
           /\ EndAt => EndAt'
           /\ \A q : Here(s, q) => Here(s, q)'
           /\ \A q : LexAt(s, q) => LexAt(s, q)'
<1>1. /\ text' = text /\ current' = current /\ curLineBuffer' = curLineBuffer
      /\ lastChar' = lastChar /\ curLineNum' = curLineNum /\ curCol' = curCol
  BY DEF Reading
<1>2. \A q : Char(q)' = Char(q)
  BY <1>1 DEF Char
<1>3. \A q : Buffered(q) => Buffered(q)'
  BY <1>1, <1>2 DEF Buffered
<1>4. Unread => Unread'
  <2>1. Buffered(-1) => Buffered(-1)'
    BY <1>3, Zenon
  <2> QED BY <1>1, <2>1, Zenon DEF Unread
<1>5. EndAt => EndAt'
  BY <1>1 DEF EndAt
<1>6. \A q : LexAt(s, q) => LexAt(s, q)'
  BY <1>1, <1>2, <1>3, Zenon DEF LexAt
<1>7. \A q : Here(s, q) => Here(s, q)'
  BY <1>5, <1>6, Zenon DEF Here
<1> QED BY <1>1, <1>4, <1>5, <1>6, <1>7

(* The lexer is between two tokens, in one, or in a comment.               *)
LEMMA InWhich ==
    ASSUME NEW s, Located(s)
    PROVE  /\ in \in {"idle", "skip"} => AtStart \/ (\E q : Waiting(s, q)) \/ AtEnd(s)
           /\ in = "identifier" => \E i, p : /\ Within(s, i, p) /\ s[i] \in Letters
                                             /\ Spelled(s, i, p, identifierStr)
           /\ in = "number" => \E i, p : /\ Within(s, i, p) /\ s[i] \in Digits
                                         /\ Spelled(s, i, p, numStr)
           /\ in = "comment" => \E p : Commented(s, p)
           /\ in \in {"idle", "skip", "identifier", "number", "comment"}
<1>1. CASE AtStart
  BY <1>1 DEF AtStart, Between
<1>2. CASE \E q : Waiting(s, q)
  BY <1>2 DEF Waiting, Between
<1>3. CASE AtEnd(s)
  BY <1>3 DEF AtEnd, Between
<1>4. CASE \E i, p : Within(s, i, p)
  <2>1. PICK i, p : Within(s, i, p)
    BY <1>4
  <2> QED BY <2>1 DEF Within
<1>5. CASE \E p : Commented(s, p)
  BY <1>5 DEF Commented
<1> QED BY <1>1, <1>2, <1>3, <1>4, <1>5 DEF Located

(* A token begins at a character that is neither whitespace nor the end,   *)
(* unless it is a comment.                                                 *)
LEMMA AtCharacter ==
    ASSUME NEW s, LexerOK(s), in = "skip", lastChar \notin Space \cup {"eof"}
    PROVE  \E q \in 1 .. Len(s) :
               /\ LexAt(s, q) /\ Rest(s, Len(out), q)
               /\ lastChar = TokenOf(s[q]) /\ Plain(s[q]) /\ s[q] \notin Space
               /\ <<curLineNum, curCol>> = Place(s, q)
               /\ Blank(s, q) <=> s[q] = "#"
               /\ Open(s, q) <=> s[q] = "#"
<1>1. SeesText(s) /\ Located(s)
  BY DEF LexerOK
<1>2. Len(s) \in Nat
  BY <1>1, SequenceFacts DEF SeesText
<1>3. ~ AtStart /\ ~ AtEnd(s)
  BY Zenon DEF AtStart, Unread, AtEnd, EndAt, Space
<1>4. PICK q : Waiting(s, q)
  BY <1>1, <1>3, InWhich
<1>5. q \in 0 .. Len(s) + 1 /\ Here(s, q) /\ Quiet(s, q)
      /\ Rest(s, Len(out), IF q = 0 THEN 1 ELSE q)
  BY <1>4, Zenon DEF Waiting
<1>6. ReadAhead(s, q, lastChar)
  BY <1>1, <1>5, HereRead
<1>7. q \in 1 .. Len(s)
  <2>1. q # 0 /\ q # Len(s) + 1
    BY <1>6, Zenon DEF ReadAhead, Space
  <2>2. q \in 0 .. Len(s) + 1
    BY <1>5
  <2> QED BY <1>2, <2>1, <2>2
<1>8. lastChar = TokenOf(s[q]) /\ Plain(s[q])
  BY <1>6, <1>7 DEF ReadAhead
<1>9. s[q] \notin Space
  BY <1>8, TokenOfPlain
<1>10. LexAt(s, q)
  BY <1>2, <1>5, <1>7 DEF Here
<1>11. Rest(s, Len(out), q)
  <2>1. q # 0
    BY <1>7
  <2> QED BY <1>5, <2>1
<1>12. <<curLineNum, curCol>> = Place(s, q)
  <2>1. q \in Nat /\ q # 0
    BY <1>2, <1>7
  <2>3. s[q] # "nl"
    BY <1>9, Zenon DEF Space
  <2>2. Place(s, q) = <<1 + Cardinality(Newlines(s, q)), q - LastOf(Newlines(s, q))>>
    BY <2>1, <2>3, PlaceIs
  <2> QED BY <1>10, <2>2, Zenon DEF LexAt
<1>13. /\ Blank(s, q) <=> s[q] = "#"
       /\ Open(s, q) <=> s[q] = "#"
  BY <1>2, <1>5, <1>7, <1>9, QuietFacts
<1> QED BY <1>7, <1>8, <1>9, <1>10, <1>11, <1>12, <1>13

(* Whitespace.                                                             *)
LEMMA SkipKeeps ==
    ASSUME NEW s, LexerOK(s), SkipSpace
    PROVE  LexerOK(s)'
<1>1. /\ s = Visible /\ SeesText(s) /\ Given(s) /\ Located(s)
      /\ in = "skip" /\ in' = in /\ out' = out /\ lastChar \in Space /\ Advance
  BY DEF LexerOK, SkipSpace
<1>2. Len(s) \in Nat /\ IsSequence(s)
  BY <1>1, SequenceFacts DEF SeesText
<1>3. Given(s)' /\ Between'
  BY <1>1 DEF Given, Between
<1>4. CASE AtStart
  <2>1. LexAt(s, 0)' /\ text' = text
    BY <1>1, <1>4, FirstRead DEF AtStart, Advance
  <2>2. Here(s, 0)' /\ Quiet(s, 0)
    BY <1>2, <2>1 DEF Here, Quiet
  <2>3. Len(out') = 0 /\ Rest(s, 0, 1)
    BY <1>1, <1>2, <1>4, RestEnds DEF AtStart
  <2>4. Waiting(s, 0)'
    BY <1>2, <1>3, <2>2, <2>3 DEF Waiting
  <2>5. Located(s)'
    BY <2>4 DEF Located
  <2> QED BY <1>1, <1>3, <2>1, <2>5, TextKept DEF LexerOK
<1>5. CASE \E q : Waiting(s, q)
  <2>1. PICK q : Waiting(s, q)
    BY <1>5
  <2>2. q \in 0 .. Len(s) + 1 /\ Here(s, q) /\ Quiet(s, q)
        /\ Rest(s, Len(out), IF q = 0 THEN 1 ELSE q)
    BY <2>1, Zenon DEF Waiting
  <2>3. ReadAhead(s, q, lastChar)
    BY <1>1, <2>2, HereRead
  <2>4. q # Len(s) + 1
    BY <1>1, <2>3, Zenon DEF ReadAhead, Space
  <2>5. q \in 0 .. Len(s)
    BY <1>2, <2>2, <2>4
  <2>6. LexAt(s, q)
    BY <1>2, <2>2, <2>5 DEF Here
  <2>7. Here(s, q + 1)' /\ text' = text
    BY <1>1, <2>5, <2>6, ReadsOn
  <2>8. ~ Open(s, q) /\ Rest(s, Len(out), q + 1)
    <3>1. CASE q = 0
      <4>1. 0 \in Nat
        OBVIOUS
      <4>2. ~ Open(s, 0)
        BY <4>1, OpenNext
      <4>3. 0 + 1 = 1
        OBVIOUS
      <4>4. Rest(s, Len(out), 1)
        BY <2>2, <3>1
      <4> QED BY <3>1, <4>2, <4>3, <4>4
    <3>2. CASE q # 0
      <4>1. q \in 1 .. Len(s)
        BY <1>2, <2>5, <3>2
      <4>2. s[q] \in Space
        <5>1. lastChar = TokenOf(s[q]) /\ Plain(s[q])
          BY <2>3, <4>1 DEF ReadAhead
        <5> QED BY <1>1, <5>1, TokenOfPlain
      <4>3. s[q] # "#"
        BY <4>2 DEF Space
      <4>4. Blank(s, q) /\ ~ Open(s, q)
        BY <1>2, <2>2, <4>1, <4>2, <4>3, QuietFacts
      <4>5. Rest(s, Len(out), q)
        BY <2>2, <3>2, Zenon
      <4>6. Rest(s, Len(out), q + 1)
        BY <1>2, <4>1, <4>4, <4>5, RestBlank
      <4> QED BY <4>4, <4>6
    <3> QED BY <3>1, <3>2
  <2>9. q + 1 \in 0 .. Len(s) + 1 /\ q + 1 # 0 /\ q \in Nat
    BY <1>2, <2>5
  <2>10. Quiet(s, q + 1)
    BY <2>8, <2>9, QuietNext
  <2> DEFINE n == q + 1
  <2>11. n \in 0 .. Len(s) + 1 /\ n # 0 /\ Quiet(s, n) /\ Here(s, n)' /\ Rest(s, Len(out), n)
    BY <2>7, <2>8, <2>9, <2>10
  <2> HIDE DEF n
  <2>12. Waiting(s, n)'
    <3>1. Len(out)' = Len(out)
      BY <1>1
    <3> QED BY <1>3, <2>11, <3>1, Zenon DEF Waiting
  <2>13. Located(s)'
    BY <2>12, Zenon DEF Located
  <2> QED BY <1>1, <1>3, <2>7, <2>13, TextKept DEF LexerOK
<1>6. ~ AtEnd(s)
  BY <1>1, Zenon DEF AtEnd, EndAt, Space
<1> QED BY <1>1, <1>4, <1>5, <1>6, InWhich

(* The start of a call changes nothing but the loop.                       *)
LEMMA CallKeeps ==
    ASSUME NEW s, LexerOK(s), GetNextToken
    PROVE  LexerOK(s)'
<1>1. /\ s = Visible /\ SeesText(s) /\ Given(s) /\ Located(s)
      /\ in = "idle" /\ in' = "skip" /\ out' = out /\ UNCHANGED Reading
  BY DEF LexerOK, GetNextToken
<1>2. /\ text' = text
      /\ Unread => Unread'
      /\ EndAt => EndAt'
      /\ \A q : Here(s, q) => Here(s, q)'
  BY <1>1, PlaceKept
<1>3. Given(s)' /\ Between' /\ Len(out)' = Len(out)
  BY <1>1 DEF Given, Between
<1>4. ASSUME AtStart PROVE AtStart'
  BY <1>2, <1>3, <1>4 DEF AtStart
<1>5. ASSUME NEW q, Waiting(s, q) PROVE Waiting(s, q)'
  BY <1>2, <1>3, <1>5, Zenon DEF Waiting
<1>6. ASSUME AtEnd(s) PROVE AtEnd(s)'
  BY <1>2, <1>3, <1>6 DEF AtEnd
<1>7. AtStart \/ (\E q : Waiting(s, q)) \/ AtEnd(s)
  BY <1>1, InWhich
<1>8. Located(s)'
  BY <1>4, <1>5, <1>6, <1>7, Zenon DEF Located
<1> QED BY <1>1, <1>2, <1>3, <1>8, TextKept DEF LexerOK

(* A word, a number and a comment begin where the lexer is.                *)
LEMMA BeginKeeps ==
    ASSUME NEW s, LexerOK(s), BeginIdentifier \/ BeginNumber \/ BeginComment
    PROVE  LexerOK(s)'
<1>1. /\ s = Visible /\ SeesText(s) /\ Given(s) /\ Located(s)
      /\ in = "skip" /\ out' = out /\ UNCHANGED Reading
      /\ lastLocation' = <<curLineNum, curCol>>
      /\ lastChar \in Letters \cup Digits \cup {"#"}
  BY DEF LexerOK, BeginIdentifier, BeginNumber, BeginComment, Locate
<1>2. lastChar \notin Space \cup {"eof"}
  BY <1>1, TokenCharacters DEF Space
<1>3. PICK q \in 1 .. Len(s) :
          /\ LexAt(s, q) /\ Rest(s, Len(out), q)
          /\ lastChar = TokenOf(s[q]) /\ Plain(s[q]) /\ s[q] \notin Space
          /\ <<curLineNum, curCol>> = Place(s, q)
          /\ Blank(s, q) <=> s[q] = "#"
          /\ Open(s, q) <=> s[q] = "#"
  BY <1>1, <1>2, AtCharacter
<1>4. /\ lastChar \in Letters => s[q] \in Letters /\ lastChar = s[q]
      /\ lastChar \in Digits => s[q] \in Digits /\ lastChar = s[q]
      /\ lastChar = "#" => s[q] = "#"
  BY <1>3, TokenOfPlain DEF WordChars
<1>5. text' = text /\ LexAt(s, q)' /\ Len(out)' = Len(out)
  BY <1>1, <1>3, PlaceKept
<1>6. Given(s)'
  BY <1>1 DEF Given
<1>7. IsSequence(s)
  BY <1>1 DEF SeesText
<1>8. s[q] # "#" => Spelled(s, q, q, <<s[q]>>)
  BY <1>3, <1>7, SpelledFirst
<1>9. s[q] \in Letters \cup Digits => s[q] # "#"
  BY TokenCharacters DEF WordChars, NumberChars
<1>10. CASE BeginIdentifier
  <2>1. lastChar \in Letters /\ identifierStr' = <<lastChar>> /\ in' = "identifier"
    BY <1>10 DEF BeginIdentifier
  <2>2. Spelled(s, q, q, identifierStr') /\ s[q] \in Letters
    BY <1>4, <1>8, <1>9, <2>1
  <2>3. Within(s, q, q)'
    BY <1>1, <1>3, <1>5, <2>1, <2>2 DEF Within
  <2> QED BY <1>1, <1>5, <1>6, <2>3, TextKept DEF LexerOK, Located
<1>11. CASE BeginNumber
  <2>1. lastChar \in Digits /\ numStr' = <<lastChar>> /\ in' = "number"
    BY <1>11 DEF BeginNumber
  <2>2. Spelled(s, q, q, numStr') /\ s[q] \in Digits
    BY <1>4, <1>8, <1>9, <2>1
  <2>3. Within(s, q, q)'
    BY <1>1, <1>3, <1>5, <2>1, <2>2 DEF Within
  <2> QED BY <1>1, <1>5, <1>6, <2>3, TextKept DEF LexerOK, Located
<1>12. CASE BeginComment
  <2>1. lastChar = "#" /\ in' = "comment"
    BY <1>12 DEF BeginComment
  <2>2. Open(s, q)
    BY <1>3, <1>4, <2>1
  <2>3. Commented(s, q)'
    BY <1>3, <1>5, <2>1, <2>2 DEF Commented
  <2> QED BY <1>1, <1>5, <1>6, <2>3, TextKept DEF LexerOK, Located
<1> QED BY <1>10, <1>11, <1>12

(* Reading on in a token.                                                  *)
LEMMA TokenReads ==
    ASSUME NEW s, SeesText(s), NEW i, NEW p, NEW str, Spelled(s, i, p, str),
           LexAt(s, p), Advance
    PROVE  /\ text' = text /\ p \in 1 .. Len(s) /\ Here(s, p + 1)'
           /\ lastChar' \in More(s, i) =>
                  LexAt(s, p + 1)' /\ Spelled(s, i, p + 1, Append(str, lastChar'))
           /\ lastChar' \notin More(s, i) => End(s, i) = p /\ Quiet(s, p + 1)
<1>1. Len(s) \in Nat /\ IsSequence(s)
  BY SequenceFacts DEF SeesText
<1>2. i \in 1 .. Len(s) /\ p \in i .. Len(s) /\ ~ Open(s, p)
  BY DEF Spelled
<1>3. p \in 0 .. Len(s) /\ p \in 1 .. Len(s) /\ p \in Nat
  BY <1>1, <1>2
<1>4. Here(s, p + 1)' /\ ReadAhead(s, p + 1, lastChar') /\ text' = text
  BY <1>3, ReadsOn
<1>5. ASSUME p + 1 <= Len(s)
      PROVE  lastChar' = TokenOf(s[p + 1]) /\ Plain(s[p + 1])
  <2>1. p + 1 \in 1 .. Len(s)
    BY <1>1, <1>3, <1>5
  <2> QED BY <1>4, <2>1 DEF ReadAhead
<1>6. More(s, i) \in {WordChars, NumberChars, {}}
  BY DEF More
<1>7. ASSUME lastChar' \in More(s, i)
      PROVE  LexAt(s, p + 1)' /\ Spelled(s, i, p + 1, Append(str, lastChar'))
  <2>1. lastChar' # "eof"
    BY <1>6, <1>7, TokenCharacters
  <2>2. p + 1 # Len(s) + 1
    BY <1>4, <2>1 DEF ReadAhead
  <2>3. p + 1 <= Len(s)
    BY <1>1, <1>3, <2>2
  <2>4. s[p + 1] \in More(s, i) /\ lastChar' = s[p + 1]
    BY <1>5, <1>6, <1>7, <2>3, TokenOfPlain
  <2>5. LexAt(s, p + 1)'
    BY <1>4, <2>3 DEF Here
  <2> QED BY <1>1, <2>3, <2>4, <2>5, SpelledOn
<1>8. ASSUME lastChar' \notin More(s, i)
      PROVE  End(s, i) = p /\ Quiet(s, p + 1)
  <2>1. p = Len(s) \/ s[p + 1] \notin More(s, i)
    <3>1. CASE p + 1 <= Len(s)
      BY <1>5, <1>6, <1>8, <3>1, TokenOfPlain
    <3>2. CASE ~ p + 1 <= Len(s)
      BY <1>1, <1>3, <3>2
    <3> QED BY <3>1, <3>2
  <2>2. End(s, i) = p
    BY <1>1, <2>1, SpelledEnds
  <2> QED BY <1>2, <1>3, <2>2, QuietNext
<1> QED BY <1>3, <1>4, <1>7, <1>8

(* Behind a token.                                                         *)
LEMMA TokenLeaves ==
    ASSUME NEW s, SeesText(s), Given(s), NEW i, NEW p, NEW str, Spelled(s, i, p, str),
           End(s, i) = p, Quiet(s, p + 1), Here(s, p + 1)', Rest(s, Len(out), i),
           NEW r, GoodToken(s, <<i, p>>, r), in' = "idle",
           out' = IF Ended THEN out ELSE Append(out, r)
    PROVE  Given(s)' /\ Located(s)'
<1>1. Len(s) \in Nat /\ IsSequence(s)
  BY SequenceFacts DEF SeesText
<1>2. i \in 1 .. Len(s) /\ p \in i .. Len(s) /\ ~ Blank(s, i)
  BY DEF Spelled
<1>3. Given(s)' /\ Rest(s, Len(out'), p + 1)
  BY <1>1, <1>2, GivesToken
<1> DEFINE n == p + 1
<1>4. n \in 0 .. Len(s) + 1 /\ n # 0 /\ Quiet(s, n) /\ Here(s, n)' /\ Rest(s, Len(out'), n)
  BY <1>1, <1>2, <1>3
<1> HIDE DEF n
<1>5. Between'
  BY DEF Between
<1>6. Waiting(s, n)'
  BY <1>4, <1>5, Zenon DEF Waiting
<1> QED BY <1>3, <1>6, Zenon DEF Located

(* A word goes on or ends.                                                 *)
LEMMA WordKeeps ==
    ASSUME NEW s, LexerOK(s), ReadIdentifier
    PROVE  LexerOK(s)'
<1>1. /\ s = Visible /\ SeesText(s) /\ Given(s) /\ Located(s) /\ IsSequence(s)
      /\ in = "identifier" /\ Advance /\ lastLocation' = lastLocation
  BY DEF LexerOK, ReadIdentifier, SeesText
<1>2. PICK i, p : Within(s, i, p) /\ s[i] \in Letters /\ Spelled(s, i, p, identifierStr)
  BY <1>1, InWhich
<1>3. LexAt(s, p) /\ lastLocation = Place(s, i) /\ Rest(s, Len(out), i)
  BY <1>2 DEF Within
<1>4. More(s, i) = WordChars
  BY <1>2 DEF More
<1>5. /\ text' = text /\ p \in 1 .. Len(s) /\ Here(s, p + 1)'
      /\ lastChar' \in More(s, i) =>
             LexAt(s, p + 1)' /\ Spelled(s, i, p + 1, Append(identifierStr, lastChar'))
      /\ lastChar' \notin More(s, i) => End(s, i) = p /\ Quiet(s, p + 1)
  BY <1>1, <1>2, <1>3, TokenReads
<1>6. CASE lastChar' \in WordChars
  <2>1. identifierStr' = Append(identifierStr, lastChar') /\ in' = in /\ out' = out
    BY <1>6 DEF ReadIdentifier
  <2>2. LexAt(s, p + 1)' /\ Spelled(s, i, p + 1, identifierStr')
    BY <1>4, <1>5, <1>6, <2>1
  <2>3. Within(s, i, p + 1)'
    BY <1>1, <1>2, <1>3, <2>1, <2>2 DEF Within
  <2>4. Located(s)' /\ Given(s)'
    BY <1>1, <2>1, <2>3 DEF Located, Given
  <2> QED BY <1>1, <1>5, <2>4, TextKept DEF LexerOK
<1>7. CASE lastChar' \notin WordChars
  <2> DEFINE r == [tok |-> KeywordOr("identifier", identifierStr), id |-> identifierStr,
                   num |-> numVal, location |-> lastLocation]
  <2>1. in' = "idle" /\ out' = IF Ended THEN out ELSE Append(out, r)
    BY <1>7 DEF ReadIdentifier, Give
  <2>2. End(s, i) = p /\ Quiet(s, p + 1)
    BY <1>4, <1>5, <1>7
  <2>3. i \in 1 .. Len(s) /\ p \in i .. Len(s) /\ identifierStr = SubSeq(s, i, p)
    BY <1>2 DEF Spelled
  <2>4. /\ r.tok = KeywordOr("identifier", SubSeq(s, i, p)) /\ r.id = SubSeq(s, i, p)
        /\ r.location = Place(s, i)
    BY <1>3, <2>3
  <2> HIDE DEF r
  <2>5. GoodToken(s, <<i, p>>, r)
    BY <1>1, <1>2, <2>3, <2>4, GoodWord
  <2>6. Given(s)' /\ Located(s)'
    BY <1>1, <1>2, <1>3, <1>5, <2>1, <2>2, <2>5, TokenLeaves
  <2> QED BY <1>1, <1>5, <2>6, TextKept DEF LexerOK
<1> QED BY <1>6, <1>7

(* A number goes on or ends.                                               *)
LEMMA NumberKeeps ==
    ASSUME NEW s, LexerOK(s), ReadNumber
    PROVE  LexerOK(s)'
<1>1. /\ s = Visible /\ SeesText(s) /\ Given(s) /\ Located(s) /\ IsSequence(s)
      /\ in = "number" /\ Advance /\ lastLocation' = lastLocation
  BY DEF LexerOK, ReadNumber, SeesText
<1>2. PICK i, p : Within(s, i, p) /\ s[i] \in Digits /\ Spelled(s, i, p, numStr)
  BY <1>1, InWhich
<1>3. LexAt(s, p) /\ lastLocation = Place(s, i) /\ Rest(s, Len(out), i)
  BY <1>2 DEF Within
<1>4. More(s, i) = NumberChars
  BY <1>2, TokenCharacters DEF More
<1>5. /\ text' = text /\ p \in 1 .. Len(s) /\ Here(s, p + 1)'
      /\ lastChar' \in More(s, i) =>
             LexAt(s, p + 1)' /\ Spelled(s, i, p + 1, Append(numStr, lastChar'))
      /\ lastChar' \notin More(s, i) => End(s, i) = p /\ Quiet(s, p + 1)
  BY <1>1, <1>2, <1>3, TokenReads
<1>6. CASE lastChar' \in NumberChars
  <2>1. numStr' = Append(numStr, lastChar') /\ in' = in /\ out' = out
    BY <1>6 DEF ReadNumber
  <2>2. LexAt(s, p + 1)' /\ Spelled(s, i, p + 1, numStr')
    BY <1>4, <1>5, <1>6, <2>1
  <2>3. Within(s, i, p + 1)'
    BY <1>1, <1>2, <1>3, <2>1, <2>2 DEF Within
  <2>4. Located(s)' /\ Given(s)'
    BY <1>1, <2>1, <2>3 DEF Located, Given
  <2> QED BY <1>1, <1>5, <2>4, TextKept DEF LexerOK
<1>7. CASE lastChar' \notin NumberChars
  <2> DEFINE r == [tok |-> "number", id |-> identifierStr,
                   num |-> Strtod(numStr), location |-> lastLocation]
  <2>1. in' = "idle" /\ out' = IF Ended THEN out ELSE Append(out, r)
    BY <1>7 DEF ReadNumber, Give
  <2>2. End(s, i) = p /\ Quiet(s, p + 1)
    BY <1>4, <1>5, <1>7
  <2>3. i \in 1 .. Len(s) /\ p \in i .. Len(s) /\ numStr = SubSeq(s, i, p)
    BY <1>2 DEF Spelled
  <2>4. /\ r.tok = "number" /\ r.num = Strtod(SubSeq(s, i, p))
        /\ r.location = Place(s, i)
    BY <1>3, <2>3
  <2> HIDE DEF r
  <2>5. GoodToken(s, <<i, p>>, r)
    BY <1>1, <1>2, <2>3, <2>4, GoodNumber
  <2>6. Given(s)' /\ Located(s)'
    BY <1>1, <1>2, <1>3, <1>5, <2>1, <2>2, <2>5, TokenLeaves
  <2> QED BY <1>1, <1>5, <2>6, TextKept DEF LexerOK
<1> QED BY <1>6, <1>7

(* The end of the file is given once.                                      *)
LEMMA EndLeaves ==
    ASSUME NEW s, IsSequence(s), Given(s), Rest(s, Len(out), Len(s) + 1), EndAt',
           NEW r, r.tok = "eof", in' = "idle",
           out' = IF Ended THEN out ELSE Append(out, r)
    PROVE  Given(s)' /\ Located(s)'
<1>1. Given(s)' /\ Len(out') = Len(Spans(s)) + 1
  BY GivesEnd
<1>2. AtEnd(s)'
  BY <1>1 DEF AtEnd, Between
<1> QED BY <1>1, <1>2 DEF Located

(* A comment goes on, or ends with its line or the file.                   *)
LEMMA CommentKeeps ==
    ASSUME NEW s, LexerOK(s), ReadComment
    PROVE  LexerOK(s)'
<1>1. /\ s = Visible /\ SeesText(s) /\ Given(s) /\ Located(s) /\ IsSequence(s)
      /\ in = "comment" /\ Advance
  BY DEF LexerOK, ReadComment, SeesText
<1>2. PICK p : Commented(s, p)
  BY <1>1, InWhich
<1>3. Len(s) \in Nat /\ p \in 1 .. Len(s) /\ LexAt(s, p) /\ Open(s, p) /\ Rest(s, Len(out), p)
  BY <1>1, <1>2, SequenceFacts DEF Commented
<1>4. p \in 0 .. Len(s) /\ p \in Nat
  BY <1>3
<1>5. Here(s, p + 1)' /\ ReadAhead(s, p + 1, lastChar') /\ text' = text
  BY <1>1, <1>3, <1>4, ReadsOn
<1>6. Blank(s, p)
  BY <1>3, Zenon DEF Blank, Open
<1>7. Rest(s, Len(out), p + 1)
  BY <1>3, <1>6, RestBlank
<1>8. CASE p = Len(s)
  <2>1. lastChar' = "eof"
    BY <1>5, <1>8 DEF ReadAhead
  <2> DEFINE r == [tok |-> "eof", id |-> identifierStr, num |-> numVal,
                   location |-> lastLocation]
  <2>2. in' = "idle" /\ out' = IF Ended THEN out ELSE Append(out, r)
    BY <2>1, Zenon DEF ReadComment, CommentEnds, Give
  <2>3. r.tok = "eof"
    OBVIOUS
  <2> HIDE DEF r
  <2>4. ~ p + 1 <= Len(s)
    BY <1>3, <1>8
  <2>5. EndAt'
    BY <1>5, <2>4 DEF Here
  <2>6. Rest(s, Len(out), Len(s) + 1)
    BY <1>7, <1>8
  <2>7. Given(s)' /\ Located(s)'
    BY <1>1, <2>2, <2>3, <2>5, <2>6, EndLeaves
  <2> QED BY <1>1, <1>5, <2>7, TextKept DEF LexerOK
<1>9. CASE p # Len(s)
  <2> DEFINE n == p + 1
  <2>1. n \in 1 .. Len(s) /\ n \in 0 .. Len(s) + 1 /\ n # 0 /\ n <= Len(s) /\ n # Len(s) + 1
    BY <1>3, <1>9
  <2>2. lastChar' = TokenOf(s[n]) /\ Plain(s[n]) /\ lastChar' # "eof"
    BY <1>5, <2>1 DEF ReadAhead
  <2>3. lastChar' \in {"nl", "cr"} <=> s[n] \in {"nl", "cr"}
    BY <2>2, TokenOfPlain
  <2>4. LexAt(s, n)' /\ Here(s, n)' /\ Rest(s, Len(out), n)
    BY <1>5, <1>7, <2>1 DEF Here
  <2>5. Open(s, n) <=> s[n] \notin {"nl", "cr"}
    BY <1>3, <1>4, OpenNext
  <2> HIDE DEF n
  <2>6. CASE lastChar' \in {"nl", "cr"}
    <3>1. in' = "skip" /\ out' = out
      BY <2>6 DEF ReadComment, CommentEnds
    <3>2. Quiet(s, n)
      BY <2>3, <2>6 DEF Quiet
    <3>3. Between' /\ Len(out)' = Len(out)
      BY <3>1 DEF Between
    <3>4. Waiting(s, n)'
      BY <2>1, <2>4, <3>2, <3>3, Zenon DEF Waiting
    <3>5. Located(s)' /\ Given(s)'
      BY <1>1, <3>1, <3>4 DEF Located, Given
    <3> QED BY <1>1, <1>5, <3>5, TextKept DEF LexerOK
  <2>7. CASE lastChar' \notin {"nl", "cr"}
    <3>1. in' = in /\ out' = out
      BY <2>2, <2>7, Zenon DEF ReadComment, CommentEnds
    <3>2. Commented(s, n)'
      BY <1>1, <2>1, <2>3, <2>4, <2>5, <2>7, <3>1 DEF Commented
    <3>3. Located(s)' /\ Given(s)'
      BY <1>1, <3>1, <3>2 DEF Located, Given
    <3> QED BY <1>1, <1>5, <3>3, TextKept DEF LexerOK
  <2> QED BY <2>6, <2>7
<1> QED BY <1>8, <1>9

(* The end of the file.                                                    *)
LEMMA ReturnEOFKeeps ==
    ASSUME NEW s, LexerOK(s), ReturnEOF
    PROVE  LexerOK(s)'
<1> DEFINE r == [tok |-> "eof", id |-> identifierStr, num |-> numVal,
                 location |-> lastLocation']
<1>1. /\ s = Visible /\ SeesText(s) /\ Given(s) /\ Located(s) /\ IsSequence(s)
      /\ in = "skip" /\ lastChar = "eof" /\ UNCHANGED Reading
      /\ in' = "idle" /\ out' = IF Ended THEN out ELSE Append(out, r)
  BY DEF LexerOK, ReturnEOF, Locate, Give, SeesText
<1>2. text' = text /\ (EndAt => EndAt')
  BY <1>1, PlaceKept
<1>3. r.tok = "eof"
  OBVIOUS
<1> HIDE DEF r
<1>4. ~ AtStart
  BY <1>1, Zenon DEF AtStart, Unread
<1>5. CASE \E q : Waiting(s, q)
  <2>1. PICK q : Waiting(s, q)
    BY <1>5
  <2>2. q \in 0 .. Len(s) + 1 /\ Here(s, q)
        /\ Rest(s, Len(out), IF q = 0 THEN 1 ELSE q)
    BY <2>1, Zenon DEF Waiting
  <2>3. q = Len(s) + 1
    BY <1>1, <2>2, HereRead DEF ReadAhead
  <2>4. q # 0 /\ ~ q <= Len(s)
    <3>1. Len(s) \in Nat
      BY <1>1, SequenceFacts
    <3> QED BY <2>3, <3>1
  <2>5. EndAt
    BY <2>2, <2>4 DEF Here
  <2>6. Rest(s, Len(out), Len(s) + 1)
    BY <2>2, <2>3, <2>4, Zenon
  <2>7. Given(s)' /\ Located(s)'
    BY <1>1, <1>2, <1>3, <2>5, <2>6, EndLeaves
  <2> QED BY <1>1, <1>2, <2>7, TextKept DEF LexerOK
<1>6. CASE AtEnd(s)
  <2>1. Len(out) = Len(Spans(s)) + 1 /\ EndAt
    BY <1>6 DEF AtEnd
  <2>2. Len(s) \in Nat /\ IsSequence(out)
    BY <1>1, SequenceFacts DEF Given
  <2>3. Len(Spans(s)) \in Nat
    BY <2>2, RestEnds
  <2>4. Len(out) \in 1 .. Len(out) /\ Len(out) > Len(Spans(s)) /\ Len(out) # 0
    BY <2>1, <2>3
  <2>5. out[Len(out)].tok = "eof"
    BY <1>1, <2>4 DEF Given
  <2>6. out # << >>
    BY <2>4, EmptyIsSequence
  <2>7. Ended
    BY <2>5, <2>6 DEF Ended, Last
  <2>8. out' = out
    BY <1>1, <2>7
  <2>9. AtEnd(s)' /\ Given(s)'
    BY <1>1, <1>2, <2>1, <2>8 DEF AtEnd, Given, Between
  <2> QED BY <1>1, <1>2, <2>9, TextKept DEF LexerOK, Located
<1> QED BY <1>1, <1>4, <1>5, <1>6, InWhich

(* A character of its own.                                                 *)
LEMMA ReturnCharacterKeeps ==
    ASSUME NEW s, LexerOK(s), ReturnCharacter
    PROVE  LexerOK(s)'
<1> DEFINE r == [tok |-> lastChar, id |-> identifierStr, num |-> numVal,
                 location |-> lastLocation']
<1>1. /\ s = Visible /\ SeesText(s) /\ Given(s) /\ Located(s) /\ IsSequence(s)
      /\ in = "skip" /\ lastChar \notin Space \cup Letters \cup Digits \cup {"#", "eof"}
      /\ Advance /\ lastLocation' = <<curLineNum, curCol>>
      /\ in' = "idle" /\ out' = IF Ended THEN out ELSE Append(out, r)
  BY DEF LexerOK, ReturnCharacter, Locate, Give, SeesText
<1>2. PICK q \in 1 .. Len(s) :
          /\ LexAt(s, q) /\ Rest(s, Len(out), q)
          /\ lastChar = TokenOf(s[q]) /\ Plain(s[q]) /\ s[q] \notin Space
          /\ <<curLineNum, curCol>> = Place(s, q)
          /\ Blank(s, q) <=> s[q] = "#"
          /\ Open(s, q) <=> s[q] = "#"
  <2>1. lastChar \notin Space \cup {"eof"}
    BY <1>1
  <2> QED BY <1>1, <2>1, AtCharacter
<1>3. s[q] \notin Letters \cup Digits /\ s[q] # "#"
  BY <1>1, <1>2, TokenOfPlain
<1>4. r.tok = TokenOf(s[q]) /\ r.location = Place(s, q)
  BY <1>1, <1>2
<1> HIDE DEF r
<1>5. GoodToken(s, <<q, q>>, r)
  BY <1>1, <1>2, <1>3, <1>4, GoodCharacter
<1>6. Spelled(s, q, q, <<s[q]>>)
  BY <1>1, <1>2, <1>3, SpelledFirst
<1>7. More(s, q) = {}
  BY <1>3 DEF More
<1>8. /\ text' = text /\ Here(s, q + 1)'
      /\ lastChar' \notin More(s, q) => End(s, q) = q /\ Quiet(s, q + 1)
  BY <1>1, <1>2, <1>6, TokenReads
<1>9. End(s, q) = q /\ Quiet(s, q + 1)
  BY <1>7, <1>8
<1>10. Given(s)' /\ Located(s)'
  BY <1>1, <1>2, <1>5, <1>6, <1>8, <1>9, TokenLeaves
<1> QED BY <1>1, <1>8, <1>10, TextKept DEF LexerOK

-----------------------------------------------------------------------------
(* The theorems.                                                           *)

(* The lexer starts in front of the text.                                  *)
LEMMA LexerInitially == Init => LexerInv
<1> SUFFICES ASSUME Init PROVE LexerInv
  OBVIOUS
<1>1. PICK s : s = Visible
  OBVIOUS
<1>2. SeesText(s)
  BY <1>1, VisibleIsSeen DEF Init
<1>3. Len(s) \in Nat /\ Len(text) \in Nat
  BY <1>2, SequenceFacts DEF SeesText
<1>4. out = << >> /\ Len(out) = 0 /\ IsSequence(out)
  BY EmptyIsSequence DEF Init
<1>5. Given(s)
  <2>1. Len(Spans(s)) \in Nat
    BY <1>3, RestEnds
  <2> QED BY <1>4, <2>1 DEF Given
<1>6. AtStart
  <2>1. /\ IsSequence(curLineBuffer) /\ Len(curLineBuffer) = 1
        /\ curLineBuffer[1] = "nl" /\ current = 1
    BY TupleFacts DEF Init
  <2> DEFINE q == -1
  <2>2. q \in -1 .. Len(text) /\ q + 1 = 0 /\ q + 1 + 1 = 1 /\ 1 \in 1 .. Len(text) + 1
    BY <1>3
  <2> HIDE DEF q
  <2>3. current = q + 1 + Len(curLineBuffer) /\ current \in 1 .. Len(text) + 1
    BY <2>1, <2>2
  <2>4. \A n \in 1 .. Len(curLineBuffer) :
            curLineBuffer[n] = Char(q + n) /\ curLineBuffer[n] # "nul"
    <3>1. Char(q + 1) = "nl"
      BY <2>2 DEF Char
    <3> QED BY <2>1, <3>1
  <2>5. Buffered(q)
    BY <2>1, <2>2, <2>3, <2>4 DEF Buffered
  <2>6. Between /\ lastChar = " " /\ curLineNum = 0 /\ curCol = 0
    BY DEF Init, Between
  <2>7. Buffered(-1)
    BY <2>5 DEF q
  <2> QED BY <1>4, <2>1, <2>6, <2>7, Zenon DEF AtStart, Unread
<1> QED BY <1>1, <1>2, <1>5, <1>6, Zenon DEF LexerInv, LexerOK, Located

(* Every iteration keeps the invariant.                                    *)
LEMMA LexerKept == LexerInv /\ [Next]_vars => LexerInv'
<1> SUFFICES ASSUME LexerInv, [Next]_vars PROVE LexerInv'
  OBVIOUS
<1>1. PICK s : LexerOK(s)
  BY DEF LexerInv
<1>2. LexerOK(s)'
  <2>1. CASE GetNextToken
    BY <1>1, <2>1, CallKeeps
  <2>2. CASE SkipSpace
    BY <1>1, <2>2, SkipKeeps
  <2>3. CASE BeginIdentifier \/ BeginNumber \/ BeginComment
    BY <1>1, <2>3, BeginKeeps
  <2>4. CASE ReadIdentifier
    BY <1>1, <2>4, WordKeeps
  <2>5. CASE ReadNumber
    BY <1>1, <2>5, NumberKeeps
  <2>6. CASE ReadComment
    BY <1>1, <2>6, CommentKeeps
  <2>7. CASE ReturnEOF
    BY <1>1, <2>7, ReturnEOFKeeps
  <2>8. CASE ReturnCharacter
    BY <1>1, <2>8, ReturnCharacterKeeps
  <2>9. CASE UNCHANGED vars
    <3>1. UNCHANGED Reading /\ in' = in /\ out' = out /\ lastLocation' = lastLocation
          /\ identifierStr' = identifierStr /\ numStr' = numStr
      BY <2>9 DEF vars, Reading
    <3>2. /\ text' = text
          /\ Unread => Unread'
          /\ EndAt => EndAt'
          /\ \A q : Here(s, q) => Here(s, q)'
          /\ \A q : LexAt(s, q) => LexAt(s, q)'
      BY <3>1, PlaceKept
    <3>3. Given(s) => Given(s)'
      BY <3>1 DEF Given
    <3>4. Len(out)' = Len(out) /\ (Between => Between')
      BY <3>1 DEF Between
    <3>5. AtStart => AtStart'
      BY <3>2, <3>4 DEF AtStart
    <3>6. \A q : Waiting(s, q) => Waiting(s, q)'
      BY <3>2, <3>4, Zenon DEF Waiting
    <3>7. AtEnd(s) => AtEnd(s)'
      BY <3>2, <3>4 DEF AtEnd
    <3>8. \A i, p : Within(s, i, p) => Within(s, i, p)'
      BY <3>1, <3>2, <3>4, Zenon DEF Within
    <3>9. \A p : Commented(s, p) => Commented(s, p)'
      BY <3>1, <3>2, <3>4, Zenon DEF Commented
    <3>10. Located(s) => Located(s)'
      BY <3>5, <3>6, <3>7, <3>8, <3>9, Zenon DEF Located
    <3> QED BY <1>1, <3>2, <3>3, <3>10, TextKept DEF LexerOK
  <2> QED BY <2>1, <2>2, <2>3, <2>4, <2>5, <2>6, <2>7, <2>8, <2>9 DEF Next
<1> QED BY <1>2, Zenon DEF LexerInv

(* The invariant holds throughout.                                         *)
LEMMA LexerAlways == Spec => []LexerInv
BY LexerInitially, LexerKept, PTL DEF Spec

(* src/inc/Lexer.h, getTok: for every text the tokens returned are those   *)
(* of the longest match, each at its line and column, and the end comes    *)
(* after the last one and only there.                                      *)
THEOREM TokensAlwaysExact == Spec => []TokensExact
<1>1. LexerInv => TokensExact
  <2> SUFFICES ASSUME LexerInv PROVE TokensExact
    OBVIOUS
  <2>1. PICK s : s = Visible /\ SeesText(s) /\ Given(s)
    BY DEF LexerInv, LexerOK
  <2>2. DOMAIN out = 1 .. Len(out)
    BY <2>1, SequenceFacts DEF Given
  <2>3. Len(s) \in Nat /\ Len(Spans(s)) \in Nat /\ Len(out) \in Nat
    BY <2>1, SequenceFacts, RestEnds DEF SeesText, Given
  <2>4. ASSUME NEW n \in DOMAIN out
        PROVE  IF n > Len(Spans(s)) THEN out[n].tok = "eof"
               ELSE /\ out[n].tok = TokenAt(s, Spans(s)[n])
                    /\ out[n].location = Place(s, Spans(s)[n][1])
    <3>1. n \in 1 .. Len(out)
      BY <2>2
    <3>2. CASE n > Len(Spans(s))
      BY <2>1, <3>1, <3>2 DEF Given
    <3>3. CASE ~ n > Len(Spans(s))
      <4>1. n <= Len(Spans(s))
        BY <2>3, <3>1, <3>3
      <4> QED BY <2>1, <3>1, <3>3, <4>1 DEF Given, GoodToken
    <3> QED BY <3>2, <3>3
  <2>5. Len(out) <= Len(Spans(s)) + 1
    BY <2>1 DEF Given
  <2> QED BY <2>1, <2>4, <2>5, Zenon DEF TokensExact
<1> QED BY <1>1, LexerAlways, PTL

(* src/inc/Lexer.h:202-206: every identifier and every number is returned  *)
(* with its own text, whatever the lexer read before it.                   *)
THEOREM ValuesAlwaysFresh == Spec => []ValuesFresh
<1>1. LexerInv => ValuesFresh
  <2> SUFFICES ASSUME LexerInv PROVE ValuesFresh
    OBVIOUS
  <2>1. PICK s : s = Visible /\ SeesText(s) /\ Given(s)
    BY DEF LexerInv, LexerOK
  <2>2. DOMAIN out = 1 .. Len(out)
    BY <2>1, SequenceFacts DEF Given
  <2>3. ASSUME NEW n \in DOMAIN out, n <= Len(Spans(s))
        PROVE  LET word == SubSeq(s, Spans(s)[n][1], Spans(s)[n][2])
               IN  /\ word[1] \in Letters => out[n].id = word
                   /\ word[1] \in Digits => out[n].num = Strtod(word)
    BY <2>1, <2>2, <2>3, Zenon DEF Given, GoodToken, Word
  <2> QED BY <2>1, <2>3, Zenon DEF ValuesFresh
<1> QED BY <1>1, LexerAlways, PTL

(* The place of the lexer stays in the text, and the end is returned once. *)
THEOREM TypeCorrect == Spec => []TypeOK
<1>1. LexerInv => TypeOK
  <2> SUFFICES ASSUME LexerInv PROVE TypeOK
    OBVIOUS
  <2>1. PICK s : SeesText(s) /\ Given(s) /\ Located(s)
    BY DEF LexerInv, LexerOK
  <2>2. /\ Len(s) \in Nat /\ Len(text) \in Nat /\ Len(out) \in Nat
        /\ Len(s) <= Len(text) /\ Len(Spans(s)) \in 0 .. Len(s)
    BY <2>1, SequenceFacts, RestEnds DEF SeesText, Given
  <2>3. in \in {"idle", "skip", "identifier", "number", "comment"}
    BY <2>1, InWhich
  <2>4. Len(out) <= Len(text) + 1
    <3>1. Len(out) <= Len(Spans(s)) + 1
      BY <2>1 DEF Given
    <3> QED BY <2>2, <3>1
  <2>5. /\ current \in 1 .. Len(text) + 1 /\ Len(curLineBuffer) <= Len(text) + 1
        /\ curLineNum \in 0 .. Len(text) + 1 /\ curCol \in 0 .. Len(text)
    <3>1. CASE AtStart
      <4>1. Buffered(-1) /\ Len(curLineBuffer) = 1 /\ curLineNum = 0 /\ curCol = 0
        BY <3>1, Zenon DEF AtStart, Unread
      <4>2. current \in 1 .. Len(text) + 1
        BY <4>1, Zenon DEF Buffered
      <4>3. Len(curLineBuffer) <= Len(text) + 1 /\ 0 \in 0 .. Len(text) + 1 /\ 0 \in 0 .. Len(text)
        <5>1. Len(curLineBuffer) = 1
          BY <4>1
        <5> QED BY ONLY <2>2, <5>1
      <4> QED BY <4>1, <4>2, <4>3, Zenon
    <3>2. CASE \E q : Waiting(s, q)
      BY <2>1, <3>2, HereInText, Zenon DEF Waiting
    <3>3. CASE AtEnd(s)
      BY <3>3 DEF AtEnd, EndAt
    <3>4. ASSUME NEW p, p \in 1 .. Len(s), LexAt(s, p)
          PROVE  /\ current \in 1 .. Len(text) + 1 /\ Len(curLineBuffer) <= Len(text) + 1
                 /\ curLineNum \in 0 .. Len(text) + 1 /\ curCol \in 0 .. Len(text)
      <4>1. p \in 0 .. Len(s) + 1 /\ p <= Len(s)
        BY <2>2, <3>4
      <4>2. Here(s, p)
        BY <3>4, <4>1 DEF Here
      <4> QED BY <2>1, <4>1, <4>2, HereInText
    <3>5. CASE \E i, p : Within(s, i, p)
      <4>1. PICK i, p : Within(s, i, p)
        BY <3>5
      <4>2. LexAt(s, p) /\ i \in 1 .. Len(s) /\ p \in i .. Len(s)
        BY <4>1 DEF Within, Spelled
      <4>3. p \in 1 .. Len(s)
        BY <2>2, <4>2
      <4> QED BY <3>4, <4>2, <4>3
    <3>6. CASE \E p : Commented(s, p)
      BY <3>4, <3>6 DEF Commented
    <3> QED BY <2>1, <3>1, <3>2, <3>3, <3>5, <3>6 DEF Located
  <2> QED BY <2>3, <2>4, <2>5 DEF TypeOK
<1> QED BY <1>1, LexerAlways, PTL
=============================================================================
