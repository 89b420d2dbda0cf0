-------------------------- MODULE TextPiecesProofs ---------------------------
(***************************************************************************)
(* Proofs that the pieces for speech are the text.                         *)
(***************************************************************************)
EXTENDS TextPieces, Integers, TLAPS, WellFoundedInduction, SequenceTheorems

(***************************************************************************)
(* Induction over the numbers up to a bound, and what it defines.          *)
(***************************************************************************)
\* A set that has 0, and each number whose predecessor it has.
LEMMA Induction ==
  ASSUME NEW n \in Nat, NEW T, 0 \in T, \A i \in 1 .. n : i - 1 \in T => i \in T
  PROVE  \A i \in 0 .. n : i \in T
  <1> DEFINE S == {i \in 0 .. n : i \notin T}
  <1> SUFFICES ASSUME S # {} PROVE FALSE
    OBVIOUS
  <1>1. S \in SUBSET Nat
    OBVIOUS
  <1>2. PICK x \in S : \A y \in S : ~(<<y, x>> \in OpToRel(<, Nat))
    BY <1>1, NatLessThanWellFounded, WFMin
  <1>3. \A y \in S : ~(y < x)
    BY <1>1, <1>2 DEF OpToRel
  <1>4. x \in 1 .. n /\ x - 1 \in 0 .. n /\ x - 1 < x
    OBVIOUS
  <1>5. x - 1 \in T
    BY <1>3, <1>4
  <1> QED
    BY <1>4, <1>5

\* A first value and a step determine a sequence of values.
Iterates(f, n, base, step) == f[0] = base /\ \A i \in 1 .. n : f[i] = step[i][f[i - 1]]

LEMMA Recursion ==
  ASSUME NEW n \in Nat, NEW S, NEW base \in S, NEW step \in [1 .. n -> [S -> S]]
  PROVE  \E f \in [0 .. n -> S] : Iterates(f, n, base, step)
  <1> DEFINE Upto(m) == \E f \in [0 .. m -> S] : f[0] = base /\ \A i \in 1 .. m : f[i] = step[i][f[i - 1]]
             T == {m \in 0 .. n : Upto(m)}
  <1> HIDE DEF Upto
  <1>1. 0 \in T
    <2> DEFINE f == [i \in 0 .. 0 |-> base]
    <2>1. f \in [0 .. 0 -> S] /\ f[0] = base /\ 1 .. 0 = {}
      OBVIOUS
    <2> HIDE DEF f
    <2>2. Upto(0)
      BY <2>1 DEF Upto
    <2> QED
      BY <2>2
  <1>2. ASSUME NEW m \in 1 .. n, m - 1 \in T PROVE m \in T
    <2>1. PICK f \in [0 .. m - 1 -> S] : f[0] = base /\ \A i \in 1 .. m - 1 : f[i] = step[i][f[i - 1]]
      BY <1>2 DEF Upto
    <2>2. f[m - 1] \in S /\ m \in Nat /\ m - 1 \in 0 .. m - 1
      OBVIOUS
    <2> DEFINE g == [i \in 0 .. m |-> IF i = m THEN step[m][f[m - 1]] ELSE f[i]]
    <2>3. g \in [0 .. m -> S]
      BY <2>2
    <2>4. g[0] = base /\ \A i \in 1 .. m : g[i] = step[i][g[i - 1]]
      BY <2>1, <2>2
    <2> HIDE DEF g
    <2>5. Upto(m)
      BY <2>3, <2>4 DEF Upto
    <2> QED
      BY <2>5
  <1> HIDE DEF T
  <1>3. \A i \in 0 .. n : i \in T
    BY <1>1, <1>2, Induction
  <1> QED
    BY <1>3 DEF T, Upto, Iterates

LEMMA ConcatAppend ==
  ASSUME NEW S, NEW s \in Seq(S), NEW t \in Seq(S), NEW e \in S
  PROVE  s \o Append(t, e) = Append(s \o t, e)
  <1>1. Append(t, e) = t \o <<e>> /\ Append(s \o t, e) = (s \o t) \o <<e>>
    BY AppendIsConcat, ConcatProperties
  <1>2. <<e>> \in Seq(S)
    OBVIOUS
  <1> QED
    BY <1>1, <1>2, ConcatAssociative

(***************************************************************************)
(* Only.                                                                   *)
(***************************************************************************)
\* What the recursive function of Only is, character by character.
OnlyUpto(f, s, kinds) ==
  /\ f[0] = <<>>
  /\ \A i \in 1 .. Len(s) : f[i] = IF s[i] \in kinds THEN Append(f[i - 1], s[i]) ELSE f[i - 1]

LEMMA OnlyIs ==
  ASSUME NEW S, NEW s \in Seq(S), NEW kinds
  PROVE  \E f \in [0 .. Len(s) -> Seq(S)] : OnlyUpto(f, s, kinds) /\ Only(s, kinds) = f[Len(s)]
  <1> DEFINE n == Len(s)
             Value(h, i) == IF i = 0 THEN <<>>
                            ELSE IF s[i] \in kinds THEN Append(h[i - 1], s[i]) ELSE h[i - 1]
             Is(h) == h = [i \in 0 .. n |-> Value(h, i)]
             step == [i \in 1 .. n |-> [x \in Seq(S) |-> IF s[i] \in kinds THEN Append(x, s[i]) ELSE x]]
  <1>1. n \in Nat /\ <<>> \in Seq(S) /\ \A i \in 1 .. n : s[i] \in S
    OBVIOUS
  <1>2. step \in [1 .. n -> [Seq(S) -> Seq(S)]]
    BY <1>1
  <1> HIDE DEF step, n
  <1>3. PICK f \in [0 .. n -> Seq(S)] : Iterates(f, n, <<>>, step)
    BY <1>1, <1>2, Recursion
  <1>4. /\ f[0] = <<>>
        /\ \A i \in 1 .. n : f[i] = IF s[i] \in kinds THEN Append(f[i - 1], s[i]) ELSE f[i - 1]
    <2>1. f[0] = <<>> /\ \A i \in 1 .. n : f[i] = step[i][f[i - 1]] /\ f[i - 1] \in Seq(S)
      BY <1>1, <1>3 DEF Iterates
    <2> QED
      BY <1>1, <2>1 DEF step
  <1>a. \A i \in 0 .. n : i = 0 \/ i \in 1 .. n
    BY <1>1
  <1>b. \A i \in 0 .. n : f[i] = Value(f, i)
    BY <1>4, <1>a
  <1>5. Is(f)
    <2> HIDE DEF Value
    <2> QED
      BY <1>b, <1>3
  <1> DEFINE h == CHOOSE g : Is(g)
  <1>6. Is(h)
    <2> HIDE DEF Is
    <2> QED
      BY <1>5
  <1>7. Only(s, kinds) = h[n]
    BY DEF Only, n
  <1> HIDE DEF h
  <1>8. \A i \in 0 .. n : h[i] = Value(h, i)
    <2> HIDE DEF Value
    <2> QED
      BY <1>6
  <1> DEFINE T == {i \in 0 .. n : h[i] = f[i]}
  <1>9. \A i \in 0 .. n : i \in T
    <2>1. 0 \in T
      BY <1>1, <1>b, <1>8
    <2>2. ASSUME NEW i \in 1 .. n, i - 1 \in T PROVE i \in T
      <3>1. i \in 0 .. n /\ i # 0 /\ h[i - 1] = f[i - 1]
        BY <1>1, <2>2
      <3> QED
        BY <1>b, <1>8, <3>1
    <2> HIDE DEF T
    <2> QED
      BY <1>1, <2>1, <2>2, Induction
  <1>10. h[n] = f[n]
    BY <1>1, <1>9
  <1> QED
    BY <1>1, <1>3, <1>4, <1>7, <1>10 DEF OnlyUpto, n

LEMMA OnlyConcat ==
  ASSUME NEW S, NEW s \in Seq(S), NEW t \in Seq(S), NEW kinds
  PROVE  Only(s \o t, kinds) = Only(s, kinds) \o Only(t, kinds)
  <1> DEFINE a == s \o t
             m == Len(s)
             n == Len(t)
  <1>1. /\ a \in Seq(S) /\ m \in Nat /\ n \in Nat /\ Len(a) = m + n
        /\ \A i \in 1 .. m : a[i] = s[i]
        /\ \A i \in 1 .. n : a[m + i] = t[i]
    OBVIOUS
  <1> HIDE DEF a
  <1>a. a \in Seq(S)
    BY <1>1
  <1>2. PICK f \in [0 .. Len(a) -> Seq(S)] : OnlyUpto(f, a, kinds) /\ Only(a, kinds) = f[Len(a)]
    BY <1>a, OnlyIs
  <1>3. PICK g \in [0 .. m -> Seq(S)] : OnlyUpto(g, s, kinds) /\ Only(s, kinds) = g[m]
    BY OnlyIs
  <1>4. PICK h \in [0 .. n -> Seq(S)] : OnlyUpto(h, t, kinds) /\ Only(t, kinds) = h[n]
    BY OnlyIs
  <1> HIDE DEF m, n
  <1>5. f[m] = g[m]
    <2> DEFINE T == {i \in 0 .. m : f[i] = g[i]}
    <2>1. 0 \in T
      BY <1>1, <1>2, <1>3 DEF OnlyUpto
    <2>2. ASSUME NEW i \in 1 .. m, i - 1 \in T PROVE i \in T
      <3>1. i \in 1 .. Len(a) /\ a[i] = s[i]
        BY <1>1
      <3> QED
        <4>1. /\ f[i] = IF s[i] \in kinds THEN Append(f[i - 1], s[i]) ELSE f[i - 1]
              /\ g[i] = IF s[i] \in kinds THEN Append(g[i - 1], s[i]) ELSE g[i - 1]
          BY <1>2, <1>3, <3>1 DEF OnlyUpto, m
        <4>2. f[i - 1] = g[i - 1] /\ i \in 0 .. m
          BY <1>1, <2>2
        <4>3. f[i] = g[i]
          <5> HIDE DEF T
          <5> QED
            BY <1>1, <3>1, <4>1, <4>2
        <4> QED
          BY <4>2, <4>3
    <2> HIDE DEF T
    <2>3. \A i \in 0 .. m : i \in T
      BY <1>1, <2>1, <2>2, Induction
    <2> QED
      BY <1>1, <2>3 DEF T
  <1> DEFINE U == {i \in 0 .. n : f[m + i] = g[m] \o h[i]}
  <1>6. 0 \in U
    <2>1. h[0] = <<>> /\ m + 0 = m /\ g[m] \in Seq(S)
      <3>1. m \in 0 .. m /\ m + 0 = m
        BY <1>1
      <3>2. g[m] \in Seq(S)
        BY <3>1
      <3>3. h[0] = <<>>
        BY <1>4 DEF OnlyUpto
      <3> QED
        BY <3>1, <3>2, <3>3
    <2>2. g[m] \o <<>> = g[m]
      BY <2>1
    <2>3. f[m + 0] = g[m] \o h[0] /\ 0 \in 0 .. n
      BY <1>1, <1>5, <2>1, <2>2
    <2> QED
      BY <2>3
  <1>b. \A x, y \in Seq(S), e \in S : x \o Append(y, e) = Append(x \o y, e)
    BY ConcatAppend
  <1>7. ASSUME NEW i \in 1 .. n, i - 1 \in U PROVE i \in U
    <2>1. m + i \in 1 .. Len(a) /\ a[m + i] = t[i] /\ (m + i) - 1 = m + (i - 1)
      BY <1>1
    <2>2. f[m + i] = IF t[i] \in kinds THEN Append(f[m + (i - 1)], t[i]) ELSE f[m + (i - 1)]
      BY <1>2, <2>1 DEF OnlyUpto
    <2>3. h[i] = IF t[i] \in kinds THEN Append(h[i - 1], t[i]) ELSE h[i - 1]
      BY <1>4 DEF OnlyUpto, n
    <2>a. i - 1 \in 0 .. n /\ m \in 0 .. m /\ i \in 0 .. n
      BY <1>1
    <2>4. g[m] \in Seq(S) /\ h[i - 1] \in Seq(S)
      BY <1>3, <1>4, <2>a
    <2>b. t[i] \in S
      BY DEF n
    <2>5. g[m] \o Append(h[i - 1], t[i]) = Append(g[m] \o h[i - 1], t[i])
      BY <2>4, <2>b, <1>b
    <2>6. f[m + (i - 1)] = g[m] \o h[i - 1]
      BY <1>7
    <2>7. f[m + i] = g[m] \o h[i]
      BY <2>2, <2>3, <2>5, <2>6
    <2> QED
      BY <2>7, <2>a
  <1> HIDE DEF U
  <1>8. \A i \in 0 .. n : i \in U
    BY <1>1, <1>6, <1>7, Induction
  <1>9. f[m + n] = g[m] \o h[n]
    <2>1. n \in 0 .. n
      BY <1>1
    <2>2. n \in U
      BY <1>8, <2>1
    <2> QED
      BY <2>2 DEF U
  <1> QED
    BY <1>1, <1>2, <1>3, <1>4, <1>9 DEF a

\* Of no character, and of one.
LEMMA OnlyOne ==
  ASSUME NEW S, NEW kinds
  PROVE  /\ Only(<<>>, kinds) = <<>>
         /\ \A e \in S : Only(<<e>>, kinds) = IF e \in kinds THEN <<e>> ELSE <<>>
  <1>1. <<>> \in Seq(S) /\ Len(<<>>) = 0
    OBVIOUS
  <1>2. PICK f \in [0 .. Len(<<>>) -> Seq(S)] : OnlyUpto(f, <<>>, kinds) /\ Only(<<>>, kinds) = f[Len(<<>>)]
    BY <1>1, OnlyIs
  <1>3. Only(<<>>, kinds) = <<>>
    BY <1>1, <1>2 DEF OnlyUpto
  <1>4. ASSUME NEW e \in S PROVE Only(<<e>>, kinds) = IF e \in kinds THEN <<e>> ELSE <<>>
    <2> DEFINE s == <<e>>
    <2>1. s \in Seq(S) /\ Len(s) = 1 /\ s[1] = e /\ Append(<<>>, e) = <<e>>
      OBVIOUS
    <2> HIDE DEF s
    <2>2. PICK g \in [0 .. Len(s) -> Seq(S)] : OnlyUpto(g, s, kinds) /\ Only(s, kinds) = g[Len(s)]
      BY <2>1, OnlyIs
    <2>3. g[1] = IF s[1] \in kinds THEN Append(g[1 - 1], s[1]) ELSE g[1 - 1]
      BY <2>1, <2>2 DEF OnlyUpto
    <2>4. g[0] = <<>>
      BY <2>2 DEF OnlyUpto
    <2> QED
      BY <2>1, <2>2, <2>3, <2>4 DEF s
  <1> QED
    BY <1>3, <1>4

\* Its type; it is no longer than the text.
LEMMA OnlyType ==
  ASSUME NEW S, NEW s \in Seq(S), NEW kinds
  PROVE  Only(s, kinds) \in Seq(S) /\ Len(Only(s, kinds)) <= Len(s)
  <1>1. PICK f \in [0 .. Len(s) -> Seq(S)] : OnlyUpto(f, s, kinds) /\ Only(s, kinds) = f[Len(s)]
    BY OnlyIs
  <1> DEFINE T == {i \in 0 .. Len(s) : Len(f[i]) <= i}
  <1>2. 0 \in T
    BY <1>1 DEF OnlyUpto
  <1>3. ASSUME NEW i \in 1 .. Len(s), i - 1 \in T PROVE i \in T
    <2>1. f[i - 1] \in Seq(S) /\ s[i] \in S
      OBVIOUS
    <2>2. Len(Append(f[i - 1], s[i])) = Len(f[i - 1]) + 1 /\ Len(f[i - 1]) \in Nat
      BY <2>1
    <2>3. f[i] \in {f[i - 1], Append(f[i - 1], s[i])}
      BY <1>1 DEF OnlyUpto
    <2> QED
      BY <1>3, <2>2, <2>3
  <1>4. Len(s) \in Nat
    OBVIOUS
  <1> HIDE DEF T
  <1>5. \A i \in 0 .. Len(s) : i \in T
    BY <1>2, <1>3, <1>4, Induction
  <1> QED
    BY <1>1, <1>4, <1>5 DEF T

(***************************************************************************)
(* FlattenSeq.                                                             *)
(***************************************************************************)
FlattenUpto(f, x) == f[0] = <<>> /\ \A i \in 1 .. Len(x) : f[i] = f[i - 1] \o x[i]

LEMMA FlattenIs ==
  ASSUME NEW S, NEW x \in Seq(Seq(S))
  PROVE  \E f \in [0 .. Len(x) -> Seq(S)] : FlattenUpto(f, x) /\ FlattenSeq(x) = f[Len(x)]
  <1> DEFINE n == Len(x)
             Value(h, i) == IF i = 1 THEN x[i] ELSE h[i - 1] \o x[i]
             Is(h) == h = [i \in 1 .. n |-> Value(h, i)]
             step == [i \in 1 .. n |-> [y \in Seq(S) |-> y \o x[i]]]
  <1>1. n \in Nat /\ <<>> \in Seq(S) /\ \A i \in 1 .. n : x[i] \in Seq(S)
    OBVIOUS
  <1>2. step \in [1 .. n -> [Seq(S) -> Seq(S)]]
    <2>1. \A y, z \in Seq(S) : y \o z \in Seq(S)
      OBVIOUS
    <2> QED
      BY <1>1, <2>1
  <1> HIDE DEF step, n
  <1>3. PICK f \in [0 .. n -> Seq(S)] : Iterates(f, n, <<>>, step)
    BY <1>1, <1>2, Recursion
  <1>4. f[0] = <<>> /\ \A i \in 1 .. n : f[i] = f[i - 1] \o x[i]
    <2>1. f[0] = <<>> /\ \A i \in 1 .. n : f[i] = step[i][f[i - 1]] /\ f[i - 1] \in Seq(S)
      BY <1>1, <1>3 DEF Iterates
    <2> QED
      BY <1>1, <2>1 DEF step
  <1>5. FlattenUpto(f, x)
    BY <1>4 DEF FlattenUpto, n
  <1>6. CASE n = 0
    <2>1. x = <<>>
      BY <1>6 DEF n
    <2>2. FlattenSeq(x) = <<>>
      BY <2>1, <1>6 DEF FlattenSeq, n
    <2> QED
      BY <1>3, <1>4, <1>5, <1>6, <2>2 DEF n
  <1>7. CASE n # 0
    <2>1. 1 \in 1 .. n /\ \A i \in 1 .. n : i = 1 \/ (i - 1 \in 1 .. n)
      BY <1>1, <1>7
    <2>2. \A i \in 1 .. n : f[i] = Value(f, i)
      <3>0. f[1] = f[1 - 1] \o x[1]
        BY <1>4, <2>1, Zenon
      <3>1. 1 - 1 = 0
        OBVIOUS
      <3>1a. f[1] = <<>> \o x[1]
        BY <1>4, <3>0, <3>1
      <3>2. f[1] = x[1]
        BY <1>1, <2>1, <3>1a
      <3> QED
        BY <1>4, <3>2
    <2> DEFINE f1 == [i \in 1 .. n |-> f[i]]
    <2>3. Is(f1)
      <3>1. \A i \in 1 .. n : Value(f, i) = Value(f1, i)
        BY <2>1
      <3> HIDE DEF Value
      <3> QED
        BY <2>2, <3>1
    <2> DEFINE h == CHOOSE g : Is(g)
    <2>4. Is(h)
      <3> HIDE DEF Is, f1
      <3> QED
        BY <2>3
    <2>5. FlattenSeq(x) = h[n]
      BY <1>7 DEF FlattenSeq, n
    <2> HIDE DEF h
    <2>6. \A i \in 1 .. n : h[i] = Value(h, i)
      <3> HIDE DEF Value
      <3> QED
        BY <2>4
    <2> DEFINE T == {i \in 0 .. n : i # 0 => h[i] = f[i]}
    <2>7. \A i \in 0 .. n : i \in T
      <3>1. 0 \in T
        BY <1>1
      <3>2. ASSUME NEW i \in 1 .. n, i - 1 \in T PROVE i \in T
        BY <2>1, <2>2, <2>6, <3>2
      <3> HIDE DEF T
      <3> QED
        BY <1>1, <3>1, <3>2, Induction
    <2>8. h[n] = f[n]
      BY <1>1, <1>7, <2>7
    <2> QED
      BY <1>3, <1>5, <2>5, <2>8 DEF n
  <1> QED
    BY <1>6, <1>7

LEMMA FlattenType ==
  ASSUME NEW S, NEW x \in Seq(Seq(S)) PROVE FlattenSeq(x) \in Seq(S)
  BY FlattenIs

Associates(S) == \A p, q, r \in Seq(S) : (p \o q) \o r = p \o (q \o r)

LEMMA Associative ==
  ASSUME NEW S PROVE Associates(S)
  <1> SUFFICES ASSUME NEW p \in Seq(S), NEW q \in Seq(S), NEW r \in Seq(S)
               PROVE  (p \o q) \o r = p \o (q \o r)
    BY DEF Associates
  <1> DEFINE left  == (p \o q) \o r
             right == p \o (q \o r)
  <1>1. left \in Seq(S) /\ right \in Seq(S) /\ Len(left) = Len(right)
    OBVIOUS
  <1>2. \A i \in 1 .. Len(left) : left[i] = right[i]
    OBVIOUS
  <1> HIDE DEF left, right
  <1>3. left = right
    BY <1>1, <1>2, SeqEqual
  <1> QED
    BY <1>3 DEF left, right

LEMMA FlattenConcat ==
  ASSUME NEW S, NEW x \in Seq(Seq(S)), NEW y \in Seq(Seq(S))
  PROVE  FlattenSeq(x \o y) = FlattenSeq(x) \o FlattenSeq(y)
  <1>b. \A p, q, r \in Seq(S) : (p \o q) \o r = p \o (q \o r)
    <2>1. Associates(S)
      BY Associative
    <2> QED
      BY <2>1 DEF Associates
  <1> DEFINE a == x \o y
             m == Len(x)
             n == Len(y)
  <1>1. /\ a \in Seq(Seq(S)) /\ m \in Nat /\ n \in Nat /\ Len(a) = m + n
        /\ \A i \in 1 .. m : a[i] = x[i]
        /\ \A i \in 1 .. n : a[m + i] = y[i] /\ y[i] \in Seq(S)
    OBVIOUS
  <1> HIDE DEF a
  <1>a. a \in Seq(Seq(S))
    BY <1>1
  <1>2. PICK f \in [0 .. Len(a) -> Seq(S)] : FlattenUpto(f, a) /\ FlattenSeq(a) = f[Len(a)]
    BY <1>a, FlattenIs
  <1>3. PICK g \in [0 .. m -> Seq(S)] : FlattenUpto(g, x) /\ FlattenSeq(x) = g[m]
    BY FlattenIs
  <1>4. PICK h \in [0 .. n -> Seq(S)] : FlattenUpto(h, y) /\ FlattenSeq(y) = h[n]
    BY FlattenIs
  <1> HIDE DEF m, n
  <1>c. m \in Nat /\ n \in Nat
    BY <1>1
  <1>5. f[m] = g[m]
    <2> DEFINE T == {i \in 0 .. m : f[i] = g[i]}
    <2>1. 0 \in T
      BY <1>1, <1>2, <1>3 DEF FlattenUpto
    <2>2. ASSUME NEW i \in 1 .. m, i - 1 \in T PROVE i \in T
      <3>1. i \in 1 .. Len(a) /\ a[i] = x[i]
        BY <1>1
      <3>2. f[i] = f[i - 1] \o a[i] /\ g[i] = g[i - 1] \o x[i]
        BY <1>2, <1>3, <3>1 DEF FlattenUpto, m
      <3>3. f[i - 1] = g[i - 1]
        BY <2>2
      <3>4. f[i] = g[i] /\ i \in 0 .. m
        BY <1>c, <3>1, <3>2, <3>3
      <3> QED
        BY <3>4
    <2> HIDE DEF T
    <2>3. \A i \in 0 .. m : i \in T
      BY <1>1, <2>1, <2>2, Induction
    <2> QED
      BY <1>1, <2>3 DEF T
  <1> DEFINE U == {i \in 0 .. n : f[m + i] = g[m] \o h[i]}
  <1>6. 0 \in U
    <2>1. h[0] = <<>> /\ m + 0 = m /\ g[m] \in Seq(S)
      <3>1. m \in 0 .. m /\ m + 0 = m
        BY <1>1
      <3>2. g[m] \in Seq(S)
        BY <3>1
      <3>3. h[0] = <<>>
        BY <1>4 DEF FlattenUpto
      <3> QED
        BY <3>1, <3>2, <3>3
    <2>2. g[m] \o <<>> = g[m]
      BY <2>1
    <2>3. f[m + 0] = g[m] \o h[0] /\ 0 \in 0 .. n
      BY <1>1, <1>5, <2>1, <2>2
    <2> QED
      BY <2>3, Zenon
  <1>7. ASSUME NEW i \in 1 .. n, i - 1 \in U PROVE i \in U
    <2>1. m + i \in 1 .. Len(a) /\ a[m + i] = y[i] /\ (m + i) - 1 = m + (i - 1)
      BY <1>1
    <2>2. f[m + i] = f[m + (i - 1)] \o y[i]
      BY <1>2, <2>1 DEF FlattenUpto
    <2>3. h[i] = h[i - 1] \o y[i]
      BY <1>4 DEF FlattenUpto, n
    <2>a. i - 1 \in 0 .. n /\ m \in 0 .. m /\ i \in 0 .. n
      BY <1>1
    <2>4. g[m] \in Seq(S) /\ h[i - 1] \in Seq(S)
      BY <1>3, <1>4, <2>a
    <2>b. y[i] \in Seq(S)
      BY <1>1
    <2>5. g[m] \o (h[i - 1] \o y[i]) = (g[m] \o h[i - 1]) \o y[i]
      BY <2>4, <2>b, <1>b
    <2>6. f[m + (i - 1)] = g[m] \o h[i - 1]
      BY <1>7
    <2>7. f[m + i] = g[m] \o h[i]
      BY <2>2, <2>3, <2>5, <2>6
    <2> QED
      BY <2>7, <2>a
  <1> HIDE DEF U
  <1>8. \A i \in 0 .. n : i \in U
    BY <1>c, <1>6, <1>7, Induction
  <1>9. f[m + n] = g[m] \o h[n]
    <2>1. n \in U
      BY <1>c, <1>8
    <2> QED
      BY <2>1 DEF U
  <1> QED
    BY <1>1, <1>2, <1>3, <1>4, <1>9 DEF a

\* Of no part, and of one.
LEMMA FlattenOne ==
  ASSUME NEW S
  PROVE  FlattenSeq(<<>>) = <<>> /\ \A p \in Seq(S) : FlattenSeq(<<p>>) = p
  <1>1. FlattenSeq(<<>>) = <<>>
    BY DEF FlattenSeq
  <1>2. ASSUME NEW p \in Seq(S) PROVE FlattenSeq(<<p>>) = p
    <2> DEFINE x == <<p>>
    <2>1. x \in Seq(Seq(S)) /\ Len(x) = 1 /\ x[1] = p
      OBVIOUS
    <2> HIDE DEF x
    <2>2. PICK f \in [0 .. Len(x) -> Seq(S)] : FlattenUpto(f, x) /\ FlattenSeq(x) = f[Len(x)]
      BY <2>1, FlattenIs
    <2>3. f[0] = <<>> /\ f[1] = f[1 - 1] \o x[1]
      BY <2>1, <2>2 DEF FlattenUpto
    <2>4. f[1] = <<>> \o p
      BY <2>1, <2>3
    <2>5. <<>> \o p = p
      BY ConcatEmptySeq
    <2> QED
      BY <2>1, <2>2, <2>4, <2>5 DEF x
  <1> QED
    BY <1>1, <1>2

(***************************************************************************)
(* The characters of some kinds in parts of a text.                        *)
(***************************************************************************)
Of(ps, kinds) == Only(FlattenSeq(ps), kinds)

\* The kinds of two rows of parts.
LEMMA OfConcat ==
  ASSUME NEW S, NEW kinds, NEW ps \in Seq(Seq(S)), NEW qs \in Seq(Seq(S))
  PROVE  Of(ps \o qs, kinds) = Of(ps, kinds) \o Of(qs, kinds)
  <1>1. FlattenSeq(ps) \in Seq(S) /\ FlattenSeq(qs) \in Seq(S)
    BY FlattenType
  <1>2. Only(FlattenSeq(ps) \o FlattenSeq(qs), kinds) = Only(FlattenSeq(ps), kinds) \o Only(FlattenSeq(qs), kinds)
    BY <1>1, OnlyConcat
  <1>3. FlattenSeq(ps \o qs) = FlattenSeq(ps) \o FlattenSeq(qs)
    BY FlattenConcat
  <1> QED
    BY <1>2, <1>3 DEF Of

LEMMA OfParts ==
  ASSUME NEW S, NEW kinds
  PROVE  /\ Of(<<>>, kinds) = <<>>
         /\ \A p \in Seq(S) : Of(<<p>>, kinds) = Only(p, kinds)
         /\ \A ps, qs \in Seq(Seq(S)) : Of(ps \o qs, kinds) = Of(ps, kinds) \o Of(qs, kinds)
         /\ \A ps \in Seq(Seq(S)) : Of(ps, kinds) \in Seq(S)
         /\ \A ps \in Seq(Seq(S)), p \in Seq(S) :
               Of(Append(ps, p), kinds) = Of(ps, kinds) \o Only(p, kinds)
  <1>1. Of(<<>>, kinds) = <<>>
    BY OnlyOne, FlattenOne DEF Of
  <1>2. \A p \in Seq(S) : Of(<<p>>, kinds) = Only(p, kinds)
    BY FlattenOne DEF Of
  <1>3. \A ps, qs \in Seq(Seq(S)) : Of(ps \o qs, kinds) = Of(ps, kinds) \o Of(qs, kinds)
    BY OfConcat
  <1>4. \A ps \in Seq(Seq(S)) : Of(ps, kinds) \in Seq(S)
    BY FlattenType, OnlyType DEF Of
  <1>5. ASSUME NEW ps \in Seq(Seq(S)), NEW p \in Seq(S)
        PROVE  Of(Append(ps, p), kinds) = Of(ps, kinds) \o Only(p, kinds)
    <2>1. Append(ps, p) = ps \o <<p>> /\ <<p>> \in Seq(Seq(S))
      OBVIOUS
    <2> QED
      BY <1>2, <1>3, <2>1
  <1> QED
    BY <1>1, <1>2, <1>3, <1>4, <1>5

\* One part more.
Appends(S, kinds) ==
  \A ps \in Seq(Seq(S)), p \in Seq(S) : Of(Append(ps, p), kinds) = Of(ps, kinds) \o Only(p, kinds)

LEMMA OfAppend ==
  ASSUME NEW S, NEW kinds PROVE Appends(S, kinds)
  <1> SUFFICES ASSUME NEW ps \in Seq(Seq(S)), NEW p \in Seq(S)
               PROVE  Of(Append(ps, p), kinds) = Of(ps, kinds) \o Only(p, kinds)
    BY DEF Appends
  <1> DEFINE one == <<p>>
  <1>a. one \in Seq(Seq(S))
    OBVIOUS
  <1> HIDE DEF one
  <1>b. Of(ps \o one, kinds) = Of(ps, kinds) \o Of(one, kinds)
    BY <1>a, OfConcat
  <1>1. Of(ps \o <<p>>, kinds) = Of(ps, kinds) \o Of(<<p>>, kinds)
    BY <1>b DEF one
  <1>2. Of(<<p>>, kinds) = Only(p, kinds)
    <2>1. FlattenSeq(<<p>>) = p
      BY FlattenOne
    <2> QED
      BY <2>1 DEF Of
  <1>3. Append(ps, p) = ps \o <<p>>
    BY AppendIsConcat
  <1> QED
    BY <1>1, <1>2, <1>3

\* The last part and what is before it.
LEMMA OfLast ==
  ASSUME NEW S, NEW ps \in Seq(Seq(S)), ps # <<>>, NEW kinds
  PROVE  /\ Front(ps) \in Seq(Seq(S)) /\ Last(ps) \in Seq(S) /\ ps = Append(Front(ps), Last(ps))
         /\ Of(ps, kinds) = Of(Front(ps), kinds) \o Only(Last(ps), kinds)
         /\ \A i \in 1 .. Len(ps) - 1 : Front(ps)[i] = ps[i]
         /\ Len(Front(ps)) = Len(ps) - 1
  <1> DEFINE n == Len(ps)
             q == SubSeq(ps, 1, n - 1)
  <1>1. n \in Nat \ {0} /\ n - 1 \in Int /\ 1 <= n /\ ps[n] \in Seq(S)
        /\ \A i \in 1 .. n - 1 : ps[i] \in Seq(S)
    OBVIOUS
  <1>2. /\ q \in Seq(Seq(S)) /\ Len(q) = IF 1 <= n - 1 THEN (n - 1) - 1 + 1 ELSE 0
        /\ \A i \in 1 .. (n - 1) - 1 + 1 : q[i] = ps[1 + i - 1]
    <2> HIDE DEF n
    <2> QED
      BY <1>1, SubSeqProperties
  <1>3. Len(q) = n - 1 /\ \A i \in 1 .. n - 1 : q[i] = ps[i]
    <2> HIDE DEF n, q
    <2> QED
      BY <1>1, <1>2
  <1>4. ps = Append(q, ps[n])
    <2> DEFINE r == Append(q, ps[n])
    <2>1. /\ r \in Seq(Seq(S)) /\ Len(r) = Len(q) + 1 /\ r[Len(q) + 1] = ps[n]
          /\ \A i \in 1 .. Len(q) : r[i] = q[i]
      <3> HIDE DEF q, n
      <3> QED
        BY <1>1, <1>2
    <2>2. Len(r) = n /\ \A i \in 1 .. n : r[i] = ps[i]
      <3> HIDE DEF q, n, r
      <3> QED
        BY <1>1, <1>3, <2>1
    <2>3. Len(ps) = n
      OBVIOUS
    <2> HIDE DEF q, n, r
    <2>4. r \in Seq(Seq(S)) /\ Len(ps) = Len(r) /\ \A i \in 1 .. Len(ps) : ps[i] = r[i]
      BY <2>1, <2>2, <2>3
    <2>5. ps = r
      BY <2>4, SeqEqual
    <2> QED
      BY <2>5 DEF r
  <1>5. Of(Append(q, ps[n]), kinds) = Of(q, kinds) \o Only(ps[n], kinds)
    <2>a. Appends(S, kinds)
      BY OfAppend
    <2>1. \A x \in Seq(Seq(S)), p \in Seq(S) : Of(Append(x, p), kinds) = Of(x, kinds) \o Only(p, kinds)
      BY <2>a DEF Appends
    <2> HIDE DEF q, n
    <2> QED
      BY <1>1, <1>2, <2>1
  <1> QED
    BY <1>1, <1>2, <1>3, <1>4, <1>5 DEF Front, Last

(***************************************************************************)
(* Folds.  FoldLeft is a function on the sets of positions.                *)
(***************************************************************************)
\* The greatest position of a set, and the least.
LEMMA MaxIs ==
  ASSUME NEW n \in Nat, NEW T \in SUBSET (1 .. n), T # {}
  PROVE  Max(T) \in T /\ \A y \in T : Max(T) >= y
  <1> DEFINE U == {k \in 0 .. n : n - k \in T}
  <1>1. U \in SUBSET Nat /\ U # {}
    <2>1. PICK t \in T : TRUE
      OBVIOUS
    <2>2. n - t \in U
      OBVIOUS
    <2>3. U \in SUBSET Nat
      OBVIOUS
    <2> HIDE DEF U
    <2> QED
      BY <2>2, <2>3
  <1>2. PICK x \in U : \A y \in U : ~(<<y, x>> \in OpToRel(<, Nat))
    <2> HIDE DEF U
    <2> QED
      BY <1>1, NatLessThanWellFounded, WFMin
  <1>3. \A y \in U : ~(y < x)
    BY <1>1, <1>2 DEF OpToRel
  <1> DEFINE t == n - x
  <1>4. t \in T /\ x = n - t /\ x \in 0 .. n
    OBVIOUS
  <1>5. ASSUME NEW y \in T PROVE t >= y
    <2>1. n - y \in U
      OBVIOUS
    <2>2. ~(n - y < x)
      BY <1>3, <2>1
    <2> QED
      BY <1>4, <2>2
  <1> HIDE DEF U, t
  <1>6. t \in T /\ \A y \in T : t >= y
    BY <1>4, <1>5
  <1> QED
    BY <1>6 DEF Max

LEMMA MinIs ==
  ASSUME NEW n \in Nat, NEW T \in SUBSET (1 .. n), T # {}
  PROVE  Min(T) \in T /\ \A y \in T : Min(T) <= y
  <1>1. T \in SUBSET Nat
    OBVIOUS
  <1>2. PICK x \in T : \A y \in T : ~(<<y, x>> \in OpToRel(<, Nat))
    BY <1>1, NatLessThanWellFounded, WFMin
  <1>3. \A y \in T : ~(y < x)
    BY <1>1, <1>2 DEF OpToRel
  <1>4. \A y \in T : x <= y
    BY <1>3
  <1> QED
    BY <1>4 DEF Min

LEMMA MaxUpto ==
  ASSUME NEW n \in Nat, NEW i \in 1 .. n
  PROVE  Max(1 .. i) = i /\ (1 .. i) \ {i} = 1 .. i - 1 /\ 1 .. i \in SUBSET (1 .. n) /\ 1 .. i # {}
  <1>1. 1 .. i \in SUBSET (1 .. n) /\ i \in 1 .. i
    OBVIOUS
  <1>2. Max(1 .. i) \in 1 .. i /\ Max(1 .. i) >= i
    BY <1>1, MaxIs
  <1> QED
    BY <1>1, <1>2

\* What a fold over some of the positions is.
Folds(h, n, base, step) ==
  h[{}] = base /\ \A T \in SUBSET (1 .. n) : T # {} => h[T] = step[Max(T)][h[T \ {Max(T)}]]

LEMMA Subsets ==
  ASSUME NEW n \in Nat, NEW S, NEW base \in S, NEW step \in [1 .. n -> [S -> S]]
  PROVE  \E h \in [SUBSET (1 .. n) -> S] : Folds(h, n, base, step)
  <1> DEFINE only(T) == [i \in 1 .. n |-> IF i \in T THEN step[i] ELSE [y \in S |-> y]]
             F(T) == CHOOSE f \in [0 .. n -> S] : Iterates(f, n, base, only(T))
  <1>1. ASSUME NEW T PROVE F(T) \in [0 .. n -> S] /\ Iterates(F(T), n, base, only(T))
    <2>1. only(T) \in [1 .. n -> [S -> S]]
      OBVIOUS
    <2> HIDE DEF only
    <2> QED
      BY <2>1, Recursion
  <1> HIDE DEF F
  <1>2. ASSUME NEW T, NEW i \in 1 .. n
        PROVE  /\ F(T)[0] = base /\ F(T)[i] \in S /\ F(T)[i - 1] \in S
               /\ F(T)[i] = IF i \in T THEN step[i][F(T)[i - 1]] ELSE F(T)[i - 1]
    <2>1. F(T)[0] = base /\ F(T)[i] = only(T)[i][F(T)[i - 1]]
      BY <1>1 DEF Iterates
    <2>2. i \in 0 .. n /\ i - 1 \in 0 .. n
      OBVIOUS
    <2>3. F(T)[i] \in S /\ F(T)[i - 1] \in S
      BY <1>1, <2>2
    <2> QED
      BY <2>1, <2>3
  <1> HIDE DEF only
  <1>3. ASSUME NEW T, NEW k \in 0 .. n, \A j \in k + 1 .. n : j \notin T
        PROVE  F(T)[n] = F(T)[k]
    <2> DEFINE A == {i \in 0 .. n : i >= k => F(T)[i] = F(T)[k]}
    <2>1. 0 \in A
      OBVIOUS
    <2>2. ASSUME NEW i \in 1 .. n, i - 1 \in A PROVE i \in A
      <3>1. CASE i <= k
        BY <3>1
      <3>2. CASE i > k
        <4>1. i \notin T /\ i - 1 >= k
          BY <1>3, <3>2
        <4>2. F(T)[i] = F(T)[i - 1] /\ F(T)[i - 1] = F(T)[k]
          BY <1>2, <2>2, <4>1
        <4> QED
          BY <4>2
      <3> QED
        BY <3>1, <3>2
    <2> HIDE DEF A
    <2>3. \A i \in 0 .. n : i \in A
      BY <2>1, <2>2, Induction
    <2>4. n \in A
      BY <2>3
    <2> QED
      BY <2>4 DEF A
  <1>4. ASSUME NEW T, NEW U, NEW k \in 0 .. n, \A j \in 1 .. k : j \in T <=> j \in U
        PROVE  F(T)[k] = F(U)[k]
    <2> DEFINE A == {i \in 0 .. n : i <= k => F(T)[i] = F(U)[i]}
    <2>1. 0 \in A
      BY <1>1 DEF Iterates
    <2>2. ASSUME NEW i \in 1 .. n, i - 1 \in A PROVE i \in A
      <3>1. CASE i > k
        BY <3>1
      <3>2. CASE i <= k
        <4>1. (i \in T <=> i \in U) /\ i - 1 <= k
          BY <1>4, <3>2
        <4>2. F(T)[i - 1] = F(U)[i - 1]
          BY <2>2, <4>1
        <4>3. F(T)[i] = F(U)[i]
          BY <1>2, <4>1, <4>2
        <4> QED
          BY <4>3
      <3> QED
        BY <3>1, <3>2
    <2> HIDE DEF A
    <2>3. \A i \in 0 .. n : i \in A
      BY <2>1, <2>2, Induction
    <2>4. k \in A
      BY <2>3
    <2> QED
      BY <2>4 DEF A
  <1> DEFINE h == [T \in SUBSET (1 .. n) |-> F(T)[n]]
  <1>5. h \in [SUBSET (1 .. n) -> S]
    BY <1>1
  <1>6. h[{}] = base
    <2>1. F({})[n] = F({})[0]
      BY <1>3
    <2>2. F({})[0] = base
      BY <1>1 DEF Iterates
    <2> QED
      BY <2>1, <2>2
  <1>7. ASSUME NEW T \in SUBSET (1 .. n), T # {}
        PROVE  h[T] = step[Max(T)][h[T \ {Max(T)}]]
    <2> DEFINE m == Max(T)
               U == T \ {m}
    <2>1. m \in T /\ \A y \in T : m >= y
      BY <1>7, MaxIs
    <2> HIDE DEF m
    <2>2. m \in 1 .. n /\ m - 1 \in 0 .. n /\ m \in 0 .. n
      BY <2>1
    <2>3. F(T)[n] = F(T)[m]
      <3>1. \A j \in m + 1 .. n : j \notin T
        BY <2>1, <2>2
      <3> QED
        BY <1>3, <2>2, <3>1
    <2>4. F(T)[m] = step[m][F(T)[m - 1]]
      BY <1>2, <2>1, <2>2
    <2>5. F(U)[n] = F(U)[m - 1]
      <3>1. \A j \in (m - 1) + 1 .. n : j \notin U
        BY <2>1, <2>2
      <3> QED
        BY <1>3, <2>2, <3>1
    <2>6. F(T)[m - 1] = F(U)[m - 1]
      <3>1. \A j \in 1 .. m - 1 : j \in T <=> j \in U
        BY <2>2
      <3> QED
        BY <1>4, <2>2, <3>1
    <2>7. h[T] = F(T)[n] /\ h[U] = F(U)[n]
      OBVIOUS
    <2> QED
      BY <2>3, <2>4, <2>5, <2>6, <2>7 DEF m
  <1> HIDE DEF h
  <1> QED
    BY <1>5, <1>6, <1>7 DEF Folds

(***************************************************************************)
(* Words.                                                                  *)
(***************************************************************************)
Mark  == Char \cup {"space"}
Text  == Seq(Mark)
Heads == {ws \in Seq(Text) : ws # <<>>}

\* What is before the last one.
LEMMA LastOf ==
  ASSUME NEW S, NEW ps \in Seq(S), ps # <<>>
  PROVE  Front(ps) \in Seq(S) /\ Last(ps) \in S
  <1> DEFINE n == Len(ps)
  <1>1. n \in Nat \ {0} /\ n - 1 \in Int /\ ps[n] \in S /\ \A i \in 1 .. n - 1 : ps[i] \in S
    OBVIOUS
  <1>2. SubSeq(ps, 1, n - 1) \in Seq(S)
    <2> HIDE DEF n
    <2> QED
      BY <1>1, SubSeqProperties
  <1> QED
    BY <1>1, <1>2 DEF Front, Last

LEMMA AppendIs ==
  ASSUME NEW S, NEW ps \in Seq(S), NEW p \in S
  PROVE  /\ Append(ps, p) \in Seq(S) /\ Append(ps, p) # <<>> /\ Append(ps, p) = ps \o <<p>>
         /\ Len(Append(ps, p)) = Len(ps) + 1 /\ Last(Append(ps, p)) = p
         /\ \A i \in 1 .. Len(ps) : Append(ps, p)[i] = ps[i]
  BY DEF Last

LEMMA NextWordType ==
  ASSUME NEW ws \in Heads, NEW c \in Mark PROVE NextWord(ws, c) \in Heads
  <1>1. Front(ws) \in Seq(Text) /\ Last(ws) \in Text
    BY LastOf DEF Heads
  <1>2. Append(Last(ws), c) \in Text
    BY <1>1 DEF Text
  <1>3. Append(Front(ws), Append(Last(ws), c)) \in Heads
    BY <1>1, <1>2, AppendIs DEF Heads
  <1>4. Append(ws, <<>>) \in Heads
    BY AppendIs DEF Heads, Text
  <1> QED
    BY <1>3, <1>4 DEF NextWord

LEMMA WordsFold ==
  ASSUME NEW s \in Seq(Mark)
  PROVE  \E f \in [0 .. Len(s) -> Heads] :
            /\ f[0] = <<<<>>>> /\ \A i \in 1 .. Len(s) : f[i] = NextWord(f[i - 1], s[i])
            /\ Words(s) = IF Last(f[Len(s)]) = <<>> THEN Front(f[Len(s)]) ELSE f[Len(s)]
  <1> DEFINE n == Len(s)
             Value(h, T) == IF T = {} THEN <<<<>>>> ELSE NextWord(h[T \ {Max(T)}], s[Max(T)])
             Is(h) == h = [T \in SUBSET DOMAIN s |-> Value(h, T)]
             step == [i \in 1 .. n |-> [y \in Heads |-> NextWord(y, s[i])]]
  <1>1. /\ n \in Nat /\ DOMAIN s = 1 .. n /\ \A i \in 1 .. n : s[i] \in Mark
    OBVIOUS
  <1>b. <<<<>>>> \in Heads
    BY DEF Heads, Text
  <1>2. step \in [1 .. n -> [Heads -> Heads]]
    BY <1>1, NextWordType
  <1> HIDE DEF n, step
  <1>3. PICK f \in [0 .. n -> Heads] : Iterates(f, n, <<<<>>>>, step)
    BY <1>1, <1>b, <1>2, Recursion
  <1>4. PICK h \in [SUBSET (1 .. n) -> Heads] : Folds(h, n, <<<<>>>>, step)
    BY <1>1, <1>b, <1>2, Subsets
  <1>5. Is(h)
    <2>1. ASSUME NEW T \in SUBSET (1 .. n), T # {}
          PROVE  h[T] = NextWord(h[T \ {Max(T)}], s[Max(T)])
      <3>1. Max(T) \in 1 .. n /\ T \ {Max(T)} \in SUBSET (1 .. n)
        BY <1>1, <2>1, MaxIs
      <3>2. h[T] = step[Max(T)][h[T \ {Max(T)}]] /\ h[T \ {Max(T)}] \in Heads
        BY <1>4, <2>1, <3>1 DEF Folds
      <3> QED
        BY <3>1, <3>2 DEF step
    <2>2. h[{}] = <<<<>>>>
      BY <1>4 DEF Folds
    <2>3. \A T \in SUBSET (1 .. n) : h[T] = Value(h, T)
      BY <2>1, <2>2
    <2> HIDE DEF Value
    <2> QED
      BY <1>1, <1>4, <2>3
  <1> DEFINE g == CHOOSE g : Is(g)
  <1>6. Is(g)
    <2> HIDE DEF Is
    <2> QED
      BY <1>5
  <1>7. Words(s) = IF Last(g[DOMAIN s]) = <<>> THEN Front(g[DOMAIN s]) ELSE g[DOMAIN s]
    BY DEF Words, FoldLeft, MapThenFoldSet
  <1> HIDE DEF g
  <1>8. \A T \in SUBSET (1 .. n) : g[T] = Value(g, T)
    <2> HIDE DEF Value
    <2> QED
      BY <1>1, <1>6
  <1>9. f[0] = <<<<>>>> /\ \A i \in 1 .. n : f[i] = NextWord(f[i - 1], s[i])
    <2>1. f[0] = <<<<>>>> /\ \A i \in 1 .. n : f[i] = step[i][f[i - 1]] /\ f[i - 1] \in Heads
      BY <1>1, <1>3 DEF Iterates
    <2> QED
      BY <2>1 DEF step
  <1>10. g[1 .. n] = f[n]
    <2> DEFINE A == {i \in 0 .. n : g[1 .. i] = f[i]}
    <2>1. 0 \in A
      <3>1. 1 .. 0 = {} /\ {} \in SUBSET (1 .. n)
        OBVIOUS
      <3>2. g[1 .. 0] = f[0]
        BY <1>8, <1>9, <3>1
      <3> QED
        BY <1>1, <3>2
    <2>2. ASSUME NEW i \in 1 .. n, i - 1 \in A PROVE i \in A
      <3>1. Max(1 .. i) = i /\ (1 .. i) \ {i} = 1 .. i - 1 /\ 1 .. i \in SUBSET (1 .. n) /\ 1 .. i # {}
        BY <1>1, MaxUpto
      <3>2. g[1 .. i] = NextWord(g[1 .. i - 1], s[i])
        BY <1>8, <3>1
      <3>3. g[1 .. i - 1] = f[i - 1] /\ i \in 0 .. n
        BY <1>1, <2>2
      <3> QED
        BY <1>9, <3>2, <3>3
    <2> HIDE DEF A
    <2>3. \A i \in 0 .. n : i \in A
      BY <1>1, <2>1, <2>2, Induction
    <2>4. n \in A
      BY <1>1, <2>3
    <2> QED
      BY <2>4 DEF A
  <1>11. f \in [0 .. Len(s) -> Heads]
    BY <1>3 DEF n
  <1>12. Words(s) = IF Last(f[Len(s)]) = <<>> THEN Front(f[Len(s)]) ELSE f[Len(s)]
    BY <1>1, <1>7, <1>10 DEF n
  <1>13. f[0] = <<<<>>>> /\ \A i \in 1 .. Len(s) : f[i] = NextWord(f[i - 1], s[i])
    BY <1>9 DEF n
  <1> QED
    BY <1>11, <1>12, <1>13

(***************************************************************************)
(* Parts of a text.                                                        *)
(***************************************************************************)
LEMMA OnlyNone ==
  ASSUME NEW S, NEW s \in Seq(S), NEW kinds, \A i \in 1 .. Len(s) : s[i] \notin kinds
  PROVE  Only(s, kinds) = <<>>
  <1>1. PICK f \in [0 .. Len(s) -> Seq(S)] : OnlyUpto(f, s, kinds) /\ Only(s, kinds) = f[Len(s)]
    BY OnlyIs
  <1> DEFINE T == {i \in 0 .. Len(s) : f[i] = <<>>}
  <1>2. 0 \in T
    BY <1>1 DEF OnlyUpto
  <1>3. ASSUME NEW i \in 1 .. Len(s), i - 1 \in T PROVE i \in T
    BY <1>1, <1>3 DEF OnlyUpto
  <1>4. Len(s) \in Nat
    OBVIOUS
  <1> HIDE DEF T
  <1>5. \A i \in 0 .. Len(s) : i \in T
    BY <1>2, <1>3, <1>4, Induction
  <1>6. Len(s) \in T
    BY <1>4, <1>5
  <1> QED
    BY <1>1, <1>6 DEF T

\* Of more kinds there are as many characters at least.
LEMMA OnlyMore ==
  ASSUME NEW S, NEW s \in Seq(S), NEW kinds, NEW more, kinds \subseteq more
  PROVE  Len(Only(s, kinds)) <= Len(Only(s, more))
  <1>1. PICK f \in [0 .. Len(s) -> Seq(S)] : OnlyUpto(f, s, kinds) /\ Only(s, kinds) = f[Len(s)]
    BY OnlyIs
  <1>2. PICK g \in [0 .. Len(s) -> Seq(S)] : OnlyUpto(g, s, more) /\ Only(s, more) = g[Len(s)]
    BY OnlyIs
  <1> DEFINE T == {i \in 0 .. Len(s) : Len(f[i]) <= Len(g[i])}
  <1>3. 0 \in T
    BY <1>1, <1>2 DEF OnlyUpto
  <1>4. ASSUME NEW i \in 1 .. Len(s), i - 1 \in T PROVE i \in T
    <2>1. f[i - 1] \in Seq(S) /\ g[i - 1] \in Seq(S) /\ s[i] \in S /\ Len(f[i - 1]) <= Len(g[i - 1])
      BY <1>4
    <2>2. /\ f[i] = IF s[i] \in kinds THEN Append(f[i - 1], s[i]) ELSE f[i - 1]
          /\ g[i] = IF s[i] \in more THEN Append(g[i - 1], s[i]) ELSE g[i - 1]
      BY <1>1, <1>2 DEF OnlyUpto
    <2>3. /\ Len(Append(f[i - 1], s[i])) = Len(f[i - 1]) + 1 /\ Len(f[i - 1]) \in Nat
          /\ Len(Append(g[i - 1], s[i])) = Len(g[i - 1]) + 1 /\ Len(g[i - 1]) \in Nat
      BY <2>1
    <2>4. Len(f[i]) <= Len(g[i])
      BY <2>1, <2>2, <2>3
    <2> QED
      BY <2>4
  <1>5. Len(s) \in Nat
    OBVIOUS
  <1> HIDE DEF T
  <1>6. \A i \in 0 .. Len(s) : i \in T
    BY <1>3, <1>4, <1>5, Induction
  <1>7. Len(s) \in T
    BY <1>5, <1>6
  <1> QED
    BY <1>1, <1>2, <1>7 DEF T

\* A text cut in two.
LEMMA CutAt ==
  ASSUME NEW S, NEW s \in Seq(S), NEW m \in 0 .. Len(s)
  PROVE  /\ SubSeq(s, 1, m) \in Seq(S) /\ Len(SubSeq(s, 1, m)) = m
         /\ \A i \in 1 .. m : SubSeq(s, 1, m)[i] = s[i]
         /\ SubSeq(s, m + 1, Len(s)) \in Seq(S) /\ Len(SubSeq(s, m + 1, Len(s))) = Len(s) - m
         /\ \A i \in 1 .. Len(s) - m : SubSeq(s, m + 1, Len(s))[i] = s[m + i]
         /\ s = SubSeq(s, 1, m) \o SubSeq(s, m + 1, Len(s))
  <1> DEFINE n == Len(s)
             a == SubSeq(s, 1, m)
             b == SubSeq(s, m + 1, n)
  <1>1. n \in Nat /\ m \in Nat /\ m <= n /\ \A i \in 1 .. n : s[i] \in S
    OBVIOUS
  <1>2. /\ a \in Seq(S) /\ Len(a) = IF 1 <= m THEN m - 1 + 1 ELSE 0
        /\ \A i \in 1 .. m - 1 + 1 : a[i] = s[1 + i - 1]
    <2>1. \A i \in 1 .. m : s[i] \in S
      BY <1>1
    <2> HIDE DEF n
    <2> QED
      BY <1>1, <2>1, SubSeqProperties
  <1>3. /\ b \in Seq(S) /\ Len(b) = IF m + 1 <= n THEN n - (m + 1) + 1 ELSE 0
        /\ \A i \in 1 .. n - (m + 1) + 1 : b[i] = s[(m + 1) + i - 1]
    <2>1. (\A i \in m + 1 .. n : s[i] \in S) /\ m + 1 \in Int
      BY <1>1
    <2> HIDE DEF n
    <2> QED
      BY <1>1, <2>1, SubSeqProperties
  <1>4. Len(a) = m /\ \A i \in 1 .. m : a[i] = s[i]
    <2> HIDE DEF a
    <2> QED
      BY <1>1, <1>2
  <1>5. Len(b) = n - m /\ \A i \in 1 .. n - m : b[i] = s[m + i]
    <2> HIDE DEF b, n
    <2> QED
      BY <1>1, <1>3
  <1> HIDE DEF a, b
  <1> DEFINE c == a \o b
  <1>6. /\ c \in Seq(S) /\ Len(c) = Len(a) + Len(b)
        /\ \A i \in 1 .. Len(a) + Len(b) : c[i] = IF i <= Len(a) THEN a[i] ELSE b[i - Len(a)]
    BY <1>2, <1>3, ConcatProperties
  <1> HIDE DEF c
  <1>7. Len(c) = n
    BY <1>1, <1>4, <1>5, <1>6
  <1>8. ASSUME NEW i \in 1 .. n PROVE s[i] = c[i]
    <2>1. CASE i <= m
      BY <1>1, <1>4, <1>5, <1>6, <2>1
    <2>2. CASE i > m
      <3>1. c[i] = b[i - m] /\ i - m \in 1 .. n - m
        BY <1>1, <1>4, <1>5, <1>6, <2>2
      <3>2. b[i - m] = s[m + (i - m)]
        BY <1>5, <3>1
      <3> QED
        BY <1>1, <3>1, <3>2
    <2> QED
      BY <1>1, <2>1, <2>2
  <1>9. s = c
    BY <1>6, <1>7, <1>8, SeqEqual
  <1> QED
    BY <1>2, <1>3, <1>4, <1>5, <1>9 DEF a, b, c

LEMMA OnlyCut ==
  ASSUME NEW S, NEW s \in Seq(S), NEW m \in 0 .. Len(s), NEW kinds
  PROVE  /\ Only(s, kinds) = Only(SubSeq(s, 1, m), kinds) \o Only(SubSeq(s, m + 1, Len(s)), kinds)
         /\ Len(Only(s, kinds)) = Len(Only(SubSeq(s, 1, m), kinds))
                                  + Len(Only(SubSeq(s, m + 1, Len(s)), kinds))
  <1> DEFINE a == SubSeq(s, 1, m)
             b == SubSeq(s, m + 1, Len(s))
  <1>1. a \in Seq(S) /\ b \in Seq(S) /\ s = a \o b
    BY CutAt
  <1> HIDE DEF a, b
  <1>2. Only(a \o b, kinds) = Only(a, kinds) \o Only(b, kinds)
    BY <1>1, OnlyConcat
  <1>3. Only(a, kinds) \in Seq(S) /\ Only(b, kinds) \in Seq(S)
    BY <1>1, OnlyType
  <1>4. Len(Only(a, kinds) \o Only(b, kinds)) = Len(Only(a, kinds)) + Len(Only(b, kinds))
    BY <1>3
  <1> QED
    BY <1>1, <1>2, <1>4 DEF a, b

\* The first of some positions and the last, or 0.
LEMMA FirstOf ==
  ASSUME NEW n \in Nat, NEW I \in SUBSET (1 .. n)
  PROVE  LET k == IF I # {} THEN Min(I) ELSE 0
         IN k \in 0 .. n /\ (k # 0 => k \in I) /\ (k = 0 => I = {}) /\ \A i \in 1 .. k - 1 : i \notin I
  <1>1. CASE I = {}
    BY <1>1
  <1>2. CASE I # {}
    <2> DEFINE k == Min(I)
    <2>1. k \in I /\ \A y \in I : k <= y
      BY <1>2, MinIs
    <2> HIDE DEF k
    <2>2. k \in 1 .. n
      BY <2>1
    <2>3. \A i \in 1 .. k - 1 : i \notin I
      BY <2>1, <2>2
    <2>4. k \in 0 .. n /\ k # 0
      BY <2>2
    <2> QED
      BY <1>2, <2>1, <2>3, <2>4 DEF k
  <1> QED
    BY <1>1, <1>2

LEMMA LastIn ==
  ASSUME NEW n \in Nat, NEW I \in SUBSET (1 .. n)
  PROVE  LET k == IF I # {} THEN Max(I) ELSE 0
         IN k \in 0 .. n /\ (k # 0 => k \in I) /\ (k = 0 => I = {}) /\ \A i \in k + 1 .. n : i \notin I
  <1>1. CASE I = {}
    BY <1>1
  <1>2. CASE I # {}
    <2> DEFINE k == Max(I)
    <2>1. k \in I /\ \A y \in I : k >= y
      BY <1>2, MaxIs
    <2> HIDE DEF k
    <2>2. k \in 1 .. n
      BY <2>1
    <2>3. \A i \in k + 1 .. n : i \notin I
      BY <2>1, <2>2
    <2>4. k \in 0 .. n /\ k # 0
      BY <2>2
    <2> QED
      BY <1>2, <2>1, <2>3, <2>4 DEF k
  <1> QED
    BY <1>1, <1>2

\* lstrip() drops spaces only, and no more the second time.
LEMMA LStripIs ==
  ASSUME NEW s \in Text
  PROVE  /\ LStrip(s) \in Text /\ Len(LStrip(s)) <= Len(s) /\ LStrip(LStrip(s)) = LStrip(s)
         /\ \A kinds : "space" \notin kinds => Only(LStrip(s), kinds) = Only(s, kinds)
  <1> DEFINE n == Len(s)
             I(t) == {i \in 1 .. Len(t) : t[i] # "space"}
             k(t) == IF I(t) # {} THEN Min(I(t)) ELSE 0
  <1>1. \A t : LStrip(t) = IF k(t) = 0 THEN <<>> ELSE SubSeq(t, k(t), Len(t))
    BY DEF LStrip, SelectInSeq
  <1>2. n \in Nat /\ s \in Seq(Mark) /\ I(s) \in SUBSET (1 .. n)
    BY DEF Text
  <1>3. k(s) \in 0 .. n /\ (k(s) # 0 => k(s) \in I(s)) /\ (k(s) = 0 => I(s) = {})
        /\ \A i \in 1 .. k(s) - 1 : i \notin I(s)
    <2> HIDE DEF n, I
    <2> QED
      BY <1>2, FirstOf
  <1>4. CASE k(s) = 0
    <2>1. LStrip(s) = <<>>
      BY <1>1, <1>4
    <2>2. LStrip(<<>>) = <<>>
      <3>1. I(<<>>) = {}
        OBVIOUS
      <3>2. k(<<>>) = 0
        BY <3>1
      <3> HIDE DEF k
      <3> QED
        BY <1>1, <3>2
    <2>3. \A i \in 1 .. n : s[i] = "space"
      BY <1>3, <1>4
    <2>4. ASSUME NEW kinds, "space" \notin kinds PROVE Only(LStrip(s), kinds) = Only(s, kinds)
      <3>1. Only(s, kinds) = <<>>
        BY <1>2, <2>3, <2>4, OnlyNone
      <3> QED
        BY <2>1, <3>1, OnlyOne
    <2> QED
      BY <1>2, <2>1, <2>2, <2>4 DEF Text
  <1>5. CASE k(s) # 0
    <2> DEFINE m == k(s) - 1
               a == SubSeq(s, 1, m)
               b == SubSeq(s, m + 1, n)
    <2>1. k(s) \in 1 .. n /\ m \in 0 .. n /\ m + 1 = k(s) /\ s[m + 1] # "space"
      <3> HIDE DEF k
      <3> QED
        BY <1>2, <1>3, <1>5
    <2>2. \A i \in 1 .. m : s[i] = "space"
      <3> HIDE DEF k
      <3> QED
        BY <1>3, <2>1
    <2>3. LStrip(s) = b
      <3> HIDE DEF k
      <3> QED
        BY <1>1, <1>5, <2>1
    <2> HIDE DEF k, m
    <2>4. /\ a \in Seq(Mark) /\ b \in Seq(Mark) /\ Len(a) = m /\ Len(b) = n - m
          /\ (\A i \in 1 .. m : a[i] = s[i]) /\ \A i \in 1 .. n - m : b[i] = s[m + i]
      BY <1>2, <2>1, CutAt
    <2>5. b[1] # "space" /\ Len(b) # 0 /\ Len(b) <= n
      <3> HIDE DEF b, n
      <3> QED
        BY <1>2, <2>1, <2>4
    <2>6. ASSUME NEW kinds, "space" \notin kinds PROVE Only(b, kinds) = Only(s, kinds)
      <3>1. Only(s, kinds) = Only(a, kinds) \o Only(b, kinds)
        BY <1>2, <2>1, OnlyCut
      <3>2. Only(a, kinds) = <<>>
        <4>1. \A i \in 1 .. Len(a) : a[i] \notin kinds
          <5> HIDE DEF a, b
          <5> QED
            BY <2>2, <2>4, <2>6
        <4> HIDE DEF a
        <4> QED
          BY <2>4, <4>1, OnlyNone
      <3>3. Only(b, kinds) \in Seq(Mark)
        <4> HIDE DEF b
        <4> QED
          BY <2>4, OnlyType
      <3> HIDE DEF a, b
      <3> QED
        BY <3>1, <3>2, <3>3
    <2>7. LStrip(b) = b
      <3> HIDE DEF b
      <3>1. I(b) \in SUBSET (1 .. Len(b)) /\ 1 \in I(b) /\ Len(b) \in Nat
        BY <2>4, <2>5
      <3>2. k(b) \in 0 .. Len(b) /\ (k(b) = 0 => I(b) = {}) /\ \A i \in 1 .. k(b) - 1 : i \notin I(b)
        <4> USE DEF k
        <4> HIDE DEF I
        <4> QED
          BY <3>1, FirstOf
      <3>3. k(b) = 1
        <4> HIDE DEF I
        <4> QED
          BY <3>1, <3>2
      <3>4. LStrip(b) = SubSeq(b, 1, Len(b))
        BY <1>1, <3>3
      <3> QED
        BY <2>4, <3>4, SubSeqFull
    <2> HIDE DEF b
    <2> QED
      BY <2>3, <2>4, <2>5, <2>6, <2>7 DEF Text
  <1> QED
    BY <1>4, <1>5

LEMMA StripIs ==
  ASSUME NEW s \in Text
  PROVE  /\ Strip(s) \in Text /\ Len(Strip(s)) <= Len(s)
         /\ \A kinds : "space" \notin kinds => Only(Strip(s), kinds) = Only(s, kinds)
  <1> DEFINE n == Len(s)
             I == {i \in 1 .. n : s[i] # "space"}
             k == IF I # {} THEN Max(I) ELSE 0
             a == SubSeq(s, 1, k)
             b == SubSeq(s, k + 1, n)
  <1>1. Strip(s) = LStrip(a)
    BY DEF Strip, SelectLastInSeq
  <1>2. n \in Nat /\ s \in Seq(Mark) /\ I \in SUBSET (1 .. n)
    BY DEF Text
  <1>3. k \in 0 .. n /\ \A i \in k + 1 .. n : i \notin I
    <2> HIDE DEF n, I
    <2> QED
      BY <1>2, LastIn
  <1>4. \A i \in k + 1 .. n : s[i] = "space"
    <2> HIDE DEF k
    <2> QED
      BY <1>2, <1>3
  <1> HIDE DEF k
  <1>5. /\ a \in Text /\ Len(a) = k /\ b \in Seq(Mark) /\ Len(b) = n - k
        /\ \A i \in 1 .. n - k : b[i] = s[k + i]
    BY <1>2, <1>3, CutAt DEF Text
  <1>6. ASSUME NEW kinds, "space" \notin kinds PROVE Only(a, kinds) = Only(s, kinds)
    <2>1. Only(s, kinds) = Only(a, kinds) \o Only(b, kinds)
      BY <1>2, <1>3, OnlyCut
    <2>2. Only(b, kinds) = <<>>
      <3>1. \A i \in 1 .. Len(b) : b[i] \notin kinds
        <4> HIDE DEF a, b, n
        <4> QED
          BY <1>2, <1>3, <1>4, <1>5, <1>6
      <3> HIDE DEF b
      <3> QED
        BY <1>5, <3>1, OnlyNone
    <2>3. Only(a, kinds) \in Seq(Mark)
      <3> HIDE DEF a
      <3> QED
        BY <1>5, OnlyType DEF Text
    <2> HIDE DEF a, b
    <2> QED
      BY <2>1, <2>2, <2>3
  <1>7. Len(a) <= n
    BY <1>2, <1>3, <1>5
  <1>8. /\ LStrip(a) \in Text /\ Len(LStrip(a)) <= Len(a)
        /\ \A kinds : "space" \notin kinds => Only(LStrip(a), kinds) = Only(a, kinds)
    <2> HIDE DEF a
    <2> QED
      BY <1>5, LStripIs
  <1>9. Len(LStrip(a)) \in Nat /\ Len(a) \in Nat
    BY <1>5, <1>8 DEF Text
  <1> HIDE DEF a
  <1> QED
    BY <1>1, <1>2, <1>6, <1>7, <1>8, <1>9

\* Texts put together.
LEMMA OnlyTexts ==
  \A kinds : \A x, y \in Seq(Mark) : Only(x \o y, kinds) = Only(x, kinds) \o Only(y, kinds)
  BY OnlyConcat

LEMMA TextAssociative == \A x, y, z \in Seq(Mark) : (x \o y) \o z = x \o (y \o z)
  BY ConcatAssociative

LEMMA Texts ==
  /\ \A x, y \in Seq(Mark) : Visible(x \o y) = Visible(x) \o Visible(y)
  /\ \A x \in Seq(Mark) : x \o <<>> = x /\ <<>> \o x = x
  /\ \A x, y \in Seq(Mark) : x \o y \in Seq(Mark) /\ Len(x \o y) = Len(x) + Len(y)
  <1>1. \A x, y \in Seq(Mark) : Visible(x \o y) = Visible(x) \o Visible(y)
    BY OnlyConcat DEF Visible
  <1> QED
    BY <1>1

(***************************************************************************)
(* The inductive invariant.                                                *)
(***************************************************************************)
\* What the code sees to: the clause buffer clamps its knobs, and an atom may be
\* as long as a request at least.
Limits ==
  /\ {MinSentence, MaxSentence, MaxDelta, MinClause, TargetClause, MaxClause} \subseteq Nat
  /\ {MaxReq, AtomLimit, MinMerge, MaxTokens} \subseteq Nat
  /\ MaxSentence >= 1 /\ MinClause >= 1 /\ TargetClause >= 1 /\ MaxTokens >= 1 /\ AtomLimit >= 1
  /\ TargetClause <= MaxClause /\ MaxReq <= AtomLimit

Clauses == {"clauses", "clauses, CJK"}
Shown   == Char \ {"space"}
Atoms   == {"han", "letter", "dot"}
\* What counts towards the length of an atom, or of a cut before one.
Solid   == (Char \cup Atoms \cup {"colon"}) \ {"space", "query"}

Typed ==
  /\ cutter \in Cutter /\ mode \in {"idle", "emit", "scan", "pack", "done"}
  /\ said \in Text /\ unread \in Text /\ buf \in Text /\ pieces \in Seq(Text)

\* Nothing is kept where nothing was read yet, and nothing unread where nothing is.
Placed ==
  /\ mode = "emit" => Streams
  /\ Streams \/ cutter = "tokens" => unread = <<>>
  /\ mode = "idle" /\ ~Streams => buf = <<>> /\ pieces = <<>>
  /\ mode \in {"scan", "pack"} => cutter = "requests"
  /\ mode = "pack" => buf = <<>> /\ unread = <<>>
  /\ cutter = "tokens" => buf = <<>>

\* How much a buffer holds back between the deltas, and while it emits.
Held ==
  /\ cutter = "sentences" => /\ mode = "idle" => Len(buf) < MaxSentence
                             /\ mode = "emit" => Len(buf) < MaxSentence + MaxDelta
  /\ cutter \in Clauses => /\ mode = "idle" => Len(Strip(buf)) < MaxClause
                           /\ mode = "emit" => Len(Visible(buf)) < MaxClause + MaxDelta
  /\ mode = "scan" => Len(Only(buf, Solid)) < AtomLimit

\* The limit on a piece.
Fits(p) ==
  CASE cutter = "sentences" -> Len(p) < MaxSentence + MaxDelta
    [] cutter = "requests" -> Len(Only(p, Atoms)) <= AtomLimit
    [] cutter = "tokens" -> Len(Visible(p)) <= MaxTokens
    [] OTHER -> Len(Visible(p)) < MaxClause + MaxDelta

Sized == \A i \in DOMAIN pieces : Fits(pieces[i])

IInv == Typed /\ NothingLost /\ Placed /\ Held /\ Sized

\* The sum of the parts.
LEMMA Parted ==
  ASSUME NEW ps \in Seq(Text), NEW b \in Text, NEW u \in Text
  PROVE  /\ Visible(FlattenSeq(ps) \o b \o u) = (Of(ps, Shown) \o Visible(b)) \o Visible(u)
         /\ Of(ps, Shown) \in Text /\ Visible(b) \in Text /\ Visible(u) \in Text
  <1> DEFINE F == FlattenSeq(ps)
  <1>1. F \in Seq(Mark) /\ b \in Seq(Mark) /\ u \in Seq(Mark)
    BY FlattenType DEF Text
  <1> HIDE DEF F
  <1>2. F \o b \in Seq(Mark)
    BY <1>1
  <1>a. \A x, y \in Seq(Mark) : Only(x \o y, Shown) = Only(x, Shown) \o Only(y, Shown)
    BY OnlyConcat
  <1>3. Only((F \o b) \o u, Shown) = Only(F \o b, Shown) \o Only(u, Shown)
    BY <1>1, <1>2, <1>a
  <1>4. Only(F \o b, Shown) = Only(F, Shown) \o Only(b, Shown)
    BY <1>1, <1>a
  <1>5. Only(F, Shown) \in Seq(Mark) /\ Only(b, Shown) \in Seq(Mark) /\ Only(u, Shown) \in Seq(Mark)
    BY <1>1, OnlyType
  <1> QED
    BY <1>3, <1>4, <1>5 DEF Of, Visible, Shown, F, Text

LEMMA Summed ==
  ASSUME NEW ps \in Seq(Text), NEW b \in Text, NEW u \in Text
  PROVE  Visible(FlattenSeq(ps) \o b \o u) = (Of(ps, Shown) \o Visible(b)) \o Visible(u)
  BY Parted

\* What a piece adds, an empty one nothing.
LEMMA EmittedIs ==
  ASSUME pieces \in Seq(Text), NEW p \in Text
  PROVE  /\ Emitted(p) \in Seq(Text)
         /\ \A kinds : Of(Emitted(p), kinds) = Of(pieces, kinds) \o Only(p, kinds)
         /\ Sized /\ Fits(p) => \A i \in DOMAIN Emitted(p) : Fits(Emitted(p)[i])
  <1>1. CASE p = <<>>
    <2>1. ASSUME NEW kinds PROVE Of(pieces, kinds) = Of(pieces, kinds) \o Only(p, kinds)
      <3>1. Of(pieces, kinds) \in Seq(Mark) /\ Only(p, kinds) = <<>>
        BY <1>1, OfParts, OnlyOne DEF Text
      <3> QED
        BY <3>1
    <2> QED
      BY <1>1, <2>1 DEF Emitted, Sized
  <1>2. CASE p # <<>>
    <2>1. Emitted(p) = Append(pieces, p)
      BY <1>2 DEF Emitted
    <2>a. pieces \in Seq(Seq(Mark)) /\ p \in Seq(Mark)
      BY DEF Text
    <2>2. ASSUME NEW kinds PROVE Of(Append(pieces, p), kinds) = Of(pieces, kinds) \o Only(p, kinds)
      <3>1. Appends(Mark, kinds)
        BY OfAppend
      <3> QED
        BY <2>a, <3>1 DEF Appends
    <2>3. Append(pieces, p) \in Seq(Text)
      OBVIOUS
    <2>4. ASSUME Sized, Fits(p), NEW i \in DOMAIN Append(pieces, p) PROVE Fits(Append(pieces, p)[i])
      <3>1. (i \in DOMAIN pieces /\ Append(pieces, p)[i] = pieces[i]) \/ Append(pieces, p)[i] = p
        OBVIOUS
      <3> QED
        BY <2>4, <3>1 DEF Sized
    <2> QED
      BY <2>1, <2>2, <2>3, <2>4
  <1> QED
    BY <1>1, <1>2

(***************************************************************************)
(* The buffers.                                                            *)
(***************************************************************************)
LEMMA SentenceCutIs ==
  ASSUME Limits, NEW b \in Text
  PROVE  SentenceCut(b) \in 0 .. Len(b) /\ (SentenceCut(b) = 0 => Len(b) < MaxSentence)
  <1> DEFINE Ends(i) == \/ b[i] = "stop" /\ (i = Len(b) \/ b[i + 1] # "stop")
                        \/ b[i] \in {"query", "dot"} /\ (i = Len(b) \/ b[i + 1] = "space")
             ends == {i \in DOMAIN b : Ends(i) /\ Len(Strip(SubSeq(b, 1, i))) >= MinSentence}
             n == Len(b)
  <1>1. n \in Nat /\ DOMAIN b = 1 .. n
    BY DEF Text
  <1>2. SentenceCut(b) = IF ends # {} THEN Min(ends) ELSE IF n >= MaxSentence THEN n ELSE 0
    BY DEF SentenceCut
  <1>3. ends \in SUBSET (1 .. n)
    BY <1>1
  <1> HIDE DEF ends, n
  <1>4. CASE ends # {}
    <2>1. Min(ends) \in 1 .. n
      BY <1>1, <1>3, <1>4, MinIs
    <2> QED
      BY <1>1, <1>2, <1>4, <2>1 DEF n
  <1>5. CASE ends = {}
    BY <1>1, <1>2, <1>5 DEF n, Limits
  <1> QED
    BY <1>4, <1>5

LEMMA LengthCutIs ==
  ASSUME Limits, NEW b \in Text, b # <<>>, NEW cjk \in BOOLEAN
  PROVE  LengthCut(b, cjk) \in 1 .. Len(b)
  <1> DEFINE n == Len(b)
             limit == IF n < MaxClause THEN n ELSE MaxClause
             mark  == IF cjk THEN "colon" ELSE "space"
             I     == {i \in 1 .. limit : b[i] = mark}
             at    == IF I # {} THEN Max(I) ELSE 0
  <1>1. n \in Nat \ {0}
    BY DEF Text
  <1>2. limit \in 1 .. n
    <2> HIDE DEF n
    <2> QED
      BY <1>1 DEF Limits
  <1>3. LengthCut(b, cjk) = IF at >= MinClause THEN at
                            ELSE IF cjk THEN limit ELSE IF n < TargetClause THEN n ELSE TargetClause
    BY DEF LengthCut, SelectLastInSubSeq
  <1>4. at \in 0 .. limit
    <2>1. I \in SUBSET (1 .. limit) /\ limit \in Nat
      BY <1>1, <1>2
    <2> HIDE DEF I, limit
    <2> QED
      BY <2>1, LastIn
  <1> HIDE DEF at, limit
  <1>5. n = Len(b)
    OBVIOUS
  <1> HIDE DEF n
  <1> QED
    BY <1>1, <1>2, <1>3, <1>4, <1>5 DEF Limits

LEMMA ClauseCutIs ==
  ASSUME Limits, NEW b \in Text, b # <<>>
  PROVE  ClauseCut(b) \in 0 .. Len(b) /\ (ClauseCut(b) = 0 => Len(Strip(b)) < MaxClause)
  <1> DEFINE n    == Len(b)
             cjk  == cutter = "clauses, CJK" \/ HasCjk(b)
             H    == {i \in 1 .. n : b[i] \in HardBreak}
             hard == IF H # {} THEN Min(H) ELSE 0
             C    == {i \in 1 .. n : b[i] = "colon"}
             soft == IF C # {} THEN Max(C) ELSE 0
             seen == Len(Strip(b))
  <1>1. n \in Nat \ {0}
    BY DEF Text
  <1>2. hard \in 0 .. n /\ soft \in 0 .. n
    <2>1. H \in SUBSET (1 .. n) /\ C \in SUBSET (1 .. n) /\ n \in Nat
      BY <1>1
    <2> HIDE DEF H, C, n
    <2> QED
      BY <2>1, FirstOf, LastIn
  <1>3. LengthCut(b, cjk) \in 1 .. n
    BY LengthCutIs DEF HasCjk, Contains
  <1>4. seen \in Nat
    BY StripIs DEF Text
  <1>5. \/ ClauseCut(b) = hard /\ hard > 0
        \/ ClauseCut(b) = soft /\ soft > 0
        \/ ClauseCut(b) = n
        \/ ClauseCut(b) = LengthCut(b, cjk)
        \/ ClauseCut(b) = 0 /\ ~(seen >= IF cjk THEN MaxClause ELSE TargetClause)
    <2>1. ClauseCut(b) =
            IF hard > 0 /\ Len(Strip(SubSeq(b, 1, hard))) >= 2 THEN hard
            ELSE IF soft > 0 /\ Len(Strip(SubSeq(b, 1, soft))) >= MinClause THEN soft
            ELSE IF soft > 0 /\ seen >= TargetClause THEN n
            ELSE IF seen >= (IF cjk THEN MaxClause ELSE TargetClause) THEN LengthCut(b, cjk)
            ELSE 0
      BY DEF ClauseCut, SelectInSeq, SelectLastInSeq
    <2> DEFINE far  == Len(Strip(SubSeq(b, 1, hard))) >= 2
               off  == Len(Strip(SubSeq(b, 1, soft))) >= MinClause
               long == seen >= (IF cjk THEN MaxClause ELSE TargetClause)
               late == seen >= TargetClause
               by   == LengthCut(b, cjk)
               cut  == ClauseCut(b)
    <2>2. cut = IF hard > 0 /\ far THEN hard
                ELSE IF soft > 0 /\ off THEN soft
                ELSE IF soft > 0 /\ late THEN n
                ELSE IF long THEN by ELSE 0
      BY <2>1
    <2> HIDE DEF hard, soft, n, far, off, long, late, by, cut
    <2>3. (cut = hard /\ hard > 0) \/ (cut = soft /\ soft > 0) \/ cut = n \/ cut = by \/ (cut = 0 /\ ~long)
      BY <2>2
    <2> QED
      BY <2>3 DEF long, by, cut
  <1>6. n = Len(b) /\ seen = Len(Strip(b))
    OBVIOUS
  <1> DEFINE cut == ClauseCut(b)
             by  == LengthCut(b, cjk)
  <1>7. by \in 1 .. n /\ \/ cut = hard /\ hard > 0
                         \/ cut = soft /\ soft > 0
                         \/ cut = n
                         \/ cut = by
                         \/ cut = 0 /\ ~(seen >= IF cjk THEN MaxClause ELSE TargetClause)
    BY <1>3, <1>5
  <1>8. MaxClause \in Nat /\ TargetClause \in Nat /\ TargetClause <= MaxClause
    BY DEF Limits
  <1> HIDE DEF hard, soft, seen, cjk, n, cut, by
  <1>9. cut \in 0 .. n
    BY <1>1, <1>2, <1>7
  <1>10. cut = 0 => ~(seen >= IF cjk THEN MaxClause ELSE TargetClause)
    BY <1>1, <1>2, <1>7
  <1>11. cut = 0 => seen < MaxClause
    BY <1>4, <1>8, <1>10
  <1> QED
    BY <1>6, <1>9, <1>11 DEF cut

\* A delta joins the buffer.
LEMMA FeedSafe ==
  ASSUME Limits, IInv, Feed PROVE IInv'
  <1>1. PICK n \in 1 .. MaxDelta : \E delta \in [1 .. n -> Char] :
          said' = said \o delta /\ buf' = buf \o delta
    BY DEF Feed
  <1>2. PICK delta \in [1 .. n -> Char] : said' = said \o delta /\ buf' = buf \o delta
    BY <1>1
  <1>3. /\ Streams /\ mode = "idle" /\ mode' = "emit" /\ unread = <<>>
        /\ cutter' = cutter /\ unread' = unread /\ pieces' = pieces
    BY DEF Feed, IInv, Placed
  <1>4. Streams' /\ cutter' # "tokens" /\ cutter' # "requests"
    BY <1>3 DEF Streams
  <1>5. delta \in Text /\ Len(delta) = n /\ n \in Nat
    <2>1. n \in Nat
      OBVIOUS
    <2>2. delta \in Seq(Char) /\ Len(delta) = n
      BY <2>1
    <2> QED
      BY <2>1, <2>2 DEF Text, Mark
  <1>a. n <= MaxDelta /\ {MaxDelta, MaxSentence, MaxClause} \subseteq Nat
    BY DEF Limits
  <1>6. /\ said \in Seq(Mark) /\ buf \in Seq(Mark) /\ unread \in Text /\ pieces \in Seq(Text)
        /\ delta \in Seq(Mark)
    BY <1>5 DEF IInv, Typed, Text
  <1>7. Typed'
    <2>1. said \o delta \in Seq(Mark) /\ buf \o delta \in Seq(Mark)
      BY <1>6
    <2>2. said' \in Text /\ buf' \in Text
      BY <1>2, <2>1 DEF Text
    <2> QED
      BY <1>3, <2>2 DEF IInv, Typed
  <1>8. Visible(said') = Visible(said) \o Visible(delta) /\ Visible(buf') = Visible(buf) \o Visible(delta)
    BY <1>2, <1>6, Texts
  <1>9. NothingLost'
    <2> DEFINE P == Of(pieces, Shown)
    <2>a. /\ pieces \in Seq(Text) /\ buf \in Text /\ unread \in Text
          /\ pieces' = pieces /\ buf' \in Text /\ unread' = unread
      BY <1>3, <1>6, <1>7 DEF Typed, Text
    <2>1. NothingLost <=> (P \o Visible(buf)) \o Visible(unread) = Visible(said)
      <3>1. Visible(FlattenSeq(pieces) \o buf \o unread) = (P \o Visible(buf)) \o Visible(unread)
        BY <2>a, Summed
      <3> QED
        BY <3>1 DEF NothingLost
    <2>2. NothingLost' <=> (P \o Visible(buf')) \o Visible(unread) = Visible(said')
      <3>1. Visible(FlattenSeq(pieces) \o buf' \o unread) = (P \o Visible(buf')) \o Visible(unread)
        BY <2>a, Summed
      <3> QED
        BY <2>a, <3>1 DEF NothingLost
    <2>3. Visible(unread) = <<>>
      BY <1>3, OnlyOne DEF Visible
    <2>4. P \in Seq(Mark) /\ Visible(buf) \in Seq(Mark) /\ Visible(delta) \in Seq(Mark)
      BY <1>6, Parted DEF Text
    <2> HIDE DEF P
    <2>5. \A x \in Seq(Mark) : x \o <<>> = x
      OBVIOUS
    <2>6. P \o Visible(buf) = Visible(said)
      <3>1. P \o Visible(buf) \in Seq(Mark)
        BY <2>4
      <3>2. (P \o Visible(buf)) \o Visible(unread) = Visible(said)
        BY <2>1 DEF IInv
      <3>3. (P \o Visible(buf)) \o <<>> = P \o Visible(buf)
        BY <2>5, <3>1
      <3> QED
        BY <2>3, <3>2, <3>3
    <2>7. (P \o Visible(buf)) \o Visible(delta) = P \o (Visible(buf) \o Visible(delta))
      BY <2>4, TextAssociative
    <2>8. P \o Visible(buf') = Visible(said')
      BY <1>8, <2>6, <2>7
    <2>9. P \o Visible(buf') \in Seq(Mark)
      BY <1>8, <2>4
    <2> QED
      BY <2>2, <2>3, <2>5, <2>8, <2>9
  <1>10. Placed'
    BY <1>3, <1>4 DEF Placed
  <1>11. Held'
    <2>1. CASE cutter = "sentences"
      <3>1. Len(buf') = Len(buf) + Len(delta) /\ Len(buf) \in Nat
        BY <1>2, <1>6
      <3>2. Len(buf) < MaxSentence
        BY <1>3, <2>1 DEF IInv, Held
      <3> DEFINE old == Len(buf)
                 new == Len(buf')
      <3>3. new = old + n /\ old \in Nat /\ old < MaxSentence
        BY <1>5, <3>1, <3>2
      <3> HIDE DEF old, new
      <3>4. new < MaxSentence + MaxDelta
        BY <1>a, <1>5, <3>3
      <3>5. Len(buf') < MaxSentence + MaxDelta
        BY <3>4 DEF new
      <3> QED
        BY <1>3, <2>1, <3>5 DEF Held, Clauses
    <2>2. CASE cutter \in Clauses
      <3>1. Len(Strip(buf)) < MaxClause
        BY <1>3, <2>2 DEF IInv, Held
      <3>2. Visible(buf) = Visible(Strip(buf)) /\ Strip(buf) \in Text
        BY <1>6, StripIs DEF Visible, Text
      <3>3. Len(Visible(Strip(buf))) <= Len(Strip(buf)) /\ Visible(Strip(buf)) \in Seq(Mark)
        BY <3>2, OnlyType DEF Visible, Text
      <3>4. Len(Visible(delta)) <= n /\ Visible(delta) \in Seq(Mark)
        BY <1>5, <1>6, OnlyType DEF Visible
      <3>5. Len(Visible(buf) \o Visible(delta)) = Len(Visible(buf)) + Len(Visible(delta))
        BY <3>2, <3>3, <3>4
      <3>6. Len(Visible(buf)) \in Nat /\ Len(Visible(delta)) \in Nat /\ Len(Strip(buf)) \in Nat
        BY <3>2, <3>3, <3>4 DEF Text
      <3> DEFINE kept == Len(Strip(buf))
                 old  == Len(Visible(buf))
                 more == Len(Visible(delta))
                 new  == Len(Visible(buf'))
      <3>a. kept < MaxClause /\ old <= kept /\ more <= n /\ new = old + more
        BY <1>8, <3>1, <3>2, <3>3, <3>4, <3>5
      <3>b. kept \in Nat /\ old \in Nat /\ more \in Nat
        BY <3>6
      <3> HIDE DEF kept, old, more, new
      <3>c. new < MaxClause + MaxDelta
        BY <1>a, <1>5, <3>a, <3>b
      <3>7. Len(Visible(buf')) < MaxClause + MaxDelta
        BY <3>c DEF new
      <3> QED
        BY <1>3, <2>2, <3>7 DEF Held, Clauses
    <2> QED
      BY <1>3, <2>1, <2>2 DEF Streams, Clauses
  <1>12. Sized'
    BY <1>3 DEF IInv, Sized, Fits
  <1> QED
    BY <1>7, <1>9, <1>10, <1>11, <1>12 DEF IInv

\* It is enough that a step leaves the sum of the parts as it is.
LEMMA Moved ==
  ASSUME IInv, Typed', said' = said,
         (Of(pieces', Shown) \o Visible(buf')) \o Visible(unread')
           = (Of(pieces, Shown) \o Visible(buf)) \o Visible(unread)
  PROVE  NothingLost'
  <1>1. Typed /\ NothingLost
    BY DEF IInv
  <1>2. (Of(pieces, Shown) \o Visible(buf)) \o Visible(unread) = Visible(said)
    <2>1. pieces \in Seq(Text) /\ buf \in Text /\ unread \in Text
      BY <1>1 DEF Typed
    <2>2. Visible(FlattenSeq(pieces) \o buf \o unread) = (Of(pieces, Shown) \o Visible(buf)) \o Visible(unread)
      BY <2>1, Parted
    <2> QED
      BY <1>1, <2>2 DEF NothingLost
  <1>3. NothingLost' <=> (Of(pieces', Shown) \o Visible(buf')) \o Visible(unread') = Visible(said')
    <2>1. pieces' \in Seq(Text) /\ buf' \in Text /\ unread' \in Text
      BY DEF Typed
    <2>2. Visible(FlattenSeq(pieces') \o buf' \o unread')
            = (Of(pieces', Shown) \o Visible(buf')) \o Visible(unread')
      BY <2>1, Summed
    <2> QED
      BY <2>2 DEF NothingLost
  <1> QED
    BY <1>2, <1>3

\* What Visible leaves of a text cut in two and stripped.
LEMMA VisibleIs ==
  ASSUME NEW s \in Text
  PROVE  /\ Visible(s) \in Text /\ Len(Visible(s)) <= Len(s) /\ Len(Visible(s)) \in Nat /\ Len(s) \in Nat
         /\ Visible(LStrip(s)) = Visible(s) /\ Visible(Strip(s)) = Visible(s)
         /\ \A m \in 0 .. Len(s) :
               LET a == SubSeq(s, 1, m)
                   b == SubSeq(s, m + 1, Len(s))
               IN /\ a \in Text /\ b \in Text /\ Visible(s) = Visible(a) \o Visible(b)
                  /\ Len(Visible(s)) = Len(Visible(a)) + Len(Visible(b))
                  /\ Len(a) = m /\ Len(b) = Len(s) - m
  <1>1. s \in Seq(Mark) /\ "space" \notin Shown
    BY DEF Text, Shown
  <1>2. Visible(s) \in Text /\ Len(Visible(s)) <= Len(s)
    BY <1>1, OnlyType DEF Visible, Text
  <1>3. Visible(LStrip(s)) = Visible(s) /\ Visible(Strip(s)) = Visible(s)
    BY <1>1, LStripIs, StripIs DEF Visible, Shown
  <1>4. ASSUME NEW m \in 0 .. Len(s)
        PROVE  /\ SubSeq(s, 1, m) \in Text /\ SubSeq(s, m + 1, Len(s)) \in Text
               /\ Len(SubSeq(s, 1, m)) = m /\ Len(SubSeq(s, m + 1, Len(s))) = Len(s) - m
               /\ Visible(s) = Visible(SubSeq(s, 1, m)) \o Visible(SubSeq(s, m + 1, Len(s)))
               /\ Len(Visible(s)) = Len(Visible(SubSeq(s, 1, m)))
                                    + Len(Visible(SubSeq(s, m + 1, Len(s))))
    <2>1. /\ SubSeq(s, 1, m) \in Text /\ SubSeq(s, m + 1, Len(s)) \in Text
          /\ Len(SubSeq(s, 1, m)) = m /\ Len(SubSeq(s, m + 1, Len(s))) = Len(s) - m
      BY <1>1, CutAt DEF Text
    <2> QED
      BY <1>1, <2>1, OnlyCut DEF Visible
  <1> QED
    BY <1>1, <1>2, <1>3, <1>4 DEF Text

\* One turn of the generator.
LEMMA EmitSafe ==
  ASSUME Limits, IInv, Emit PROVE IInv'
  <1> DEFINE b   == Kept(buf)
             cut == IF b = <<>> THEN 0 ELSE IF cutter = "sentences" THEN SentenceCut(b) ELSE ClauseCut(b)
             a   == SubSeq(b, 1, cut)
             r   == SubSeq(b, cut + 1, Len(b))
  <1>1. /\ mode = "emit" /\ Streams /\ unread = <<>> /\ Typed
        /\ cutter' = cutter /\ said' = said /\ unread' = unread
        /\ buf' = Kept(r) /\ pieces' = Emitted(Strip(a)) /\ mode' = IF cut = 0 THEN "idle" ELSE "emit"
    BY DEF Emit, IInv, Placed
  <1>2. cutter = "sentences" \/ cutter \in Clauses
    BY <1>1 DEF Streams, Clauses
  <1>3. /\ b \in Text /\ Visible(b) = Visible(buf) /\ Len(b) <= Len(buf) /\ (cutter = "sentences" => b = buf)
        /\ buf \in Text /\ pieces \in Seq(Text)
    BY <1>1, LStripIs, VisibleIs DEF Kept, Typed
  <1>4. cut \in 0 .. Len(b)
    <2>1. Len(b) \in Nat
      BY <1>3, VisibleIs
    <2> HIDE DEF b
    <2> QED
      BY <1>3, <2>1, SentenceCutIs, ClauseCutIs
  <1>5. /\ a \in Text /\ r \in Text /\ Visible(b) = Visible(a) \o Visible(r)
        /\ Len(Visible(b)) = Len(Visible(a)) + Len(Visible(r))
        /\ Len(a) = cut /\ Len(r) = Len(b) - cut
    <2> HIDE DEF b, cut
    <2> QED
      BY <1>3, <1>4, VisibleIs
  <1>6. Kept(r) \in Text /\ Visible(Kept(r)) = Visible(r) /\ Len(Kept(r)) <= Len(r)
    <2> HIDE DEF r
    <2> QED
      <3>1. LStrip(r) \in Text /\ Visible(LStrip(r)) = Visible(r) /\ Len(LStrip(r)) <= Len(r)
        BY <1>5, LStripIs, VisibleIs
      <3>2. Len(r) \in Nat
        BY <1>5, VisibleIs
      <3> QED
        BY <1>5, <3>1, <3>2 DEF Kept
  <1>7. /\ Strip(a) \in Text /\ Visible(Strip(a)) = Visible(a) /\ Len(Strip(a)) <= Len(a)
    <2> HIDE DEF a
    <2> QED
      BY <1>5, StripIs, VisibleIs
  <1>8. cut = 0 => r = b
    <2>1. SubSeq(b, 0 + 1, Len(b)) = b
      BY <1>3, SubSeqFull DEF Text
    <2> HIDE DEF b, cut
    <2> QED
      BY <2>1
  <1>9. /\ Emitted(Strip(a)) \in Seq(Text)
        /\ Of(Emitted(Strip(a)), Shown) = Of(pieces, Shown) \o Visible(a)
        /\ Sized /\ Fits(Strip(a)) => \A i \in DOMAIN Emitted(Strip(a)) : Fits(Emitted(Strip(a))[i])
    <2> HIDE DEF a
    <2>1. \A kinds : Of(Emitted(Strip(a)), kinds) = Of(pieces, kinds) \o Only(Strip(a), kinds)
      BY <1>3, <1>7, EmittedIs
    <2>2. Only(Strip(a), Shown) = Visible(Strip(a))
      BY DEF Visible, Shown
    <2>3. /\ Emitted(Strip(a)) \in Seq(Text)
          /\ Sized /\ Fits(Strip(a)) => \A i \in DOMAIN Emitted(Strip(a)) : Fits(Emitted(Strip(a))[i])
      BY <1>3, <1>7, EmittedIs
    <2> QED
      BY <1>7, <2>1, <2>2, <2>3
  <1>10. Typed'
    BY <1>1, <1>6, <1>9 DEF Typed
  <1>11. NothingLost'
    <2>1. Of(pieces, Shown) \in Seq(Mark) /\ Visible(a) \in Seq(Mark) /\ Visible(r) \in Seq(Mark)
      <3> HIDE DEF a, r
      <3> QED
        BY <1>3, <1>5, Parted, VisibleIs DEF Text
    <2>2. (Of(pieces, Shown) \o Visible(a)) \o Visible(r) = Of(pieces, Shown) \o (Visible(a) \o Visible(r))
      <3> HIDE DEF a, r
      <3> QED
        BY <2>1, TextAssociative
    <2>3. Of(pieces', Shown) \o Visible(buf') = Of(pieces, Shown) \o Visible(buf)
      <3> HIDE DEF a, r, b, cut
      <3> QED
        BY <1>1, <1>3, <1>5, <1>6, <1>9, <2>2
    <2> HIDE DEF a, r, b, cut
    <2> QED
      BY <1>1, <1>10, <2>3, Moved
  <1>12. Placed' /\ Streams'
    <2> HIDE DEF a, r, b, cut
    <2> QED
      BY <1>1 DEF Placed, Streams
  <1>13. /\ Len(Visible(a)) \in Nat /\ Len(Visible(r)) \in Nat /\ Len(r) \in Nat /\ Len(b) \in Nat
         /\ Len(buf) \in Nat /\ Len(Kept(r)) \in Nat /\ Len(a) \in Nat /\ Len(Strip(a)) \in Nat
    <2> HIDE DEF a, r, b, cut
    <2> QED
      BY <1>3, <1>5, <1>6, <1>7, VisibleIs
  <1>14. Held' /\ Fits(Strip(a))
    <2>1. CASE cutter = "sentences"
      <3>1. Len(buf) < MaxSentence + MaxDelta
        BY <1>1, <2>1 DEF IInv, Held
      <3>2. cut = 0 => Len(Kept(r)) < MaxSentence
        <4>1. b = <<>> => Len(b) = 0
          OBVIOUS
        <4>2. cut = 0 => Len(b) < MaxSentence
          <5> HIDE DEF b
          <5> QED
            BY <1>3, <2>1, <4>1, SentenceCutIs DEF Limits
        <4> HIDE DEF a, r, b, cut
        <4>3. cut = 0 => Len(Kept(r)) <= Len(b)
          BY <1>6, <1>8, <1>13
        <4>4. MaxSentence \in Nat
          BY DEF Limits
        <4> QED
          BY <1>13, <4>2, <4>3, <4>4
      <3>3. Len(Kept(r)) < MaxSentence + MaxDelta /\ Len(Strip(a)) < MaxSentence + MaxDelta
        <4> HIDE DEF a, r, b, cut
        <4>1. /\ Len(Kept(r)) <= Len(r) /\ Len(r) = Len(b) - cut /\ Len(b) <= Len(buf)
              /\ Len(Strip(a)) <= Len(a) /\ Len(a) = cut
          BY <1>3, <1>5, <1>6, <1>7
        <4>2. cut \in Nat /\ cut <= Len(b)
          BY <1>4, <1>13
        <4>3. MaxSentence \in Nat /\ MaxDelta \in Nat
          BY DEF Limits
        <4> QED
          BY <1>13, <3>1, <4>1, <4>2, <4>3
      <3> HIDE DEF a, r, b, cut
      <3> QED
        BY <1>1, <2>1, <3>2, <3>3 DEF Held, Fits, Clauses
    <2>2. CASE cutter \in Clauses
      <3>1. Len(Visible(buf)) < MaxClause + MaxDelta
        BY <1>1, <2>2 DEF IInv, Held
      <3>2. cut = 0 => Len(Strip(Kept(r))) < MaxClause
        <4>1. cut = 0 => Kept(r) = b
          <5>1. \A t : Kept(t) = LStrip(t)
            BY <2>2 DEF Kept, Clauses
          <5>2. Kept(b) = b
            BY <1>3, <5>1, LStripIs
          <5> HIDE DEF a, r, b, cut
          <5> QED
            BY <1>8, <5>2
        <4>2. b = <<>> => Len(Strip(b)) < MaxClause
          <5> HIDE DEF b
          <5>1. Len(Strip(b)) <= Len(b) /\ Len(Strip(b)) \in Nat /\ Len(<<>>) = 0
            BY <1>3, StripIs, VisibleIs
          <5> QED
            BY <5>1 DEF Limits
        <4>3. cut = 0 => Len(Strip(b)) < MaxClause
          <5>1. cutter # "sentences"
            BY <2>2 DEF Clauses
          <5> HIDE DEF b
          <5> QED
            BY <1>3, <4>2, <5>1, ClauseCutIs
        <4> HIDE DEF a, r, b, cut
        <4> QED
          BY <4>1, <4>3
      <3>3. Len(Visible(Kept(r))) < MaxClause + MaxDelta /\ Len(Visible(Strip(a))) < MaxClause + MaxDelta
        <4> HIDE DEF a, r, b, cut
        <4>1. /\ Visible(Kept(r)) = Visible(r) /\ Visible(Strip(a)) = Visible(a)
              /\ Len(Visible(buf)) = Len(Visible(a)) + Len(Visible(r))
          BY <1>3, <1>5, <1>6, <1>7
        <4>2. MaxClause \in Nat /\ MaxDelta \in Nat
          BY DEF Limits
        <4> QED
          BY <1>13, <3>1, <4>1, <4>2
      <3> HIDE DEF a, r, b, cut
      <3> QED
        BY <1>1, <2>2, <3>2, <3>3 DEF Held, Fits, Clauses
    <2> QED
      BY <1>2, <2>1, <2>2
  <1>15. Sized'
    <2>1. Sized
      BY DEF IInv
    <2> HIDE DEF a, r, b, cut
    <2>2. \A p : Fits(p)' <=> Fits(p)
      BY <1>1 DEF Fits
    <2> QED
      BY <1>1, <1>9, <1>14, <2>1, <2>2 DEF Sized
  <1> HIDE DEF a, r, b, cut
  <1> QED
    BY <1>10, <1>11, <1>12, <1>14, <1>15 DEF IInv

\* flush(): the rest is a piece.
LEMMA FlushSafe ==
  ASSUME Limits, IInv, Flush PROVE IInv'
  <1>1. /\ Streams /\ mode = "idle" /\ mode' = "done" /\ unread = <<>> /\ Typed
        /\ pieces' = Emitted(Strip(buf)) /\ buf' = <<>>
        /\ cutter' = cutter /\ said' = said /\ unread' = unread
    BY DEF Flush, IInv, Placed
  <1>2. buf \in Text /\ pieces \in Seq(Text) /\ unread \in Text
    BY <1>1 DEF Typed
  <1>3. /\ Strip(buf) \in Text /\ Visible(Strip(buf)) = Visible(buf) /\ Len(Strip(buf)) <= Len(buf)
        /\ Len(buf) \in Nat /\ Len(Strip(buf)) \in Nat
        /\ Len(Visible(Strip(buf))) <= Len(Strip(buf)) /\ Len(Visible(Strip(buf))) \in Nat
    BY <1>2, StripIs, VisibleIs
  <1>4. /\ Emitted(Strip(buf)) \in Seq(Text)
        /\ Of(Emitted(Strip(buf)), Shown) = Of(pieces, Shown) \o Visible(Strip(buf))
        /\ Sized /\ Fits(Strip(buf)) => \A i \in DOMAIN Emitted(Strip(buf)) : Fits(Emitted(Strip(buf))[i])
    <2>1. \A kinds : Of(Emitted(Strip(buf)), kinds) = Of(pieces, kinds) \o Only(Strip(buf), kinds)
      BY <1>2, <1>3, EmittedIs
    <2>2. Only(Strip(buf), Shown) = Visible(Strip(buf))
      BY DEF Visible, Shown
    <2> QED
      BY <1>2, <1>3, <2>1, <2>2, EmittedIs
  <1>5. Typed'
    BY <1>1, <1>4 DEF Typed, Text
  <1>6. NothingLost'
    <2>1. Visible(<<>>) = <<>>
      BY OnlyOne DEF Visible
    <2>2. Of(pieces, Shown) \in Seq(Mark) /\ Visible(buf) \in Seq(Mark)
      BY <1>2, Parted DEF Text
    <2>3. (Of(pieces, Shown) \o Visible(buf)) \o <<>> = Of(pieces, Shown) \o Visible(buf)
      BY <2>2
    <2>4. Of(pieces', Shown) \o Visible(buf') = Of(pieces, Shown) \o Visible(buf)
      BY <1>1, <1>3, <1>4, <2>1, <2>3
    <2> QED
      BY <1>1, <1>5, <2>4, Moved
  <1>7. Placed' /\ Held'
    BY <1>1 DEF Placed, Held, Streams
  <1>8. Fits(Strip(buf))
    <2>1. CASE cutter = "sentences"
      <3>1. Len(buf) < MaxSentence
        BY <1>1, <2>1 DEF IInv, Held
      <3>2. MaxSentence \in Nat /\ MaxDelta \in Nat
        BY DEF Limits
      <3>3. Len(Strip(buf)) < MaxSentence + MaxDelta
        BY <1>3, <3>1, <3>2
      <3> QED
        BY <2>1, <3>3 DEF Fits
    <2>2. CASE cutter \in Clauses
      <3>1. Len(Strip(buf)) < MaxClause
        BY <1>1, <2>2 DEF IInv, Held
      <3>2. MaxClause \in Nat /\ MaxDelta \in Nat
        BY DEF Limits
      <3>3. Len(Visible(Strip(buf))) < MaxClause + MaxDelta
        BY <1>3, <3>1, <3>2
      <3> QED
        BY <2>2, <3>3 DEF Fits, Clauses
    <2> QED
      BY <1>1, <2>1, <2>2 DEF Streams, Clauses
  <1>9. Sized'
    <2>1. Sized
      BY DEF IInv
    <2>2. \A p : Fits(p)' <=> Fits(p)
      BY <1>1 DEF Fits
    <2> QED
      BY <1>1, <1>4, <1>8, <2>1, <2>2 DEF Sized
  <1> QED
    BY <1>5, <1>6, <1>7, <1>9 DEF IInv

(***************************************************************************)
(* _split_tts_text: the scan.                                              *)
(***************************************************************************)
LEMMA WordsType ==
  ASSUME NEW s \in Text PROVE Words(s) \in Seq(Text)
  <1>1. s \in Seq(Mark) /\ Len(s) \in 0 .. Len(s)
    BY DEF Text
  <1>2. PICK f \in [0 .. Len(s) -> Heads] :
          Words(s) = IF Last(f[Len(s)]) = <<>> THEN Front(f[Len(s)]) ELSE f[Len(s)]
    BY <1>1, WordsFold
  <1>3. f[Len(s)] \in Seq(Text) /\ f[Len(s)] # <<>>
    BY <1>1 DEF Heads
  <1>4. Front(f[Len(s)]) \in Seq(Text)
    BY <1>3, LastOf
  <1> QED
    BY <1>2, <1>3, <1>4

LEMMA JoinedType ==
  ASSUME NEW ws \in Seq(Text) PROVE Joined(ws) \in Text
  <1>1. CASE ws = <<>>
    BY <1>1 DEF Joined, Text
  <1>2. CASE ws # <<>>
    <2> DEFINE x == [i \in DOMAIN ws |-> <<"space">> \o ws[i]]
               h == <<x[1]>>
               t == Tail(x)
    <2>1. /\ Len(ws) \in Nat \ {0} /\ DOMAIN ws = 1 .. Len(ws)
          /\ \A i \in 1 .. Len(ws) : <<"space">> \o ws[i] \in Seq(Mark) /\ <<"space">> \o ws[i] # <<>>
      <3>1. <<"space">> \in Seq(Mark) /\ Len(<<"space">>) = 1
        BY DEF Mark
      <3>2. ASSUME NEW i \in 1 .. Len(ws)
            PROVE  <<"space">> \o ws[i] \in Seq(Mark) /\ <<"space">> \o ws[i] # <<>>
        <4>1. ws[i] \in Seq(Mark) /\ Len(ws[i]) \in Nat
          BY DEF Text
        <4>2. /\ <<"space">> \o ws[i] \in Seq(Mark)
              /\ Len(<<"space">> \o ws[i]) = Len(<<"space">>) + Len(ws[i])
          BY <3>1, <4>1, ConcatProperties
        <4> QED
          BY <3>1, <4>1, <4>2
      <3> QED
        BY <1>2, <3>2
    <2>2. x \in Seq(Seq(Mark)) /\ Len(x) = Len(ws) /\ x[1] # <<>> /\ x # <<>> /\ x[1] \in Seq(Mark)
      <3>1. \A i \in 1 .. Len(ws) : x[i] = <<"space">> \o ws[i]
        BY <2>1
      <3>2. x \in [1 .. Len(ws) -> Seq(Mark)]
        BY <2>1
      <3> HIDE DEF x
      <3>3. x \in Seq(Seq(Mark)) /\ Len(x) = Len(ws)
        BY <2>1, <3>2
      <3>4. 1 \in 1 .. Len(ws)
        BY <2>1
      <3> QED
        BY <2>1, <3>1, <3>3, <3>4
    <2> HIDE DEF x
    <2>3. h \in Seq(Seq(Mark)) /\ t \in Seq(Seq(Mark)) /\ x = h \o t
      BY <2>2
    <2>4. FlattenSeq(h \o t) = FlattenSeq(h) \o FlattenSeq(t)
      <3> HIDE DEF h, t
      <3> QED
        BY <2>3, FlattenConcat
    <2>5. FlattenSeq(h) = x[1]
      BY <2>2, FlattenOne
    <2>6. FlattenSeq(t) \in Seq(Mark)
      <3> HIDE DEF t
      <3> QED
        BY <2>3, FlattenType
    <2>7. FlattenSeq(x) \in Seq(Mark) /\ FlattenSeq(x) # <<>>
      <3> HIDE DEF h, t
      <3>1. FlattenSeq(x) = x[1] \o FlattenSeq(t)
        BY <2>3, <2>4, <2>5
      <3>2. Len(x[1]) \in Nat \ {0} /\ Len(FlattenSeq(t)) \in Nat
        BY <2>2, <2>6
      <3>3. /\ x[1] \o FlattenSeq(t) \in Seq(Mark)
            /\ Len(x[1] \o FlattenSeq(t)) = Len(x[1]) + Len(FlattenSeq(t))
        BY <2>2, <2>6, ConcatProperties
      <3> QED
        BY <3>1, <3>2, <3>3
    <2>8. Tail(FlattenSeq(x)) \in Seq(Mark)
      BY <2>7
    <2> QED
      BY <1>2, <2>8 DEF Joined, Text, x
  <1> QED
    BY <1>1, <1>2

\* A whole text is received.
LEMMA ReceiveSafe ==
  ASSUME Limits, IInv, Receive PROVE IInv'
  <1>1. PICK n \in 1 .. MaxText : \E text \in [1 .. n -> Char] :
          /\ said' = IF HasCjk(text) THEN Strip(text) ELSE Joined(Words(text))
          /\ unread' = said'
    BY DEF Receive
  <1>2. PICK text \in [1 .. n -> Char] :
          /\ said' = IF HasCjk(text) THEN Strip(text) ELSE Joined(Words(text))
          /\ unread' = said'
    BY <1>1
  <1>3. /\ cutter = "requests" /\ mode' = "scan" /\ buf = <<>> /\ pieces = <<>>
        /\ cutter' = cutter /\ buf' = buf /\ pieces' = pieces
    BY DEF Receive, IInv, Placed, Streams
  <1>4. text \in Text
    <2>1. n \in Nat
      OBVIOUS
    <2>2. text \in Seq(Char)
      BY <2>1
    <2> QED
      BY <2>2 DEF Text, Mark
  <1>5. said' \in Text /\ unread' \in Text
    BY <1>2, <1>4, StripIs, WordsType, JoinedType
  <1>6. Typed'
    BY <1>3, <1>5 DEF Typed, Text, Cutter
  <1>7. NothingLost'
    <2>1. Visible(<<>>) = <<>> /\ Of(<<>>, Shown) = <<>>
      BY OnlyOne, OfParts DEF Visible
    <2>2. NothingLost' <=> (Of(pieces', Shown) \o Visible(buf')) \o Visible(unread') = Visible(said')
      <3>1. pieces' \in Seq(Text) /\ buf' \in Text /\ unread' \in Text
        BY <1>6 DEF Typed
      <3>2. Visible(FlattenSeq(pieces') \o buf' \o unread')
              = (Of(pieces', Shown) \o Visible(buf')) \o Visible(unread')
        BY <3>1, Summed
      <3> QED
        BY <3>2 DEF NothingLost
    <2>3. Visible(unread') \in Seq(Mark) /\ <<>> \in Seq(Mark)
      BY <1>5, VisibleIs DEF Text
    <2>4. (<<>> \o <<>>) \o Visible(unread') = Visible(unread')
      BY <2>3
    <2> QED
      BY <1>2, <1>3, <2>1, <2>2, <2>4
  <1>8. Placed'
    BY <1>3 DEF Placed, Streams
  <1>9. Held'
    <2>1. Only(buf', Solid) = <<>>
      BY <1>3, OnlyOne
    <2> QED
      BY <1>3, <2>1 DEF Held, Limits, Clauses
  <1>10. Sized'
    BY <1>3 DEF Sized
  <1> QED
    BY <1>6, <1>7, <1>8, <1>9, <1>10 DEF IInv

\* One character of a kind makes one at least of that kind.
LEMMA OnlySome ==
  ASSUME NEW S, NEW s \in Seq(S), NEW kinds, NEW k \in 1 .. Len(s), s[k] \in kinds
  PROVE  Len(Only(s, kinds)) >= 1
  <1>1. PICK f \in [0 .. Len(s) -> Seq(S)] : OnlyUpto(f, s, kinds) /\ Only(s, kinds) = f[Len(s)]
    BY OnlyIs
  <1> DEFINE T == {i \in 0 .. Len(s) : i >= k => Len(f[i]) >= 1}
  <1>2. 0 \in T
    OBVIOUS
  <1>3. ASSUME NEW i \in 1 .. Len(s), i - 1 \in T PROVE i \in T
    <2>1. f[i - 1] \in Seq(S) /\ s[i] \in S
      OBVIOUS
    <2>2. f[i] = IF s[i] \in kinds THEN Append(f[i - 1], s[i]) ELSE f[i - 1]
      BY <1>1 DEF OnlyUpto
    <2>3. Len(Append(f[i - 1], s[i])) = Len(f[i - 1]) + 1 /\ Len(f[i - 1]) \in Nat
      BY <2>1
    <2>4. CASE i = k
      BY <2>2, <2>3, <2>4
    <2>5. CASE i > k
      <3>a. k \in Int /\ i \in Int
        OBVIOUS
      <3>b. i - 1 >= k
        BY <2>5, <3>a
      <3>1. Len(f[i - 1]) >= 1
        BY <1>3, <3>b
      <3>2. Len(f[i]) >= 1
        BY <2>2, <2>3, <3>1
      <3> QED
        BY <3>2
    <2>6. CASE i < k
      BY <2>6
    <2> QED
      BY <2>4, <2>5, <2>6
  <1>4. Len(s) \in Nat
    OBVIOUS
  <1> HIDE DEF T
  <1>5. \A i \in 0 .. Len(s) : i \in T
    BY <1>2, <1>3, <1>4, Induction
  <1>6. Len(s) \in T /\ Len(s) >= k
    BY <1>4, <1>5
  <1> QED
    BY <1>1, <1>6 DEF T

\* A character joins the request, or a request is complete, or the request is cut
\* behind a comma.
Joins(b) == buf' = b /\ pieces' = pieces /\ Len(Only(b, Solid)) < AtomLimit

Cuts(b) ==
  \E cut \in 1 .. Len(b) :
    /\ b[cut] = "colon"
    /\ buf' = LStrip(SubSeq(b, cut + 1, Len(b)))
    /\ pieces' = Emitted(Strip(SubSeq(b, 1, cut)))

LEMMA ScanIs ==
  ASSUME Limits, IInv, Scan
  PROVE  LET b == Append(buf, Head(unread)) IN Joins(b) \/ FlushCurrent(b) \/ Cuts(b)
  <1> DEFINE c == Head(unread)
             b == Append(buf, c)
  <1>1. /\ buf \in Seq(Mark) /\ c \in Mark /\ b \in Text /\ Len(Only(buf, Solid)) < AtomLimit
        /\ buf \in Text
    <2>1. buf \in Seq(Mark) /\ unread \in Seq(Mark) /\ unread # <<>>
      BY DEF IInv, Typed, Text, Scan
    <2>2. mode = "scan"
      BY DEF Scan
    <2>3. Len(Only(buf, Solid)) < AtomLimit
      BY <2>2 DEF IInv, Held
    <2> QED
      BY <2>1, <2>3 DEF Text
  <1>2. IF c \in HardBreak
        THEN IF c = "query" /\ ContinuesAtom(AtomPrefix(buf), unread')
             THEN buf' = b /\ UNCHANGED pieces ELSE FlushCurrent(b)
        ELSE IF Len(Strip(b)) >= MaxReq THEN AtLimit(b, unread')
        ELSE buf' = b /\ UNCHANGED pieces
    BY DEF Scan
  <1>a. Only(b, Solid) = Only(buf, Solid) \o Only(<<c>>, Solid) /\ Only(buf, Solid) \in Seq(Mark)
    <2>1. b = buf \o <<c>> /\ <<c>> \in Seq(Mark)
      BY <1>1
    <2> HIDE DEF b, c
    <2>2. Only(buf, Solid) \in Seq(Mark)
      BY <1>1, OnlyType
    <2>3. Only(buf \o <<c>>, Solid) = Only(buf, Solid) \o Only(<<c>>, Solid)
      BY <1>1, <2>1, OnlyTexts
    <2> QED
      BY <2>1, <2>2, <2>3
  <1> HIDE DEF b
  <1>b. /\ Len(Only(b, Solid)) \in Nat /\ Len(Only(b, Solid)) <= Len(b) /\ Len(b) \in Nat
        /\ Len(Strip(b)) \in Nat /\ Len(Only(b, Solid)) <= Len(Strip(b))
    <2>1. b \in Seq(Mark) /\ Strip(b) \in Seq(Mark) /\ Only(Strip(b), Solid) = Only(b, Solid)
      BY <1>1, StripIs DEF Text, Solid
    <2>2. Only(b, Solid) \in Seq(Mark) /\ Len(Only(b, Solid)) <= Len(b)
      BY <2>1, OnlyType
    <2>3. Len(Only(Strip(b), Solid)) <= Len(Strip(b))
      BY <2>1, OnlyType
    <2> QED
      BY <2>1, <2>2, <2>3
  <1>3. CASE c = "query" /\ buf' = b /\ UNCHANGED pieces
    <2>1. Only(<<c>>, Solid) = <<>>
      <3>1. c \notin Solid
        BY <1>3 DEF Solid
      <3> HIDE DEF c
      <3> QED
        BY <1>1, <3>1, OnlyOne
    <2>2. Only(b, Solid) = Only(buf, Solid)
      BY <1>a, <2>1
    <2> QED
      BY <1>1, <1>3, <2>2 DEF Joins, b
  <1>4. CASE ~(Len(Strip(b)) >= MaxReq) /\ buf' = b /\ UNCHANGED pieces
    <2>1. Len(Only(b, Solid)) < AtomLimit
      BY <1>4, <1>b DEF Limits
    <2> QED
      BY <1>4, <2>1 DEF Joins, b
  <1>5. CASE AtLimit(b, unread')
    <2> DEFINE I   == {i \in 1 .. Len(b) : b[i] = "colon"}
               cut == IF I # {} THEN Max(I) ELSE 0
    <2>1. \/ MayGrow(b, unread') /\ buf' = b /\ UNCHANGED pieces
          \/ /\ cut > MaxReq \div 3
             /\ buf' = LStrip(SubSeq(b, cut + 1, Len(b)))
             /\ pieces' = Emitted(Strip(SubSeq(b, 1, cut)))
          \/ FlushCurrent(b)
      BY <1>5 DEF AtLimit, SelectLastInSeq
    <2>2. MayGrow(b, unread') => Len(b) < AtomLimit
      BY DEF MayGrow
    <2>3. cut \in 0 .. Len(b) /\ (cut # 0 => cut \in I)
      <3>1. I \in SUBSET (1 .. Len(b))
        OBVIOUS
      <3> HIDE DEF I
      <3> QED
        BY <1>b, <3>1, LastIn
    <2>4. MaxReq \div 3 >= 0
      BY DEF Limits
    <2>5. cut > MaxReq \div 3 => cut \in 1 .. Len(b) /\ b[cut] = "colon"
      <3> HIDE DEF cut
      <3>1. MaxReq \div 3 \in Int
        BY DEF Limits
      <3>2. cut > MaxReq \div 3 => cut # 0
        BY <2>3, <2>4, <3>1
      <3> QED
        BY <2>3, <3>2
    <2> HIDE DEF cut
    <2>6. MayGrow(b, unread') => Len(Only(b, Solid)) < AtomLimit
      BY <1>b, <2>2 DEF Limits
    <2> QED
      BY <2>1, <2>5, <2>6 DEF Joins, Cuts, b
  <1> QED
    BY <1>2, <1>3, <1>4, <1>5 DEF b

\* What is left of a request when a character has joined it.
LEMMA ScanMoved ==
  ASSUME IInv, Typed', said' = said, unread # <<>>, unread' = Tail(unread),
         Of(pieces', Shown) \o Visible(buf')
           = Of(pieces, Shown) \o Visible(Append(buf, Head(unread)))
  PROVE  NothingLost'
  <1> DEFINE c == <<Head(unread)>>
             t == Tail(unread)
             P == Of(pieces, Shown)
  <1>1. /\ buf \in Seq(Mark) /\ c \in Seq(Mark) /\ t \in Seq(Mark)
        /\ unread = c \o t /\ Append(buf, Head(unread)) = buf \o c
    <2>1. buf \in Seq(Mark) /\ unread \in Seq(Mark)
      BY DEF IInv, Typed, Text
    <2> QED
      BY <2>1
  <1> HIDE DEF c, t
  <1>2. Visible(unread) = Visible(c) \o Visible(t) /\ Visible(buf \o c) = Visible(buf) \o Visible(c)
    BY <1>1, Texts
  <1>3. /\ P \in Seq(Mark) /\ Visible(buf) \in Seq(Mark) /\ Visible(c) \in Seq(Mark)
        /\ Visible(t) \in Seq(Mark)
    <2>1. pieces \in Seq(Text) /\ buf \in Text /\ c \in Text /\ t \in Text
      BY <1>1 DEF IInv, Typed, Text
    <2> QED
      BY <2>1, Parted, VisibleIs DEF Text
  <1> HIDE DEF P
  <1>4. (P \o Visible(buf)) \o Visible(c) = P \o (Visible(buf) \o Visible(c))
    BY <1>3, TextAssociative
  <1>5. ((P \o Visible(buf)) \o Visible(c)) \o Visible(t) = (P \o Visible(buf)) \o (Visible(c) \o Visible(t))
    <2>1. P \o Visible(buf) \in Seq(Mark)
      BY <1>3
    <2> QED
      BY <1>3, <2>1, TextAssociative
  <1>6. Of(pieces', Shown) \o Visible(buf') = (P \o Visible(buf)) \o Visible(c)
    BY <1>1, <1>2, <1>4 DEF P
  <1>7. (Of(pieces', Shown) \o Visible(buf')) \o Visible(unread')
          = (Of(pieces, Shown) \o Visible(buf)) \o Visible(unread)
    BY <1>2, <1>5, <1>6 DEF P, t
  <1> QED
    BY <1>7, Moved

\* A piece that shows what another text shows.
LEMMA PieceIs ==
  ASSUME Typed, NEW p \in Text
  PROVE  /\ Emitted(p) \in Seq(Text)
         /\ Of(Emitted(p), Shown) = Of(pieces, Shown) \o Visible(p)
         /\ Sized /\ Fits(p) => \A i \in DOMAIN Emitted(p) : Fits(Emitted(p)[i])
  <1>1. pieces \in Seq(Text)
    BY DEF Typed
  <1>2. \A kinds : Of(Emitted(p), kinds) = Of(pieces, kinds) \o Only(p, kinds)
    BY <1>1, EmittedIs
  <1>3. Only(p, Shown) = Visible(p)
    BY DEF Visible, Shown
  <1>4. /\ Emitted(p) \in Seq(Text)
        /\ Sized /\ Fits(p) => \A i \in DOMAIN Emitted(p) : Fits(Emitted(p)[i])
    BY <1>1, EmittedIs
  <1> QED
    BY <1>2, <1>3, <1>4

\* The letters of a text that is stripped or not.
LEMMA AtomsIs ==
  ASSUME NEW b \in Text
  PROVE  /\ Part(b) \in Text /\ Visible(Part(b)) = Visible(b) /\ Only(Part(b), Atoms) = Only(b, Atoms)
         /\ Only(Strip(b), Atoms) = Only(b, Atoms)
         /\ Len(Only(b, Atoms)) \in Nat /\ Len(Only(b, Solid)) \in Nat
         /\ Len(Only(b, Atoms)) <= Len(Only(b, Solid)) /\ Len(Only(b, Atoms)) <= Len(b)
         /\ Only(LStrip(b), Solid) = Only(b, Solid)
  <1>1. b \in Seq(Mark) /\ "space" \notin Atoms /\ "space" \notin Solid /\ Atoms \subseteq Solid
    BY DEF Text, Atoms, Solid
  <1>2. Strip(b) \in Text /\ Visible(Strip(b)) = Visible(b) /\ Only(Strip(b), Atoms) = Only(b, Atoms)
    BY <1>1, StripIs, VisibleIs
  <1>3. /\ Only(b, Atoms) \in Seq(Mark) /\ Only(b, Solid) \in Seq(Mark)
        /\ Len(Only(b, Atoms)) <= Len(b)
    BY <1>1, OnlyType
  <1>4. Len(Only(b, Atoms)) <= Len(Only(b, Solid))
    BY <1>1, OnlyMore
  <1>5. Only(LStrip(b), Solid) = Only(b, Solid)
    BY <1>1, LStripIs
  <1> QED
    BY <1>2, <1>3, <1>4, <1>5 DEF Part

\* One character of the loop.
LEMMA ScanSafe ==
  ASSUME Limits, IInv, Scan PROVE IInv'
  <1> DEFINE b == Append(buf, Head(unread))
  <1>1. /\ mode = "scan" /\ mode' = "scan" /\ unread # <<>> /\ unread' = Tail(unread) /\ Typed
        /\ cutter = "requests" /\ cutter' = cutter /\ said' = said /\ Sized
        /\ Len(Only(buf, Solid)) < AtomLimit
    BY DEF Scan, IInv, Placed, Held
  <1>2. /\ buf \in Seq(Mark) /\ Head(unread) \in Mark /\ b \in Text /\ unread' \in Text
        /\ buf \in Text /\ pieces \in Seq(Text)
    <2>1. buf \in Seq(Mark) /\ unread \in Seq(Mark) /\ unread # <<>>
      BY <1>1 DEF Typed, Text
    <2> QED
      BY <1>1, <2>1 DEF Typed, Text
  <1>3. Len(Only(b, Solid)) <= AtomLimit
    <2>1. b = buf \o <<Head(unread)>> /\ <<Head(unread)>> \in Seq(Mark) /\ Len(<<Head(unread)>>) = 1
      BY <1>2
    <2>2. Only(b, Solid) = Only(buf, Solid) \o Only(<<Head(unread)>>, Solid)
      BY <1>2, <2>1, OnlyTexts
    <2>3. /\ Only(buf, Solid) \in Seq(Mark) /\ Only(<<Head(unread)>>, Solid) \in Seq(Mark)
          /\ Len(Only(<<Head(unread)>>, Solid)) <= 1
      BY <1>2, <2>1, OnlyType
    <2>4. Len(Only(b, Solid)) = Len(Only(buf, Solid)) + Len(Only(<<Head(unread)>>, Solid))
      BY <2>2, <2>3
    <2>5. AtomLimit \in Nat
      BY DEF Limits
    <2> QED
      BY <1>1, <2>3, <2>4, <2>5
  <1>4. Joins(b) \/ FlushCurrent(b) \/ Cuts(b)
    BY ScanIs
  <1> HIDE DEF b
  <1>5. \A p : (Fits(p)' <=> Fits(p)) /\ (Fits(p) <=> Len(Only(p, Atoms)) <= AtomLimit)
    BY <1>1 DEF Fits, Atoms
  <1>6. Placed'
    BY <1>1 DEF Placed, Streams
  <1>7. /\ buf' \in Text /\ pieces' \in Seq(Text)
        /\ Of(pieces', Shown) \o Visible(buf') = Of(pieces, Shown) \o Visible(b)
        /\ Len(Only(buf', Solid)) < AtomLimit /\ Sized'
    <2>a. AtomLimit \in Nat /\ AtomLimit >= 1
      BY DEF Limits
    <2>b. Of(pieces, Shown) \in Seq(Mark) /\ Visible(b) \in Seq(Mark)
      BY <1>2, Parted, VisibleIs DEF Text
    <2>1. CASE Joins(b)
      BY <1>1, <1>2, <1>5, <2>1 DEF Joins, Sized
    <2>2. CASE FlushCurrent(b)
      <3>1. /\ Part(b) \in Text /\ Visible(Part(b)) = Visible(b)
            /\ Len(Only(Part(b), Atoms)) <= AtomLimit
        BY <1>2, <1>3, <2>a, AtomsIs
      <3>2. buf' = <<>> /\ pieces' = Emitted(Part(b))
        BY <2>2 DEF FlushCurrent
      <3>3. /\ pieces' \in Seq(Text)
            /\ Of(pieces', Shown) = Of(pieces, Shown) \o Visible(b)
            /\ \A i \in DOMAIN pieces' : Fits(pieces'[i])
        BY <1>1, <1>5, <3>1, <3>2, PieceIs
      <3>4. Visible(<<>>) = <<>> /\ Only(<<>>, Solid) = <<>>
        BY OnlyOne DEF Visible
      <3>5. (Of(pieces, Shown) \o Visible(b)) \o <<>> = Of(pieces, Shown) \o Visible(b)
        BY <2>b
      <3>6. Sized'
        BY <1>5, <3>3 DEF Sized
      <3>7. buf' \in Text /\ Len(Only(buf', Solid)) < AtomLimit
        BY <2>a, <3>2, <3>4 DEF Text
      <3> QED
        BY <3>2, <3>3, <3>4, <3>5, <3>6, <3>7
    <2>3. CASE Cuts(b)
      <3>1. PICK cut \in 1 .. Len(b) :
              /\ b[cut] = "colon"
              /\ buf' = LStrip(SubSeq(b, cut + 1, Len(b)))
              /\ pieces' = Emitted(Strip(SubSeq(b, 1, cut)))
        BY <2>3 DEF Cuts
      <3> DEFINE a == SubSeq(b, 1, cut)
                 r == SubSeq(b, cut + 1, Len(b))
      <3>2. cut \in 0 .. Len(b) /\ b \in Seq(Mark)
        BY <1>2 DEF Text
      <3>3. /\ a \in Text /\ r \in Text /\ Visible(b) = Visible(a) \o Visible(r)
            /\ a[cut] = "colon" /\ Len(a) = cut
            /\ Len(Only(b, Solid)) = Len(Only(a, Solid)) + Len(Only(r, Solid))
        <4>1. a \in Text /\ r \in Text /\ Visible(b) = Visible(a) \o Visible(r) /\ Len(a) = cut
          BY <1>2, <3>2, VisibleIs
        <4>2. a[cut] = b[cut]
          BY <3>2, CutAt
        <4>3. Len(Only(b, Solid)) = Len(Only(a, Solid)) + Len(Only(r, Solid))
          BY <3>2, OnlyCut
        <4> QED
          BY <3>1, <4>1, <4>2, <4>3
      <3>4. buf' = LStrip(r) /\ pieces' = Emitted(Strip(a))
        BY <3>1
      <3> HIDE DEF a, r
      <3>5. Len(Only(a, Solid)) >= 1
        <4>1. a \in Seq(Mark) /\ cut \in 1 .. Len(a) /\ a[cut] \in Solid
          BY <3>3 DEF Text, Solid
        <4> QED
          BY <4>1, OnlySome
      <3>6. /\ Only(LStrip(r), Solid) = Only(r, Solid) /\ LStrip(r) \in Text
            /\ Visible(LStrip(r)) = Visible(r) /\ Len(Only(r, Solid)) \in Nat
        BY <3>3, AtomsIs, LStripIs, VisibleIs
      <3>7. /\ Strip(a) \in Text /\ Visible(Strip(a)) = Visible(a)
            /\ Only(Strip(a), Atoms) = Only(a, Atoms) /\ Len(Only(a, Atoms)) <= Len(Only(a, Solid))
            /\ Len(Only(a, Atoms)) \in Nat /\ Len(Only(a, Solid)) \in Nat
        BY <3>3, AtomsIs, StripIs, VisibleIs
      <3>8. Len(Only(buf', Solid)) < AtomLimit
        BY <1>3, <2>a, <3>3, <3>4, <3>5, <3>6, <3>7
      <3>9. Len(Only(Strip(a), Atoms)) <= AtomLimit
        BY <1>3, <2>a, <3>3, <3>6, <3>7
      <3>10. /\ pieces' \in Seq(Text)
             /\ Of(pieces', Shown) = Of(pieces, Shown) \o Visible(a)
             /\ \A i \in DOMAIN pieces' : Fits(pieces'[i])
        BY <1>1, <1>5, <3>4, <3>7, <3>9, PieceIs
      <3>11. (Of(pieces, Shown) \o Visible(a)) \o Visible(r) = Of(pieces, Shown) \o (Visible(a) \o Visible(r))
        <4>1. Visible(a) \in Seq(Mark) /\ Visible(r) \in Seq(Mark)
          BY <3>3, VisibleIs DEF Text
        <4> QED
          BY <2>b, <4>1, TextAssociative
      <3>12. Of(pieces', Shown) \o Visible(buf') = Of(pieces, Shown) \o Visible(b)
        BY <3>3, <3>4, <3>6, <3>10, <3>11
      <3>13. Sized'
        BY <1>5, <3>10 DEF Sized
      <3> QED
        BY <3>4, <3>6, <3>8, <3>10, <3>12, <3>13
    <2> QED
      BY <1>4, <2>1, <2>2, <2>3
  <1>8. Typed'
    BY <1>1, <1>2, <1>7 DEF Typed
  <1>9. NothingLost'
    BY <1>1, <1>7, <1>8, ScanMoved DEF b
  <1>10. Held'
    BY <1>1, <1>7 DEF Held, Clauses
  <1> QED
    BY <1>6, <1>7, <1>8, <1>9, <1>10 DEF IInv

\* The end of the scan.
LEMMA ScanEndsSafe ==
  ASSUME Limits, IInv, ScanEnds PROVE IInv'
  <1>1. /\ mode = "scan" /\ mode' = "pack" /\ unread = <<>> /\ unread' = unread /\ Typed
        /\ cutter = "requests" /\ cutter' = cutter /\ said' = said /\ Sized
        /\ buf' = <<>> /\ pieces' = Emitted(Part(buf)) /\ Len(Only(buf, Solid)) < AtomLimit
    BY DEF ScanEnds, FlushCurrent, IInv, Placed, Held
  <1>2. buf \in Text /\ pieces \in Seq(Text)
    BY <1>1 DEF Typed
  <1>3. AtomLimit \in Nat
    BY DEF Limits
  <1>4. Part(buf) \in Text /\ Visible(Part(buf)) = Visible(buf) /\ Len(Only(Part(buf), Atoms)) <= AtomLimit
    BY <1>1, <1>2, <1>3, AtomsIs
  <1>5. \A p : (Fits(p)' <=> Fits(p)) /\ (Fits(p) <=> Len(Only(p, Atoms)) <= AtomLimit)
    BY <1>1 DEF Fits, Atoms
  <1>6. /\ pieces' \in Seq(Text)
        /\ Of(pieces', Shown) = Of(pieces, Shown) \o Visible(buf)
        /\ \A i \in DOMAIN pieces' : Fits(pieces'[i])
    BY <1>1, <1>4, <1>5, PieceIs
  <1>7. Typed'
    BY <1>1, <1>6 DEF Typed, Text
  <1>8. NothingLost'
    <2>1. Visible(<<>>) = <<>>
      BY OnlyOne DEF Visible
    <2>2. Of(pieces, Shown) \in Seq(Mark) /\ Visible(buf) \in Seq(Mark)
      BY <1>2, Parted DEF Text
    <2>3. (Of(pieces, Shown) \o Visible(buf)) \o <<>> = Of(pieces, Shown) \o Visible(buf)
      BY <2>2
    <2>4. Of(pieces', Shown) \o Visible(buf') = Of(pieces, Shown) \o Visible(buf)
      BY <1>1, <1>6, <2>1, <2>3
    <2> QED
      BY <1>1, <1>7, <2>4, Moved
  <1>9. Placed' /\ Held'
    BY <1>1 DEF Placed, Held, Streams, Clauses
  <1>10. Sized'
    BY <1>5, <1>6 DEF Sized
  <1> QED
    BY <1>7, <1>8, <1>9, <1>10 DEF IInv

(***************************************************************************)
(* What a fold leaves of the characters.                                   *)
(***************************************************************************)
\* A sum over the parts, one after the other, and over the characters.
LEMMA SumOf ==
  ASSUME NEW x \in Seq(Text), NEW kinds, NEW a, a[0] = <<>>,
         \A i \in 1 .. Len(x) : a[i] = a[i - 1] \o Only(x[i], kinds)
  PROVE  a[Len(x)] = Of(x, kinds)
  <1> DEFINE n == Len(x)
  <1>1. n \in Nat /\ x \in Seq(Seq(Mark)) /\ \A i \in 1 .. n : x[i] \in Seq(Mark)
    BY DEF Text
  <1>2. PICK F \in [0 .. n -> Seq(Mark)] : FlattenUpto(F, x) /\ FlattenSeq(x) = F[n]
    BY <1>1, FlattenIs
  <1> DEFINE T == {i \in 0 .. n : a[i] = Only(F[i], kinds)}
  <1>3. 0 \in T
    <2>1. F[0] = <<>> /\ Only(<<>>, kinds) = <<>>
      BY <1>2, OnlyOne DEF FlattenUpto
    <2> QED
      BY <1>1, <2>1
  <1>4. ASSUME NEW i \in 1 .. n, i - 1 \in T PROVE i \in T
    <2>1. F[i] = F[i - 1] \o x[i] /\ F[i - 1] \in Seq(Mark)
      <3>1. F[i] = F[i - 1] \o x[i]
        BY <1>2 DEF FlattenUpto
      <3>2. i - 1 \in 0 .. n
        BY <1>1
      <3> QED
        BY <1>2, <3>1, <3>2
    <2>2. Only(F[i - 1] \o x[i], kinds) = Only(F[i - 1], kinds) \o Only(x[i], kinds)
      BY <1>1, <2>1, OnlyTexts
    <2>3. a[i - 1] = Only(F[i - 1], kinds) /\ i \in 0 .. n
      BY <1>1, <1>4
    <2> QED
      BY <2>1, <2>2, <2>3
  <1> HIDE DEF T
  <1>5. \A i \in 0 .. n : i \in T
    <2> HIDE DEF n
    <2> QED
      BY <1>1, <1>3, <1>4, Induction
  <1>6. n \in T
    BY <1>1, <1>5
  <1> QED
    BY <1>2, <1>6 DEF Of, T

LEMMA SumOnly ==
  ASSUME NEW s \in Text, NEW kinds, NEW a, a[0] = <<>>,
         \A i \in 1 .. Len(s) : a[i] = a[i - 1] \o Only(<<s[i]>>, kinds)
  PROVE  a[Len(s)] = Only(s, kinds)
  <1> DEFINE n == Len(s)
  <1>1. n \in Nat /\ s \in Seq(Mark) /\ \A i \in 1 .. n : s[i] \in Mark
    BY DEF Text
  <1>2. PICK f \in [0 .. n -> Seq(Mark)] : OnlyUpto(f, s, kinds) /\ Only(s, kinds) = f[n]
    BY <1>1, OnlyIs
  <1> DEFINE T == {i \in 0 .. n : a[i] = f[i]}
  <1>3. 0 \in T
    BY <1>1, <1>2 DEF OnlyUpto
  <1>4. ASSUME NEW i \in 1 .. n, i - 1 \in T PROVE i \in T
    <2>1. f[i - 1] \in Seq(Mark) /\ f[i] = IF s[i] \in kinds THEN Append(f[i - 1], s[i]) ELSE f[i - 1]
      BY <1>2 DEF OnlyUpto
    <2>2. Only(<<s[i]>>, kinds) = IF s[i] \in kinds THEN <<s[i]>> ELSE <<>>
      BY <1>1, OnlyOne
    <2>3. f[i - 1] \o <<s[i]>> = Append(f[i - 1], s[i]) /\ f[i - 1] \o <<>> = f[i - 1]
      BY <1>1, <2>1
    <2>4. a[i - 1] = f[i - 1] /\ i \in 0 .. n
      BY <1>1, <1>4
    <2> QED
      BY <2>1, <2>2, <2>3, <2>4
  <1> HIDE DEF T
  <1>5. \A i \in 0 .. n : i \in T
    <2> HIDE DEF n
    <2> QED
      BY <1>1, <1>3, <1>4, Induction
  <1>6. n \in T
    BY <1>1, <1>5
  <1> QED
    BY <1>2, <1>6 DEF T

\* The sums are texts.
LEMMA OfText ==
  ASSUME NEW kinds
  PROVE  /\ \A x \in Seq(Text) : Of(x, kinds) \in Seq(Mark)
         /\ \A s \in Seq(Mark) : Only(s, kinds) \in Seq(Mark)
         /\ \A x \in Seq(Text), p \in Text : Of(Append(x, p), kinds) = Of(x, kinds) \o Only(p, kinds)
         /\ \A x, y \in Seq(Text) : Of(x \o y, kinds) = Of(x, kinds) \o Of(y, kinds)
  <1>1. \A s \in Seq(Mark) : Only(s, kinds) \in Seq(Mark)
    BY OnlyType
  <1>2. \A x \in Seq(Seq(Mark)) : Of(x, kinds) \in Seq(Mark)
    BY OfParts
  <1>3. ASSUME NEW x \in Seq(Seq(Mark)), NEW y \in Seq(Seq(Mark))
        PROVE  Of(x \o y, kinds) = Of(x, kinds) \o Of(y, kinds)
    BY OfConcat
  <1>4. \A x \in Seq(Seq(Mark)), p \in Seq(Mark) : Of(Append(x, p), kinds) = Of(x, kinds) \o Only(p, kinds)
    <2>1. Appends(Mark, kinds)
      BY OfAppend
    <2> QED
      BY <2>1 DEF Appends
  <1> QED
    BY <1>1, <1>2, <1>3, <1>4 DEF Text

\* The last part grows.
Regrows(ps, kinds) ==
  \A x \in Text, y \in Seq(Mark) :
     Only(x, kinds) = Only(Last(ps), kinds) \o y =>
       Append(Front(ps), x) \in Heads /\ Of(Append(Front(ps), x), kinds) = Of(ps, kinds) \o y

LEMMA Regrowing ==
  ASSUME NEW ps \in Heads, NEW kinds PROVE Regrows(ps, kinds)
  <1> SUFFICES ASSUME NEW x \in Text, NEW y \in Seq(Mark), Only(x, kinds) = Only(Last(ps), kinds) \o y
               PROVE  Append(Front(ps), x) \in Heads /\ Of(Append(Front(ps), x), kinds) = Of(ps, kinds) \o y
    BY DEF Regrows
  <1>1. ps \in Seq(Seq(Mark)) /\ ps # <<>> /\ x \in Seq(Mark)
    BY DEF Heads, Text
  <1>2. /\ Front(ps) \in Seq(Text) /\ Last(ps) \in Seq(Mark)
        /\ Of(ps, kinds) = Of(Front(ps), kinds) \o Only(Last(ps), kinds)
    BY <1>1, OfLast DEF Text
  <1>3. Append(Front(ps), x) \in Heads
    BY <1>2, AppendIs DEF Heads
  <1>4. Of(Append(Front(ps), x), kinds) = Of(Front(ps), kinds) \o Only(x, kinds)
    BY <1>2, OfText
  <1>5. Of(Front(ps), kinds) \in Seq(Mark) /\ Only(Last(ps), kinds) \in Seq(Mark)
    BY <1>2, OfText
  <1>6. (Of(Front(ps), kinds) \o Only(Last(ps), kinds)) \o y
          = Of(Front(ps), kinds) \o (Only(Last(ps), kinds) \o y)
    BY <1>5, TextAssociative
  <1> QED
    BY <1>2, <1>3, <1>4, <1>6

LEMMA Regrown ==
  ASSUME NEW ps \in Heads, NEW x \in Text, NEW kinds, NEW y \in Seq(Mark),
         Only(x, kinds) = Only(Last(ps), kinds) \o y
  PROVE  Append(Front(ps), x) \in Heads /\ Of(Append(Front(ps), x), kinds) = Of(ps, kinds) \o y
  <1>1. Regrows(ps, kinds)
    BY Regrowing
  <1> QED
    BY <1>1 DEF Regrows

\* Texts and spaces are texts.
LEMMA SpacedText ==
  ASSUME NEW p \in Text, NEW w \in Text
  PROVE  p \o <<"space">> \o w \in Text /\ p \o w \in Text /\ Append(p, "space") \in Text
  <1>1. "space" \in Mark /\ p \in Seq(Mark) /\ w \in Seq(Mark)
    BY DEF Text, Mark
  <1>2. <<"space">> \in Seq(Mark) /\ p \o w \in Seq(Mark) /\ Append(p, "space") \in Seq(Mark)
    BY <1>1
  <1>3. p \o <<"space">> \in Seq(Mark)
    BY <1>1, <1>2
  <1>4. (p \o <<"space">>) \o w \in Seq(Mark)
    BY <1>1, <1>3
  <1> QED
    BY <1>2, <1>4 DEF Text

\* A space between two texts shows nothing.
LEMMA SpacedIs ==
  ASSUME NEW p \in Text, NEW w \in Text, NEW kinds, "space" \notin kinds
  PROVE  /\ p \o <<"space">> \o w \in Text /\ p \o w \in Text /\ Append(p, "space") \in Text
         /\ Only(p \o <<"space">> \o w, kinds) = Only(p, kinds) \o Only(w, kinds)
         /\ Only(p \o w, kinds) = Only(p, kinds) \o Only(w, kinds)
         /\ Only(Append(p, "space"), kinds) = Only(p, kinds) \o <<>>
         /\ Len(p \o <<"space">> \o w) = Len(p) + 1 + Len(w) /\ Len(p \o w) = Len(p) + Len(w)
  <1>1. p \in Seq(Mark) /\ w \in Seq(Mark) /\ <<"space">> \in Seq(Mark) /\ Len(<<"space">>) = 1
    BY DEF Text, Mark
  <1>2. Only(<<"space">>, kinds) = <<>>
    <2>1. "space" \in Mark
      BY DEF Mark
    <2> QED
      BY <2>1, OnlyOne
  <1>3. p \o <<"space">> \in Seq(Mark) /\ Len(p \o <<"space">>) = Len(p) + 1 /\ Append(p, "space") = p \o <<"space">>
    <2>1. "space" \in Mark
      BY DEF Mark
    <2> QED
      BY <1>1, <2>1
  <1>4. /\ Only((p \o <<"space">>) \o w, kinds) = Only(p \o <<"space">>, kinds) \o Only(w, kinds)
        /\ Only(p \o <<"space">>, kinds) = Only(p, kinds) \o Only(<<"space">>, kinds)
        /\ Only(p \o w, kinds) = Only(p, kinds) \o Only(w, kinds)
    BY <1>1, <1>3, OnlyTexts
  <1>5. Only(p, kinds) \in Seq(Mark) /\ Only(p, kinds) \o <<>> = Only(p, kinds)
    <2>1. Only(p, kinds) \in Seq(Mark)
      BY <1>1, OnlyType
    <2> QED
      BY <2>1
  <1>6. /\ (p \o <<"space">>) \o w \in Seq(Mark) /\ Len((p \o <<"space">>) \o w) = Len(p \o <<"space">>) + Len(w)
        /\ p \o w \in Seq(Mark) /\ Len(p \o w) = Len(p) + Len(w)
    BY <1>1, <1>3, ConcatProperties
  <1> QED
    BY <1>2, <1>3, <1>4, <1>5, <1>6 DEF Text

\* No part has more of some kinds than all of them.
LEMMA OfMember ==
  ASSUME NEW ps \in Seq(Text), NEW k \in 1 .. Len(ps), NEW kinds
  PROVE  Len(Only(ps[k], kinds)) <= Len(Of(ps, kinds))
  <1> DEFINE a == SubSeq(ps, 1, k - 1)
             r == SubSeq(ps, k - 1 + 1, Len(ps))
             b == SubSeq(r, 1, 1)
             c == SubSeq(r, 1 + 1, Len(r))
  <1>1. Len(ps) \in Nat /\ k - 1 \in 0 .. Len(ps)
    OBVIOUS
  <1>2. /\ a \in Seq(Text) /\ r \in Seq(Text) /\ ps = a \o r /\ Len(r) = Len(ps) - (k - 1)
        /\ \A i \in 1 .. Len(ps) - (k - 1) : r[i] = ps[(k - 1) + i]
    BY <1>1, CutAt
  <1> HIDE DEF a, r
  <1>3. 1 \in 0 .. Len(r) /\ r[1] = ps[k] /\ ps[k] \in Text
    <2>1. 1 \in 1 .. Len(ps) - (k - 1) /\ (k - 1) + 1 = k
      BY <1>1
    <2>2. r[1] = ps[(k - 1) + 1]
      BY <1>2, <2>1
    <2> QED
      BY <1>2, <2>1, <2>2
  <1>4. b \in Seq(Text) /\ c \in Seq(Text) /\ r = b \o c /\ Len(b) = 1 /\ b[1] = r[1]
    BY <1>2, <1>3, CutAt
  <1> HIDE DEF b, c
  <1>5. b = <<ps[k]>>
    BY <1>3, <1>4
  <1>6. Of(ps, kinds) = Of(a, kinds) \o (Of(b, kinds) \o Of(c, kinds))
    <2>1. Of(a \o r, kinds) = Of(a, kinds) \o Of(r, kinds)
      BY <1>2, OfText
    <2>2. Of(b \o c, kinds) = Of(b, kinds) \o Of(c, kinds)
      BY <1>4, OfText
    <2> QED
      BY <1>2, <1>4, <2>1, <2>2
  <1>7. Of(b, kinds) = Only(ps[k], kinds)
    BY <1>3, <1>5, OfParts DEF Text
  <1>8. Of(a, kinds) \in Seq(Mark) /\ Of(b, kinds) \in Seq(Mark) /\ Of(c, kinds) \in Seq(Mark)
    BY <1>2, <1>4, OfText
  <1>9. /\ Len(Of(b, kinds) \o Of(c, kinds)) = Len(Of(b, kinds)) + Len(Of(c, kinds))
        /\ Of(b, kinds) \o Of(c, kinds) \in Seq(Mark)
    BY <1>8, ConcatProperties
  <1>10. Len(Of(a, kinds) \o (Of(b, kinds) \o Of(c, kinds)))
           = Len(Of(a, kinds)) + Len(Of(b, kinds) \o Of(c, kinds))
    BY <1>8, <1>9, ConcatProperties
  <1>11. Len(Of(a, kinds)) \in Nat /\ Len(Of(b, kinds)) \in Nat /\ Len(Of(c, kinds)) \in Nat
    BY <1>8
  <1> QED
    BY <1>6, <1>7, <1>9, <1>10, <1>11

\* Parts of parts.
LEMMA FlattenParts ==
  ASSUME NEW ps \in Seq(Text), NEW z \in Seq(Seq(Text)), Len(z) = Len(ps), NEW kinds,
         \A i \in 1 .. Len(ps) : Of(z[i], kinds) = Only(ps[i], kinds)
  PROVE  Of(FlattenSeq(z), kinds) = Of(ps, kinds)
  <1> DEFINE n == Len(ps)
  <1>1. n \in Nat /\ \A i \in 1 .. n : z[i] \in Seq(Text)
    OBVIOUS
  <1>2. PICK F \in [0 .. n -> Seq(Text)] : FlattenUpto(F, z) /\ FlattenSeq(z) = F[n]
    BY FlattenIs
  <1> DEFINE a == [i \in 0 .. n |-> Of(F[i], kinds)]
  <1>3. a[0] = <<>>
    <2>1. F[0] = <<>> /\ Of(<<>>, kinds) = <<>>
      BY <1>2, OfParts DEF FlattenUpto
    <2> QED
      BY <1>1, <2>1
  <1>4. ASSUME NEW i \in 1 .. n PROVE a[i] = a[i - 1] \o Only(ps[i], kinds)
    <2>1. F[i] = F[i - 1] \o z[i] /\ F[i - 1] \in Seq(Text)
      <3>1. F[i] = F[i - 1] \o z[i]
        BY <1>2 DEF FlattenUpto
      <3>2. i - 1 \in 0 .. n
        BY <1>1
      <3> QED
        BY <1>2, <3>1, <3>2
    <2>2. Of(F[i - 1] \o z[i], kinds) = Of(F[i - 1], kinds) \o Of(z[i], kinds)
      BY <1>1, <2>1, OfText
    <2>3. i \in 0 .. n /\ i - 1 \in 0 .. n
      BY <1>1
    <2> QED
      BY <2>1, <2>2, <2>3
  <1>5. n \in 0 .. n
    BY <1>1
  <1>6. a[n] = Of(F[n], kinds)
    BY <1>5
  <1> HIDE DEF a
  <1>7. a[n] = Of(ps, kinds)
    BY <1>3, <1>4, SumOf
  <1> QED
    BY <1>2, <1>6, <1>7

\* A character of a text that is split.
LEMMA NextWordOf ==
  ASSUME NEW ws \in Heads, NEW c \in Mark, NEW kinds, "space" \notin kinds
  PROVE  Of(NextWord(ws, c), kinds) = Of(ws, kinds) \o Only(<<c>>, kinds)
  <1>1. ws \in Seq(Text) /\ ws # <<>>
    BY DEF Heads
  <1>2. Last(ws) \in Text /\ Last(ws) \in Seq(Mark) /\ <<c>> \in Seq(Mark)
    BY <1>1, LastOf DEF Text
  <1>3. Of(ws, kinds) \in Seq(Mark) /\ Only(<<c>>, kinds) \in Seq(Mark) /\ Of(ws, kinds) \o <<>> = Of(ws, kinds)
    <2>1. Of(ws, kinds) \in Seq(Mark) /\ Only(<<c>>, kinds) \in Seq(Mark)
      BY <1>1, <1>2, OfText
    <2> QED
      BY <2>1
  <1>4. CASE c # "space"
    <2>1. Append(Last(ws), c) = Last(ws) \o <<c>> /\ Append(Last(ws), c) \in Text
      BY <1>2 DEF Text
    <2>2. Only(Append(Last(ws), c), kinds) = Only(Last(ws), kinds) \o Only(<<c>>, kinds)
      BY <1>2, <2>1, OnlyTexts
    <2>3. Of(Append(Front(ws), Append(Last(ws), c)), kinds) = Of(ws, kinds) \o Only(<<c>>, kinds)
      BY <1>3, <2>1, <2>2, Regrown
    <2> QED
      BY <1>4, <2>3 DEF NextWord
  <1>5. CASE c = "space"
    <2>1. Only(<<c>>, kinds) = <<>>
      BY <1>5, OnlyOne
    <2>2. <<>> \in Text /\ Only(<<>>, kinds) = <<>>
      BY OnlyOne DEF Text
    <2>3. Of(Append(ws, <<>>), kinds) = Of(ws, kinds) \o <<>>
      BY <1>1, <2>2, OfText
    <2> QED
      BY <1>3, <1>5, <2>1, <2>3 DEF NextWord
  <1> QED
    BY <1>4, <1>5

\* The words are the text.
LEMMA WordsOf ==
  ASSUME NEW s \in Text, NEW kinds, "space" \notin kinds
  PROVE  Words(s) \in Seq(Text) /\ Of(Words(s), kinds) = Only(s, kinds)
  <1> DEFINE n == Len(s)
  <1>1. n \in Nat /\ n \in 0 .. n /\ s \in Seq(Mark) /\ \A i \in 1 .. n : s[i] \in Mark
    BY DEF Text
  <1>2. PICK f \in [0 .. n -> Heads] :
          /\ f[0] = <<<<>>>> /\ \A i \in 1 .. n : f[i] = NextWord(f[i - 1], s[i])
          /\ Words(s) = IF Last(f[n]) = <<>> THEN Front(f[n]) ELSE f[n]
    BY <1>1, WordsFold
  <1> DEFINE a == [i \in 0 .. n |-> Of(f[i], kinds)]
  <1>3. a[0] = <<>>
    <2>1. Of(<<<<>>>>, kinds) = Only(<<>>, kinds) /\ Only(<<>>, kinds) = <<>>
      <3>1. <<>> \in Seq(Mark)
        OBVIOUS
      <3>2. Only(<<>>, kinds) = <<>>
        BY OnlyOne
      <3>3. \A p \in Seq(Mark) : Of(<<p>>, kinds) = Only(p, kinds)
        BY OfParts
      <3> QED
        BY <3>1, <3>2, <3>3
    <2> QED
      BY <1>1, <1>2, <2>1
  <1>4. ASSUME NEW i \in 1 .. n PROVE a[i] = a[i - 1] \o Only(<<s[i]>>, kinds)
    <2>1. i \in 0 .. n /\ i - 1 \in 0 .. n
      BY <1>1
    <2>2. f[i] = NextWord(f[i - 1], s[i]) /\ f[i - 1] \in Heads
      BY <1>2, <2>1
    <2>3. Of(NextWord(f[i - 1], s[i]), kinds) = Of(f[i - 1], kinds) \o Only(<<s[i]>>, kinds)
      BY <1>1, <2>2, NextWordOf
    <2> QED
      BY <2>1, <2>2, <2>3
  <1>5. a[n] = Of(f[n], kinds) /\ f[n] \in Heads
    BY <1>1, <1>2
  <1> HIDE DEF a
  <1>6. a[n] = Only(s, kinds)
    BY <1>3, <1>4, SumOnly
  <1>7. f[n] \in Seq(Text) /\ f[n] \in Seq(Seq(Mark)) /\ f[n] # <<>>
    BY <1>5 DEF Heads, Text
  <1>8. /\ Front(f[n]) \in Seq(Text)
        /\ Of(f[n], kinds) = Of(Front(f[n]), kinds) \o Only(Last(f[n]), kinds)
    BY <1>7, OfLast DEF Text
  <1>9. Of(Front(f[n]), kinds) \o <<>> = Of(Front(f[n]), kinds)
    <2>1. Of(Front(f[n]), kinds) \in Seq(Mark)
      BY <1>8, OfText
    <2> QED
      BY <2>1
  <1>10. CASE Last(f[n]) = <<>>
    BY <1>2, <1>5, <1>6, <1>8, <1>9, <1>10, OnlyOne
  <1>11. CASE Last(f[n]) # <<>>
    BY <1>2, <1>5, <1>6, <1>7, <1>11
  <1> QED
    BY <1>10, <1>11

\* The words packed under the limit.
LEMMA PackWordType ==
  ASSUME NEW ps \in Heads, NEW w \in Text PROVE PackWord(ps, w) \in Heads
  <1>1. ps \in Seq(Text) /\ ps # <<>> /\ Last(ps) \in Text /\ Front(ps) \in Seq(Text)
    BY LastOf DEF Heads
  <1>2. Append(Last(ps), "space") \in Text /\ Last(ps) \o <<"space">> \o w \in Text
    BY <1>1, SpacedText
  <1>3. Append(Front(ps), Append(Last(ps), "space")) \in Seq(Text)
    BY <1>1, <1>2, AppendIs
  <1> DEFINE kept == Append(Front(ps), Append(Last(ps), "space"))
  <1>4. Append(kept, w) \in Heads
    <2> HIDE DEF kept
    <2>1. kept \in Seq(Text)
      BY <1>3 DEF kept
    <2>2. Append(kept, w) \in Seq(Text) /\ Append(kept, w) # <<>>
      BY <2>1, AppendIs
    <2> QED
      BY <2>2 DEF Heads
  <1> DEFINE both == Last(ps) \o <<"space">> \o w
  <1>a. both \in Text
    BY <1>2
  <1> HIDE DEF both
  <1>b. \A v \in Text : Append(Front(ps), v) \in Seq(Text) /\ Append(Front(ps), v) # <<>>
    BY <1>1, AppendIs
  <1>c. \A v \in Text : Append(Front(ps), v) \in Heads
    BY <1>b DEF Heads
  <1>d. Append(Front(ps), w) \in Heads /\ Append(Front(ps), both) \in Heads
    BY <1>a, <1>c
  <1>5. Append(Front(ps), w) \in Heads /\ Append(Front(ps), Last(ps) \o <<"space">> \o w) \in Heads
    BY <1>d DEF both
  <1> QED
    BY <1>4, <1>5 DEF PackWord

LEMMA PackWordOf ==
  ASSUME NEW ps \in Heads, NEW w \in Text, NEW kinds, "space" \notin kinds
  PROVE  Of(PackWord(ps, w), kinds) = Of(ps, kinds) \o Only(w, kinds)
  <1>1. ps \in Seq(Text) /\ ps # <<>> /\ Last(ps) \in Text /\ Front(ps) \in Seq(Text)
    BY LastOf DEF Heads
  <1>2. /\ Only(w, kinds) \in Seq(Mark) /\ <<>> \in Seq(Mark) /\ Of(ps, kinds) \in Seq(Mark)
        /\ <<>> \o Only(w, kinds) = Only(w, kinds) /\ Of(ps, kinds) \o <<>> = Of(ps, kinds)
    <2>1. Only(w, kinds) \in Seq(Mark) /\ <<>> \in Seq(Mark)
      BY OfText DEF Text
    <2>2. Of(ps, kinds) \in Seq(Mark)
      BY <1>1, OfText
    <2> QED
      BY <2>1, <2>2
  <1>a. Only(w, kinds) \in Seq(Mark)
    BY <1>2
  <1>3. CASE Len(Last(ps)) > 0 /\ Len(Last(ps)) + 1 + Len(w) > MaxReq
    <2> DEFINE kept == Append(Front(ps), Append(Last(ps), "space"))
    <2>1. Append(Last(ps), "space") \in Text /\ Only(Append(Last(ps), "space"), kinds) = Only(Last(ps), kinds) \o <<>>
      BY <1>1, SpacedIs
    <2> DEFINE y == Append(Last(ps), "space")
               none == <<>>
    <2>a. /\ y \in Text /\ Only(y, kinds) = Only(Last(ps), kinds) \o none
          /\ none \in Seq(Mark)
      BY <2>1
    <2> HIDE DEF y, none
    <2>b. /\ Append(Front(ps), y) \in Heads
          /\ Of(Append(Front(ps), y), kinds) = Of(ps, kinds) \o none
      BY <2>a, Regrown
    <2>2. kept \in Heads /\ Of(kept, kinds) = Of(ps, kinds) \o <<>>
      BY <2>b DEF y, none
    <2> HIDE DEF kept
    <2>3. Of(Append(kept, w), kinds) = Of(kept, kinds) \o Only(w, kinds)
      BY <2>2, OfText DEF Heads
    <2>4. PackWord(ps, w) = Append(kept, w)
      BY <1>3 DEF PackWord, kept
    <2> QED
      BY <1>2, <2>2, <2>3, <2>4
  <1>4. CASE ~(Len(Last(ps)) > 0 /\ Len(Last(ps)) + 1 + Len(w) > MaxReq)
    <2>1. CASE Last(ps) = <<>>
      <3>1. Only(w, kinds) = Only(Last(ps), kinds) \o Only(w, kinds)
        BY <1>2, <2>1, OnlyOne
      <3>2. Of(Append(Front(ps), w), kinds) = Of(ps, kinds) \o Only(w, kinds)
        BY <1>a, <3>1, Regrown
      <3> QED
        BY <1>4, <2>1, <3>2 DEF PackWord
    <2>2. CASE Last(ps) # <<>>
      <3> DEFINE x == Last(ps) \o <<"space">> \o w
      <3>1. x \in Text /\ Only(x, kinds) = Only(Last(ps), kinds) \o Only(w, kinds)
        BY <1>1, SpacedIs
      <3> HIDE DEF x
      <3>2. Of(Append(Front(ps), x), kinds) = Of(ps, kinds) \o Only(w, kinds)
        BY <1>a, <3>1, Regrown
      <3> QED
        BY <1>4, <2>2, <3>2 DEF PackWord, x
    <2> QED
      BY <2>1, <2>2
  <1> QED
    BY <1>3, <1>4

\* The packing of words as a run of steps.
LEMMA PackedFold ==
  ASSUME NEW part, Words(part) \in Seq(Text)
  PROVE  \E f \in [0 .. Len(Words(part)) -> Heads] :
            /\ f[0] = <<<<>>>> /\ \A i \in 1 .. Len(Words(part)) : f[i] = PackWord(f[i - 1], Words(part)[i])
            /\ Packed(part) = f[Len(Words(part))]
  <1> DEFINE n == Len(Words(part))
             Value(h, T) == IF T = {} THEN <<<<>>>> ELSE PackWord(h[T \ {Max(T)}], Words(part)[Max(T)])
             Is(h) == h = [T \in SUBSET DOMAIN Words(part) |-> Value(h, T)]
             step == [i \in 1 .. n |-> [y \in Heads |-> PackWord(y, Words(part)[i])]]
  <1>1. /\ n \in Nat /\ DOMAIN Words(part) = 1 .. n /\ \A i \in 1 .. n : Words(part)[i] \in Text
    OBVIOUS
  <1>b. <<<<>>>> \in Heads
    BY DEF Heads, Text
  <1>2. step \in [1 .. n -> [Heads -> Heads]]
    BY <1>1, PackWordType
  <1> HIDE DEF n, step
  <1>3. PICK f \in [0 .. n -> Heads] : Iterates(f, n, <<<<>>>>, step)
    BY <1>1, <1>b, <1>2, Recursion
  <1>4. PICK h \in [SUBSET (1 .. n) -> Heads] : Folds(h, n, <<<<>>>>, step)
    BY <1>1, <1>b, <1>2, Subsets
  <1>5. Is(h)
    <2>1. ASSUME NEW T \in SUBSET (1 .. n), T # {}
          PROVE  h[T] = PackWord(h[T \ {Max(T)}], Words(part)[Max(T)])
      <3>1. Max(T) \in 1 .. n /\ T \ {Max(T)} \in SUBSET (1 .. n)
        BY <1>1, <2>1, MaxIs
      <3>2. h[T] = step[Max(T)][h[T \ {Max(T)}]] /\ h[T \ {Max(T)}] \in Heads
        BY <1>4, <2>1, <3>1 DEF Folds
      <3> QED
        BY <3>1, <3>2 DEF step
    <2>2. h[{}] = <<<<>>>>
      BY <1>4 DEF Folds
    <2>3. \A T \in SUBSET (1 .. n) : h[T] = Value(h, T)
      BY <2>1, <2>2
    <2> HIDE DEF Value
    <2> QED
      BY <1>1, <1>4, <2>3
  <1> DEFINE g == CHOOSE g : Is(g)
  <1>6. Is(g)
    <2> HIDE DEF Is
    <2> QED
      BY <1>5
  <1>7. Packed(part) = g[DOMAIN Words(part)]
    BY DEF Packed, FoldLeft, MapThenFoldSet
  <1> HIDE DEF g
  <1>8. \A T \in SUBSET (1 .. n) : g[T] = Value(g, T)
    <2> HIDE DEF Value
    <2> QED
      BY <1>1, <1>6
  <1>9. f[0] = <<<<>>>> /\ \A i \in 1 .. n : f[i] = PackWord(f[i - 1], Words(part)[i])
    <2>1. f[0] = <<<<>>>> /\ \A i \in 1 .. n : f[i] = step[i][f[i - 1]] /\ f[i - 1] \in Heads
      BY <1>1, <1>3 DEF Iterates
    <2> QED
      BY <2>1 DEF step
  <1>10. g[1 .. n] = f[n]
    <2> DEFINE A == {i \in 0 .. n : g[1 .. i] = f[i]}
    <2>1. 0 \in A
      <3>1. 1 .. 0 = {} /\ {} \in SUBSET (1 .. n)
        OBVIOUS
      <3>2. g[1 .. 0] = f[0]
        BY <1>8, <1>9, <3>1
      <3> QED
        BY <1>1, <3>2
    <2>2. ASSUME NEW i \in 1 .. n, i - 1 \in A PROVE i \in A
      <3>1. Max(1 .. i) = i /\ (1 .. i) \ {i} = 1 .. i - 1 /\ 1 .. i \in SUBSET (1 .. n) /\ 1 .. i # {}
        BY <1>1, MaxUpto
      <3>2. g[1 .. i] = PackWord(g[1 .. i - 1], Words(part)[i])
        BY <1>8, <3>1
      <3>3. g[1 .. i - 1] = f[i - 1] /\ i \in 0 .. n
        BY <1>1, <2>2
      <3> QED
        BY <1>9, <3>2, <3>3
    <2> HIDE DEF A
    <2>3. \A i \in 0 .. n : i \in A
      BY <1>1, <2>1, <2>2, Induction
    <2>4. n \in A
      BY <1>1, <2>3
    <2> QED
      BY <2>4 DEF A
  <1>11. f \in [0 .. Len(Words(part)) -> Heads]
    BY <1>3 DEF n
  <1>12. Packed(part) = f[Len(Words(part))]
    BY <1>1, <1>7, <1>10 DEF n
  <1>13. f[0] = <<<<>>>> /\ \A i \in 1 .. Len(Words(part)) : f[i] = PackWord(f[i - 1], Words(part)[i])
    BY <1>9 DEF n
  <1> QED
    BY <1>11, <1>12, <1>13

\* The packed requests are the text.
LEMMA PackedOf ==
  ASSUME NEW part \in Text
  PROVE  /\ Packed(part) \in Seq(Text)
         /\ \A kinds : "space" \notin kinds => Of(Packed(part), kinds) = Only(part, kinds)
  <1> DEFINE n == Len(Words(part))
  <1>1. Words(part) \in Seq(Text)
    BY WordsType
  <1>2. n \in Nat /\ n \in 0 .. n /\ \A i \in 1 .. n : Words(part)[i] \in Text
    BY <1>1
  <1>3. PICK f \in [0 .. n -> Heads] :
          /\ f[0] = <<<<>>>> /\ \A i \in 1 .. n : f[i] = PackWord(f[i - 1], Words(part)[i])
          /\ Packed(part) = f[n]
    BY <1>1, PackedFold
  <1>4. Packed(part) \in Seq(Text)
    BY <1>2, <1>3 DEF Heads
  <1>5. ASSUME NEW kinds, "space" \notin kinds PROVE Of(Packed(part), kinds) = Only(part, kinds)
    <2> DEFINE a == [i \in 0 .. n |-> Of(f[i], kinds)]
    <2>1. a[0] = <<>>
      <3>1. <<>> \in Seq(Mark)
        OBVIOUS
      <3>2. Only(<<>>, kinds) = <<>>
        BY OnlyOne
      <3>3. \A p \in Seq(Mark) : Of(<<p>>, kinds) = Only(p, kinds)
        BY OfParts
      <3>4. Of(<<<<>>>>, kinds) = <<>>
        BY <3>1, <3>2, <3>3
      <3>5. a[0] = Of(f[0], kinds)
        BY <1>2
      <3> QED
        BY <1>3, <3>4, <3>5
    <2>2. ASSUME NEW i \in 1 .. n PROVE a[i] = a[i - 1] \o Only(Words(part)[i], kinds)
      <3>1. i \in 0 .. n /\ i - 1 \in 0 .. n
        BY <1>2
      <3>2. f[i] = PackWord(f[i - 1], Words(part)[i]) /\ f[i - 1] \in Heads
        BY <1>3, <3>1
      <3>3. Of(PackWord(f[i - 1], Words(part)[i]), kinds) = Of(f[i - 1], kinds) \o Only(Words(part)[i], kinds)
        BY <1>2, <1>5, <3>2, PackWordOf
      <3> QED
        BY <3>1, <3>2, <3>3
    <2>3. a[n] = Of(Packed(part), kinds)
      BY <1>2, <1>3
    <2> HIDE DEF a
    <2>4. a[n] = Of(Words(part), kinds)
      BY <1>1, <2>1, <2>2, SumOf
    <2> QED
      BY <1>5, <2>3, <2>4, WordsOf
  <1> QED
    BY <1>4, <1>5

(***************************************************************************)
(* A long word.                                                            *)
(***************************************************************************)
LEMMA HowManyPieces ==
  ASSUME NEW l \in Nat, NEW m \in Nat \ {0}
  PROVE  LET q == (l + m - 1) \div m
         IN q \in Nat /\ q * m >= l /\ \A i \in 1 .. q : (i - 1) * m < l /\ (i - 1) * m \in Nat /\ i * m = (i - 1) * m + m
  <1> DEFINE k == l + m - 1
             q == k \div m
             r == k % m
  <1>1. k \in Nat
    OBVIOUS
  <1> HIDE DEF k
  <1>2. q \in Nat /\ r \in Nat /\ k = q * m + r /\ r < m
    BY <1>1
  <1> HIDE DEF q, r
  <1>3. q * m \in Nat /\ q * m > l - 1
    BY <1>2 DEF k
  <1>4. ASSUME NEW i \in 1 .. q PROVE (i - 1) * m < l /\ (i - 1) * m \in Nat /\ i * m = (i - 1) * m + m
    <2>1. (i - 1) * m + m = i * m /\ (i - 1) * m \in Nat
      BY <1>2
    <2>2. i * m <= q * m
      BY <1>2
    <2>3. q * m <= l + m - 1
      BY <1>2, <1>3 DEF k
    <2> QED
      BY <1>3, <2>1, <2>2, <2>3
  <1> QED
    BY <1>2, <1>3, <1>4 DEF q, k

\* A piece for Kokoro.
Spoken == {p \in Text : Len(Visible(p)) <= MaxTokens}

LEMMA LongWordIs ==
  ASSUME Limits, NEW w \in Text
  PROVE  LongWord(w) \in Seq(Spoken) /\ FlattenSeq(LongWord(w)) = w
  <1> DEFINE l == Len(w)
             m == MaxTokens
             q == (l + m - 1) \div m
             upto(i) == IF i * m < l THEN i * m ELSE l
             z == [i \in 1 .. q |-> SubSeq(w, (i - 1) * m + 1, upto(i))]
  <1>1. l \in Nat /\ m \in Nat \ {0} /\ w \in Seq(Mark)
    BY DEF Limits, Text
  <1>2. q \in Nat /\ q * m >= l /\ \A i \in 1 .. q : (i - 1) * m < l /\ (i - 1) * m \in Nat /\ i * m = (i - 1) * m + m
    BY <1>1, HowManyPieces
  <1>3. LongWord(w) = z
    BY DEF LongWord
  <1> HIDE DEF q
  <1>4. ASSUME NEW i \in 1 .. q
        PROVE  /\ upto(i) \in Nat /\ upto(i) <= l /\ (i - 1) * m < upto(i) /\ upto(i) - (i - 1) * m <= m
               /\ upto(i - 1) = (i - 1) * m
    BY <1>1, <1>2
  <1>5. upto(q) = l /\ upto(0) = 0 /\ 0 * m = 0
    BY <1>1, <1>2
  <1>6. ASSUME NEW i \in 1 .. q PROVE z[i] \in Spoken
    <2>1. /\ SubSeq(w, (i - 1) * m + 1, upto(i)) \in Seq(Mark)
          /\ Len(SubSeq(w, (i - 1) * m + 1, upto(i))) <= m
      <3>1. (i - 1) * m + 1 \in 1 .. l /\ upto(i) \in 1 .. l
        BY <1>1, <1>2, <1>4
      <3> DEFINE u == (i - 1) * m + 1
                 v == upto(i)
      <3>2. u \in 1 .. l /\ v \in 1 .. l /\ v - u + 1 <= m
        BY <1>1, <1>2, <1>4, <3>1
      <3> HIDE DEF u, v
      <3>3. \A j \in u .. v : w[j] \in Mark
        BY <1>1, <3>2
      <3>4. SubSeq(w, u, v) \in Seq(Mark) /\ Len(SubSeq(w, u, v)) = IF u <= v THEN v - u + 1 ELSE 0
        BY <3>2, <3>3, SubSeqProperties
      <3>5. Len(SubSeq(w, u, v)) <= m
        BY <1>1, <3>2, <3>4
      <3> QED
        BY <3>4, <3>5 DEF u, v
    <2>2. z[i] \in Text /\ Len(z[i]) <= m
      BY <2>1 DEF Text
    <2> HIDE DEF z
    <2>3. Len(Visible(z[i])) <= Len(z[i]) /\ Len(Visible(z[i])) \in Nat /\ Len(z[i]) \in Nat
      BY <2>2, VisibleIs
    <2> QED
      BY <1>1, <2>2, <2>3 DEF Spoken
  <1>7. z \in Seq(Spoken) /\ Len(z) = q
    BY <1>2, <1>6
  <1>8. z \in Seq(Seq(Mark))
    BY <1>7 DEF Spoken, Text
  <1>9. PICK F \in [0 .. q -> Seq(Mark)] : FlattenUpto(F, z) /\ FlattenSeq(z) = F[q]
    BY <1>7, <1>8, FlattenIs
  <1>10. \A i \in 1 .. q : z[i] = SubSeq(w, (i - 1) * m + 1, upto(i))
    OBVIOUS
  <1> HIDE DEF z
  <1> DEFINE T == {i \in 0 .. q : F[i] = SubSeq(w, 1, upto(i))}
  <1>11. 0 \in T
    <2>1. F[0] = <<>>
      BY <1>9 DEF FlattenUpto
    <2>2. SubSeq(w, 1, 0) = <<>>
      BY <1>1
    <2> QED
      BY <1>2, <1>5, <2>1, <2>2
  <1>12. ASSUME NEW i \in 1 .. q, i - 1 \in T PROVE i \in T
    <2>1. F[i] = F[i - 1] \o z[i]
      BY <1>7, <1>9 DEF FlattenUpto
    <2>2. F[i - 1] = SubSeq(w, 1, (i - 1) * m)
      BY <1>4, <1>12
    <2> DEFINE k == (i - 1) * m
               v == upto(i)
    <2>3. k \in 0 .. l /\ v \in k .. l /\ k \in 1 - 1 .. l
      BY <1>1, <1>2, <1>4
    <2>4. z[i] = SubSeq(w, k + 1, v) /\ F[i - 1] = SubSeq(w, 1, k)
      BY <1>10, <2>2
    <2> HIDE DEF k, v
    <2>5. SubSeq(w, 1, k) \o SubSeq(w, k + 1, v) = SubSeq(w, 1, v)
      <3>1. 1 \in 1 .. Len(w) + 1
        BY <1>1
      <3> QED
        BY <1>1, <2>3, <3>1, ConcatAdjacentSubSeq
    <2>6. F[i] = SubSeq(w, 1, upto(i))
      BY <2>1, <2>4, <2>5 DEF v
    <2> QED
      BY <1>2, <2>6
  <1> HIDE DEF T
  <1>13. \A i \in 0 .. q : i \in T
    BY <1>2, <1>11, <1>12, Induction
  <1>14. F[q] = SubSeq(w, 1, l)
    BY <1>2, <1>5, <1>13 DEF T
  <1>15. SubSeq(w, 1, l) = w
    BY <1>1
  <1> QED
    BY <1>3, <1>7, <1>9, <1>14, <1>15

(***************************************************************************)
(* Short parts join the one before them.                                   *)
(***************************************************************************)
Fitting == {p \in Text : Len(Only(p, Atoms)) <= AtomLimit}

LEMMA MergePartIs ==
  ASSUME Limits, NEW ms \in Seq(Fitting), NEW p \in Fitting
  PROVE  /\ MergePart(ms, p) \in Seq(Fitting)
         /\ \A kinds : "space" \notin kinds => Of(MergePart(ms, p), kinds) = Of(ms, kinds) \o Only(p, kinds)
  <1>1. ms \in Seq(Text) /\ p \in Text /\ \A kinds : Only(p, kinds) \in Seq(Mark)
    <2>1. ms \in Seq(Text) /\ p \in Text
      BY DEF Fitting
    <2> QED
      BY <2>1, OfText DEF Text
  <1>2. CASE ms = <<>>
    <2>1. MergePart(ms, p) = <<p>>
      BY <1>2 DEF MergePart
    <2>2. ASSUME NEW kinds PROVE Of(<<p>>, kinds) = Of(ms, kinds) \o Only(p, kinds)
      <3>1. \A x \in Seq(Mark) : Of(<<x>>, kinds) = Only(x, kinds)
        BY OfParts
      <3>2. Of(<<>>, kinds) = <<>>
        BY OfParts
      <3>3. <<>> \o Only(p, kinds) = Only(p, kinds)
        BY <1>1
      <3> QED
        BY <1>1, <1>2, <3>1, <3>2, <3>3 DEF Text
    <2>3. <<p>> \in Seq(Fitting)
      OBVIOUS
    <2> QED
      BY <2>1, <2>2, <2>3
  <1>3. CASE ms # <<>>
    <2> DEFINE l == Last(ms)
               sep == IF HasCjk(p \o l) THEN <<>> ELSE <<"space">>
    <2>1. l \in Fitting /\ Front(ms) \in Seq(Fitting) /\ ms \in Heads /\ l = Last(ms) /\ l \in Text
      BY <1>1, <1>3, LastOf DEF Heads, Fitting
    <2>2. MergePart(ms, p) \in {Append(Front(ms), l \o p), Append(Front(ms), l \o sep \o p), Append(ms, p)}
      BY <1>3 DEF MergePart
    <2>3. /\ MergePart(ms, p) = Append(Front(ms), l \o p) /\ ToSet(p) \subseteq HardBreak \cup {"colon"}
          \/ /\ MergePart(ms, p) = Append(Front(ms), l \o sep \o p)
             /\ Len(l) + Len(sep) + Len(p) <= MaxReq
          \/ MergePart(ms, p) = Append(ms, p)
      BY <1>3 DEF MergePart
    <2>4. l \o sep \o p \in {l \o <<"space">> \o p, l \o p}
      <3>1. l \o <<>> = l
        BY <2>1 DEF Text
      <3> QED
        BY <3>1
    <2>5. Len(sep) \in {0, 1} /\ (Len(sep) = 0 => l \o sep \o p = l \o p)
      <3>1. l \o <<>> = l
        BY <2>1 DEF Text
      <3> QED
        BY <3>1
    <2> HIDE DEF l, sep
    <2>6. ASSUME NEW kinds, "space" \notin kinds
          PROVE  /\ Only(l \o p, kinds) = Only(l, kinds) \o Only(p, kinds)
                 /\ Only(l \o <<"space">> \o p, kinds) = Only(l, kinds) \o Only(p, kinds)
      <3>1. l \in Text /\ p \in Text
        BY <1>1, <2>1
      <3> QED
        BY <2>6, <3>1, SpacedIs
    <2>7. /\ l \o p \in Text /\ l \o <<"space">> \o p \in Text /\ "space" \notin Atoms
          /\ Len(l \o <<"space">> \o p) = Len(l) + 1 + Len(p) /\ Len(l \o p) = Len(l) + Len(p)
      <3>1. "space" \notin Atoms
        BY DEF Atoms
      <3> QED
        BY <1>1, <2>1, <3>1, SpacedIs
    <2>8. Len(l) \in Nat /\ Len(p) \in Nat /\ MaxReq \in Nat /\ AtomLimit \in Nat /\ MaxReq <= AtomLimit
      BY <1>1, <2>1 DEF Limits, Text
    <2>9. ASSUME NEW x \in Fitting, \A kinds : "space" \notin kinds => Only(x, kinds) = Only(l, kinds) \o Only(p, kinds),
                 MergePart(ms, p) = Append(Front(ms), x)
          PROVE  /\ MergePart(ms, p) \in Seq(Fitting)
                 /\ \A kinds : "space" \notin kinds => Of(MergePart(ms, p), kinds) = Of(ms, kinds) \o Only(p, kinds)
      <3>1. Append(Front(ms), x) \in Seq(Fitting) /\ x \in Text
        BY <2>1, AppendIs DEF Fitting
      <3>2. ASSUME NEW kinds, "space" \notin kinds
            PROVE  Of(Append(Front(ms), x), kinds) = Of(ms, kinds) \o Only(p, kinds)
        <4>1. Only(x, kinds) = Only(Last(ms), kinds) \o Only(p, kinds) /\ Only(p, kinds) \in Seq(Mark)
          BY <1>1, <2>1, <2>9, <3>2
        <4>2. ms \in Heads /\ x \in Text
          BY <2>1, <3>1
        <4> DEFINE y == Only(p, kinds)
        <4>3. Only(x, kinds) = Only(Last(ms), kinds) \o y /\ y \in Seq(Mark)
          BY <4>1
        <4> HIDE DEF y
        <4>4. Of(Append(Front(ms), x), kinds) = Of(ms, kinds) \o y
          <5>1. Regrows(ms, kinds)
            BY <4>2, Regrowing
          <5> QED
            BY <4>2, <4>3, <5>1 DEF Regrows
        <4> QED
          BY <4>4 DEF y
      <3> QED
        BY <2>9, <3>1, <3>2
    <2>10. CASE MergePart(ms, p) = Append(Front(ms), l \o p) /\ ToSet(p) \subseteq HardBreak \cup {"colon"}
      <3>1. \A i \in 1 .. Len(p) : p[i] \notin Atoms
        <4>1. \A i \in 1 .. Len(p) : p[i] \in ToSet(p)
          <5>1. p \in Seq(Mark)
            BY <1>1 DEF Text
          <5> QED
            BY <5>1 DEF ToSet
        <4>2. \A i \in 1 .. Len(p) : p[i] \in HardBreak \cup {"colon"}
          BY <2>10, <4>1
        <4> QED
          BY <4>2 DEF HardBreak, Atoms
      <3>2. Only(p, Atoms) = <<>>
        <4>1. p \in Seq(Mark)
          BY <1>1 DEF Text
        <4> QED
          BY <3>1, <4>1, OnlyNone
      <3>3. Only(l \o p, Atoms) = Only(l, Atoms) \o <<>> /\ Only(l, Atoms) \in Seq(Mark)
        BY <2>1, <2>6, <2>7, <3>2, OfText DEF Text
      <3>4. Only(l \o p, Atoms) = Only(l, Atoms)
        BY <3>3
      <3>5. l \o p \in Fitting
        BY <2>1, <2>7, <3>4 DEF Fitting
      <3> QED
        BY <2>6, <2>9, <2>10, <3>5
    <2>11. CASE /\ MergePart(ms, p) = Append(Front(ms), l \o sep \o p)
                /\ Len(l) + Len(sep) + Len(p) <= MaxReq
      <3>1. l \o sep \o p \in Text /\ Len(l \o sep \o p) <= MaxReq
        <4>1. CASE Len(sep) = 0
          BY <2>5, <2>7, <2>8, <2>11, <4>1
        <4>2. CASE Len(sep) = 1
          <5>1. l \o sep \o p = l \o <<"space">> \o p \/ l \o sep \o p = l \o p
            BY <2>4
          <5>2. Len(l) + 1 + Len(p) <= MaxReq
            BY <2>11, <4>2
          <5>3. Len(l \o <<"space">> \o p) <= MaxReq /\ Len(l \o p) <= MaxReq
            BY <2>7, <2>8, <5>2
          <5> QED
            BY <2>7, <5>1, <5>3
        <4> QED
          BY <2>5, <4>1, <4>2
      <3>2. ASSUME NEW kinds, "space" \notin kinds
            PROVE  Only(l \o sep \o p, kinds) = Only(l, kinds) \o Only(p, kinds)
        BY <2>4, <2>6, <3>2
      <3> DEFINE x == l \o sep \o p
      <3> HIDE DEF x
      <3>3. x \in Text /\ Len(x) <= MaxReq
        BY <3>1 DEF x
      <3>4. Len(Only(x, Atoms)) <= Len(x) /\ Len(Only(x, Atoms)) \in Nat /\ Len(x) \in Nat
        BY <3>3, AtomsIs DEF Text
      <3>5. x \in Fitting
        BY <2>8, <3>3, <3>4 DEF Fitting
      <3>6. \A kinds : "space" \notin kinds => Only(x, kinds) = Only(l, kinds) \o Only(p, kinds)
        BY <3>2 DEF x
      <3>7. MergePart(ms, p) = Append(Front(ms), x)
        BY <2>11 DEF x
      <3> QED
        BY <2>9, <3>5, <3>6, <3>7
    <2>12. CASE MergePart(ms, p) = Append(ms, p)
      <3>1. Append(ms, p) \in Seq(Fitting)
        BY AppendIs
      <3>2. \A kinds : Of(Append(ms, p), kinds) = Of(ms, kinds) \o Only(p, kinds)
        BY <1>1, OfText
      <3> QED
        BY <2>12, <3>1, <3>2
    <2> QED
      BY <2>3, <2>10, <2>11, <2>12
  <1> QED
    BY <1>2, <1>3

LEMMA MergedFold ==
  ASSUME Limits, NEW parts \in Seq(Fitting)
  PROVE  \E f \in [0 .. Len(parts) -> Seq(Fitting)] :
            /\ f[0] = <<>> /\ \A i \in 1 .. Len(parts) : f[i] = MergePart(f[i - 1], parts[i])
            /\ Merged(parts) = f[Len(parts)]
  <1> DEFINE n == Len(parts)
             Value(h, T) == IF T = {} THEN <<>> ELSE MergePart(h[T \ {Max(T)}], parts[Max(T)])
             Is(h) == h = [T \in SUBSET DOMAIN parts |-> Value(h, T)]
             step == [i \in 1 .. n |-> [y \in Seq(Fitting) |-> MergePart(y, parts[i])]]
  <1>1. /\ n \in Nat /\ DOMAIN parts = 1 .. n /\ \A i \in 1 .. n : parts[i] \in Fitting
    OBVIOUS
  <1>b. <<>> \in Seq(Fitting)
    BY DEF Limits
  <1>2. step \in [1 .. n -> [Seq(Fitting) -> Seq(Fitting)]]
    BY <1>1, MergePartIs
  <1> HIDE DEF n, step
  <1>3. PICK f \in [0 .. n -> Seq(Fitting)] : Iterates(f, n, <<>>, step)
    BY <1>1, <1>b, <1>2, Recursion
  <1>4. PICK h \in [SUBSET (1 .. n) -> Seq(Fitting)] : Folds(h, n, <<>>, step)
    BY <1>1, <1>b, <1>2, Subsets
  <1>5. Is(h)
    <2>1. ASSUME NEW T \in SUBSET (1 .. n), T # {}
          PROVE  h[T] = MergePart(h[T \ {Max(T)}], parts[Max(T)])
      <3>1. Max(T) \in 1 .. n /\ T \ {Max(T)} \in SUBSET (1 .. n)
        BY <1>1, <2>1, MaxIs
      <3>2. h[T] = step[Max(T)][h[T \ {Max(T)}]] /\ h[T \ {Max(T)}] \in Seq(Fitting)
        BY <1>4, <2>1, <3>1 DEF Folds
      <3> QED
        BY <3>1, <3>2 DEF step
    <2>2. h[{}] = <<>>
      BY <1>4 DEF Folds
    <2>3. \A T \in SUBSET (1 .. n) : h[T] = Value(h, T)
      BY <2>1, <2>2
    <2> HIDE DEF Value
    <2> QED
      BY <1>1, <1>4, <2>3
  <1> DEFINE g == CHOOSE g : Is(g)
  <1>6. Is(g)
    <2> HIDE DEF Is
    <2> QED
      BY <1>5
  <1>7. Merged(parts) = g[DOMAIN parts]
    BY DEF Merged, FoldLeft, MapThenFoldSet
  <1> HIDE DEF g
  <1>8. \A T \in SUBSET (1 .. n) : g[T] = Value(g, T)
    <2> HIDE DEF Value
    <2> QED
      BY <1>1, <1>6
  <1>9. f[0] = <<>> /\ \A i \in 1 .. n : f[i] = MergePart(f[i - 1], parts[i])
    <2>1. f[0] = <<>> /\ \A i \in 1 .. n : f[i] = step[i][f[i - 1]] /\ f[i - 1] \in Seq(Fitting)
      BY <1>1, <1>3 DEF Iterates
    <2> QED
      BY <2>1 DEF step
  <1>10. g[1 .. n] = f[n]
    <2> DEFINE A == {i \in 0 .. n : g[1 .. i] = f[i]}
    <2>1. 0 \in A
      <3>1. 1 .. 0 = {} /\ {} \in SUBSET (1 .. n)
        OBVIOUS
      <3>2. g[1 .. 0] = f[0]
        BY <1>8, <1>9, <3>1
      <3> QED
        BY <1>1, <3>2
    <2>2. ASSUME NEW i \in 1 .. n, i - 1 \in A PROVE i \in A
      <3>1. Max(1 .. i) = i /\ (1 .. i) \ {i} = 1 .. i - 1 /\ 1 .. i \in SUBSET (1 .. n) /\ 1 .. i # {}
        BY <1>1, MaxUpto
      <3>2. g[1 .. i] = MergePart(g[1 .. i - 1], parts[i])
        BY <1>8, <3>1
      <3>3. g[1 .. i - 1] = f[i - 1] /\ i \in 0 .. n
        BY <1>1, <2>2
      <3> QED
        BY <1>9, <3>2, <3>3
    <2> HIDE DEF A
    <2>3. \A i \in 0 .. n : i \in A
      BY <1>1, <2>1, <2>2, Induction
    <2>4. n \in A
      BY <1>1, <2>3
    <2> QED
      BY <2>4 DEF A
  <1>11. f \in [0 .. Len(parts) -> Seq(Fitting)]
    BY <1>3 DEF n
  <1>12. Merged(parts) = f[Len(parts)]
    BY <1>1, <1>7, <1>10 DEF n
  <1>13. f[0] = <<>> /\ \A i \in 1 .. Len(parts) : f[i] = MergePart(f[i - 1], parts[i])
    BY <1>9 DEF n
  <1> QED
    BY <1>11, <1>12, <1>13

LEMMA MergedOf ==
  ASSUME Limits, NEW parts \in Seq(Fitting)
  PROVE  /\ Merged(parts) \in Seq(Fitting)
         /\ \A kinds : "space" \notin kinds => Of(Merged(parts), kinds) = Of(parts, kinds)
  <1> DEFINE n == Len(parts)
  <1>1. n \in Nat /\ n \in 0 .. n /\ parts \in Seq(Text) /\ \A i \in 1 .. n : parts[i] \in Fitting
    BY DEF Fitting
  <1>2. PICK f \in [0 .. n -> Seq(Fitting)] :
          /\ f[0] = <<>> /\ \A i \in 1 .. n : f[i] = MergePart(f[i - 1], parts[i])
          /\ Merged(parts) = f[n]
    BY MergedFold
  <1>3. Merged(parts) \in Seq(Fitting)
    BY <1>1, <1>2
  <1>4. ASSUME NEW kinds, "space" \notin kinds PROVE Of(Merged(parts), kinds) = Of(parts, kinds)
    <2> DEFINE a == [i \in 0 .. n |-> Of(f[i], kinds)]
    <2>1. a[0] = <<>>
      <3>1. Of(<<>>, kinds) = <<>>
        BY OfParts
      <3>2. a[0] = Of(f[0], kinds)
        BY <1>1
      <3> QED
        BY <1>2, <3>1, <3>2
    <2>2. ASSUME NEW i \in 1 .. n PROVE a[i] = a[i - 1] \o Only(parts[i], kinds)
      <3>1. i \in 0 .. n /\ i - 1 \in 0 .. n
        BY <1>1
      <3>2. f[i] = MergePart(f[i - 1], parts[i]) /\ f[i - 1] \in Seq(Fitting)
        BY <1>2, <3>1
      <3>3. Of(MergePart(f[i - 1], parts[i]), kinds) = Of(f[i - 1], kinds) \o Only(parts[i], kinds)
        BY <1>1, <1>4, <3>2, MergePartIs
      <3> QED
        BY <3>1, <3>2, <3>3
    <2>3. a[n] = Of(Merged(parts), kinds)
      BY <1>1, <1>2
    <2> HIDE DEF a
    <2>4. a[n] = Of(parts, kinds)
      BY <1>1, <2>1, <2>2, SumOf
    <2> QED
      BY <2>3, <2>4
  <1> QED
    BY <1>3, <1>4

(***************************************************************************)
(* Kokoro's pieces.                                                        *)
(***************************************************************************)
Taken == [done : Seq(Spoken), words : Spoken]

LEMMA TakenNone ==
  ASSUME Limits PROVE [done |-> <<>>, words |-> <<>>] \in Taken
  <1>1. Visible(<<>>) = <<>> /\ <<>> \in Text
    BY OnlyOne DEF Visible, Text
  <1>2. <<>> \in Spoken
    BY <1>1 DEF Spoken, Limits
  <1> QED
    BY <1>2 DEF Taken

LEMMA TakeWordIs ==
  ASSUME Limits, NEW acc \in Taken, NEW w \in Text
  PROVE  /\ TakeWord(acc, w) \in Taken
         /\ \A kinds : "space" \notin kinds =>
               Of(TakeWord(acc, w).done, kinds) \o Only(TakeWord(acc, w).words, kinds)
                 = (Of(acc.done, kinds) \o Only(acc.words, kinds)) \o Only(w, kinds)
  <1> DEFINE full == acc.words # <<>> /\ Len(Visible(acc.words)) + Len(w) > MaxTokens
             done == IF full THEN Append(acc.done, acc.words) ELSE acc.done
             now  == IF full \/ acc.words = <<>> THEN w ELSE acc.words \o <<"space">> \o w
  <1>1. /\ acc.done \in Seq(Spoken) /\ acc.words \in Spoken /\ acc.words \in Text
        /\ acc.done \in Seq(Text)
    BY DEF Taken, Spoken
  <1>2. done \in Seq(Spoken) /\ now \in Text
    <2>1. Append(acc.done, acc.words) \in Seq(Spoken) /\ acc.words \o <<"space">> \o w \in Text
      BY <1>1, AppendIs, SpacedText
    <2> QED
      BY <1>1, <2>1
  <1>3. TakeWord(acc, w) = IF Len(Visible(now)) > MaxTokens THEN [done |-> done \o LongWord(now), words |-> <<>>]
                           ELSE [done |-> done, words |-> now]
    BY DEF TakeWord
  <1>4. ASSUME NEW kinds, "space" \notin kinds
        PROVE  Of(done, kinds) \o Only(now, kinds) = (Of(acc.done, kinds) \o Only(acc.words, kinds)) \o Only(w, kinds)
    <2> DEFINE a == Of(acc.done, kinds)
               b == Only(acc.words, kinds)
               c == Only(w, kinds)
    <2>1. a \in Seq(Mark)
      BY <1>1, OfText
    <2>2. b \in Seq(Mark) /\ c \in Seq(Mark)
      BY <1>1, OfText DEF Text
    <2>3. (a \o b) \o c = a \o (b \o c) /\ a \o <<>> = a
      <3> HIDE DEF a, b, c
      <3>1. (a \o b) \o c = a \o (b \o c)
        BY <2>1, <2>2, TextAssociative
      <3>2. a \o <<>> = a
        BY <2>1
      <3> QED
        BY <3>1, <3>2
    <2>4. Of(Append(acc.done, acc.words), kinds) = a \o b
      BY <1>1, OfText
    <2>5. Only(acc.words \o <<"space">> \o w, kinds) = b \o c
      BY <1>1, <1>4, SpacedIs
    <2>6. acc.words = <<>> => b = <<>>
      BY OnlyOne
    <2> HIDE DEF a, b, c
    <2>7. CASE full
      <3>1. Of(done, kinds) = a \o b /\ Only(now, kinds) = c
        BY <2>4, <2>7 DEF c
      <3> QED
        BY <3>1 DEF a, b, c
    <2>8. CASE ~full /\ acc.words = <<>>
      <3>1. Of(done, kinds) = a /\ Only(now, kinds) = c
        BY <2>8 DEF a, c
      <3>2. (a \o b) \o c = a \o c
        BY <2>3, <2>6, <2>8
      <3> QED
        BY <3>1, <3>2 DEF a, b, c
    <2>9. CASE ~full /\ acc.words # <<>>
      <3>1. Of(done, kinds) = a /\ Only(now, kinds) = b \o c
        BY <2>5, <2>9 DEF a
      <3> QED
        BY <2>3, <3>1 DEF a, b, c
    <2> QED
      BY <2>7, <2>8, <2>9
  <1> HIDE DEF done, now, full
  <1>5. CASE Len(Visible(now)) > MaxTokens
    <2>1. LongWord(now) \in Seq(Spoken) /\ FlattenSeq(LongWord(now)) = now
      BY <1>2, LongWordIs
    <2>2. TakeWord(acc, w) = [done |-> done \o LongWord(now), words |-> <<>>]
      BY <1>3, <1>5
    <2>3. TakeWord(acc, w) \in Taken
      <3>1. <<>> \in Spoken
        BY TakenNone DEF Taken
      <3>2. done \o LongWord(now) \in Seq(Spoken)
        BY <1>2, <2>1
      <3> QED
        BY <2>2, <3>1, <3>2 DEF Taken
    <2>4. ASSUME NEW kinds, "space" \notin kinds
          PROVE  Of(done \o LongWord(now), kinds) \o Only(<<>>, kinds) = Of(done, kinds) \o Only(now, kinds)
      <3>1. done \in Seq(Text) /\ LongWord(now) \in Seq(Text)
        BY <1>2, <2>1 DEF Spoken
      <3>2. Of(done \o LongWord(now), kinds) = Of(done, kinds) \o Of(LongWord(now), kinds)
        BY <3>1, OfText
      <3>3. Of(LongWord(now), kinds) = Only(now, kinds)
        BY <2>1 DEF Of
      <3>4. Of(done \o LongWord(now), kinds) \in Seq(Mark)
        <4>1. done \o LongWord(now) \in Seq(Text)
          BY <3>1
        <4> QED
          BY <4>1, OfText
      <3>5. Only(<<>>, kinds) = <<>>
        BY OnlyOne
      <3>6. Of(done \o LongWord(now), kinds) \o <<>> = Of(done \o LongWord(now), kinds)
        BY <3>4
      <3> QED
        BY <3>2, <3>3, <3>5, <3>6
    <2>5. TakeWord(acc, w).done = done \o LongWord(now) /\ TakeWord(acc, w).words = <<>>
      BY <2>2
    <2>6. ASSUME NEW kinds, "space" \notin kinds
          PROVE  Of(TakeWord(acc, w).done, kinds) \o Only(TakeWord(acc, w).words, kinds)
                   = (Of(acc.done, kinds) \o Only(acc.words, kinds)) \o Only(w, kinds)
      BY <1>4, <2>4, <2>5, <2>6
    <2> QED
      BY <2>3, <2>6
  <1>6. CASE ~(Len(Visible(now)) > MaxTokens)
    <2>1. TakeWord(acc, w) = [done |-> done, words |-> now]
      BY <1>3, <1>6
    <2>2. Len(Visible(now)) \in Nat /\ MaxTokens \in Nat
      BY <1>2, VisibleIs DEF Limits
    <2>3. now \in Spoken
      BY <1>2, <1>6, <2>2 DEF Spoken
    <2>4. TakeWord(acc, w) \in Taken
      BY <1>2, <2>1, <2>3 DEF Taken
    <2>5. TakeWord(acc, w).done = done /\ TakeWord(acc, w).words = now
      BY <2>1
    <2> QED
      BY <1>4, <2>4, <2>5
  <1> QED
    BY <1>5, <1>6

LEMMA ByTokensFold ==
  ASSUME Limits, NEW part, Words(part) \in Seq(Text)
  PROVE  \E f \in [0 .. Len(Words(part)) -> Taken] :
            /\ f[0] = [done |-> <<>>, words |-> <<>>] /\ \A i \in 1 .. Len(Words(part)) : f[i] = TakeWord(f[i - 1], Words(part)[i])
            /\ ByTokens(part) =
                 IF Len(Visible(part)) <= MaxTokens THEN <<part>>
                 ELSE IF f[Len(Words(part))].words = <<>> THEN f[Len(Words(part))].done
                 ELSE Append(f[Len(Words(part))].done, f[Len(Words(part))].words)
  <1> DEFINE n == Len(Words(part))
             Value(h, T) == IF T = {} THEN [done |-> <<>>, words |-> <<>>] ELSE TakeWord(h[T \ {Max(T)}], Words(part)[Max(T)])
             Is(h) == h = [T \in SUBSET DOMAIN Words(part) |-> Value(h, T)]
             step == [i \in 1 .. n |-> [y \in Taken |-> TakeWord(y, Words(part)[i])]]
  <1>1. /\ n \in Nat /\ DOMAIN Words(part) = 1 .. n /\ \A i \in 1 .. n : Words(part)[i] \in Text
    OBVIOUS
  <1>b. [done |-> <<>>, words |-> <<>>] \in Taken
    BY TakenNone
  <1>2. step \in [1 .. n -> [Taken -> Taken]]
    BY <1>1, TakeWordIs
  <1> HIDE DEF n, step
  <1>3. PICK f \in [0 .. n -> Taken] : Iterates(f, n, [done |-> <<>>, words |-> <<>>], step)
    BY <1>1, <1>b, <1>2, Recursion
  <1>4. PICK h \in [SUBSET (1 .. n) -> Taken] : Folds(h, n, [done |-> <<>>, words |-> <<>>], step)
    BY <1>1, <1>b, <1>2, Subsets
  <1>5. Is(h)
    <2>1. ASSUME NEW T \in SUBSET (1 .. n), T # {}
          PROVE  h[T] = TakeWord(h[T \ {Max(T)}], Words(part)[Max(T)])
      <3>1. Max(T) \in 1 .. n /\ T \ {Max(T)} \in SUBSET (1 .. n)
        BY <1>1, <2>1, MaxIs
      <3>2. h[T] = step[Max(T)][h[T \ {Max(T)}]] /\ h[T \ {Max(T)}] \in Taken
        BY <1>4, <2>1, <3>1 DEF Folds
      <3> QED
        BY <3>1, <3>2 DEF step
    <2>2. h[{}] = [done |-> <<>>, words |-> <<>>]
      BY <1>4 DEF Folds
    <2>3. \A T \in SUBSET (1 .. n) : h[T] = Value(h, T)
      BY <2>1, <2>2
    <2> HIDE DEF Value
    <2> QED
      BY <1>1, <1>4, <2>3
  <1> DEFINE g == CHOOSE g : Is(g)
  <1>6. Is(g)
    <2> HIDE DEF Is
    <2> QED
      BY <1>5
  <1>7. ByTokens(part) =
           IF Len(Visible(part)) <= MaxTokens THEN <<part>>
           ELSE IF g[DOMAIN Words(part)].words = <<>> THEN g[DOMAIN Words(part)].done
           ELSE Append(g[DOMAIN Words(part)].done, g[DOMAIN Words(part)].words)
    BY DEF ByTokens, TakeWords, FoldLeft, MapThenFoldSet
  <1> HIDE DEF g
  <1>8. \A T \in SUBSET (1 .. n) : g[T] = Value(g, T)
    <2> HIDE DEF Value
    <2> QED
      BY <1>1, <1>6
  <1>9. f[0] = [done |-> <<>>, words |-> <<>>] /\ \A i \in 1 .. n : f[i] = TakeWord(f[i - 1], Words(part)[i])
    <2>1. f[0] = [done |-> <<>>, words |-> <<>>] /\ \A i \in 1 .. n : f[i] = step[i][f[i - 1]] /\ f[i - 1] \in Taken
      BY <1>1, <1>3 DEF Iterates
    <2> QED
      BY <2>1 DEF step
  <1>10. g[1 .. n] = f[n]
    <2> DEFINE A == {i \in 0 .. n : g[1 .. i] = f[i]}
    <2>1. 0 \in A
      <3>1. 1 .. 0 = {} /\ {} \in SUBSET (1 .. n)
        OBVIOUS
      <3>2. g[1 .. 0] = f[0]
        BY <1>8, <1>9, <3>1
      <3> QED
        BY <1>1, <3>2
    <2>2. ASSUME NEW i \in 1 .. n, i - 1 \in A PROVE i \in A
      <3>1. Max(1 .. i) = i /\ (1 .. i) \ {i} = 1 .. i - 1 /\ 1 .. i \in SUBSET (1 .. n) /\ 1 .. i # {}
        BY <1>1, MaxUpto
      <3>2. g[1 .. i] = TakeWord(g[1 .. i - 1], Words(part)[i])
        BY <1>8, <3>1
      <3>3. g[1 .. i - 1] = f[i - 1] /\ i \in 0 .. n
        BY <1>1, <2>2
      <3> QED
        BY <1>9, <3>2, <3>3
    <2> HIDE DEF A
    <2>3. \A i \in 0 .. n : i \in A
      BY <1>1, <2>1, <2>2, Induction
    <2>4. n \in A
      BY <1>1, <2>3
    <2> QED
      BY <2>4 DEF A
  <1>11. f \in [0 .. Len(Words(part)) -> Taken]
    BY <1>3 DEF n
  <1>12. ByTokens(part) =
                 IF Len(Visible(part)) <= MaxTokens THEN <<part>>
                 ELSE IF f[Len(Words(part))].words = <<>> THEN f[Len(Words(part))].done
                 ELSE Append(f[Len(Words(part))].done, f[Len(Words(part))].words)
    BY <1>1, <1>7, <1>10 DEF n
  <1>13. f[0] = [done |-> <<>>, words |-> <<>>] /\ \A i \in 1 .. Len(Words(part)) : f[i] = TakeWord(f[i - 1], Words(part)[i])
    BY <1>9 DEF n
  <1> QED
    BY <1>11, <1>12, <1>13

LEMMA ByTokensOf ==
  ASSUME Limits, NEW part \in Text
  PROVE  /\ ByTokens(part) \in Seq(Spoken)
         /\ \A kinds : "space" \notin kinds => Of(ByTokens(part), kinds) = Only(part, kinds)
  <1> DEFINE n == Len(Words(part))
  <1>1. Words(part) \in Seq(Text)
    BY WordsType
  <1>2. n \in Nat /\ n \in 0 .. n /\ \A i \in 1 .. n : Words(part)[i] \in Text
    BY <1>1
  <1>3. PICK f \in [0 .. n -> Taken] :
          /\ f[0] = [done |-> <<>>, words |-> <<>>]
          /\ \A i \in 1 .. n : f[i] = TakeWord(f[i - 1], Words(part)[i])
          /\ ByTokens(part) = IF Len(Visible(part)) <= MaxTokens THEN <<part>>
                              ELSE IF f[n].words = <<>> THEN f[n].done
                              ELSE Append(f[n].done, f[n].words)
    BY <1>1, ByTokensFold
  <1>4. f[n].done \in Seq(Spoken) /\ f[n].words \in Spoken /\ f[n].done \in Seq(Text) /\ f[n].words \in Text
    <2>1. f[n] \in Taken
      BY <1>2, <1>3
    <2>2. f[n].done \in Seq(Spoken) /\ f[n].words \in Spoken
      BY <2>1 DEF Taken
    <2> QED
      BY <2>2 DEF Spoken
  <1>5. Len(Visible(part)) <= MaxTokens => <<part>> \in Seq(Spoken)
    BY DEF Spoken
  <1>6. Append(f[n].done, f[n].words) \in Seq(Spoken)
    BY <1>4, AppendIs
  <1>7. ByTokens(part) \in Seq(Spoken)
    BY <1>3, <1>4, <1>5, <1>6
  <1>8. ASSUME NEW kinds, "space" \notin kinds PROVE Of(ByTokens(part), kinds) = Only(part, kinds)
    <2> DEFINE a == [i \in 0 .. n |-> Of(f[i].done, kinds) \o Only(f[i].words, kinds)]
    <2>1. a[0] = <<>>
      <3>1. Of(<<>>, kinds) = <<>>
        BY OfParts
      <3>2. Only(<<>>, kinds) = <<>>
        BY OnlyOne
      <3>3. a[0] = Of(f[0].done, kinds) \o Only(f[0].words, kinds)
        BY <1>2
      <3>4. f[0].done = <<>> /\ f[0].words = <<>>
        BY <1>3
      <3>5. a[0] = <<>> \o <<>>
        BY <3>1, <3>2, <3>3, <3>4
      <3> QED
        BY <3>5
    <2>2. ASSUME NEW i \in 1 .. n PROVE a[i] = a[i - 1] \o Only(Words(part)[i], kinds)
      <3>1. i \in 0 .. n /\ i - 1 \in 0 .. n
        BY <1>2
      <3>2. f[i] = TakeWord(f[i - 1], Words(part)[i]) /\ f[i - 1] \in Taken
        BY <1>3, <3>1
      <3> DEFINE u == TakeWord(f[i - 1], Words(part)[i])
      <3>3. Of(u.done, kinds) \o Only(u.words, kinds)
              = (Of(f[i - 1].done, kinds) \o Only(f[i - 1].words, kinds)) \o Only(Words(part)[i], kinds)
        BY <1>2, <1>8, <3>2, TakeWordIs
      <3> HIDE DEF u
      <3>4. f[i] = u
        BY <3>2 DEF u
      <3> QED
        BY <3>1, <3>3, <3>4
    <2>3. a[n] = Of(f[n].done, kinds) \o Only(f[n].words, kinds)
      BY <1>2
    <2> HIDE DEF a
    <2>4. a[n] = Only(part, kinds)
      <3>1. a[n] = Of(Words(part), kinds)
        BY <1>1, <2>1, <2>2, SumOf
      <3> QED
        BY <1>8, <3>1, WordsOf
    <2>5. CASE Len(Visible(part)) <= MaxTokens
      <3>1. \A x \in Seq(Mark) : Of(<<x>>, kinds) = Only(x, kinds)
        BY OfParts
      <3> QED
        BY <1>3, <2>5, <3>1 DEF Text
    <2>6. CASE ~(Len(Visible(part)) <= MaxTokens) /\ f[n].words = <<>>
      <3>1. Only(f[n].words, kinds) = <<>>
        BY <2>6, OnlyOne
      <3>2. Of(f[n].done, kinds) \in Seq(Mark)
        BY <1>4, OfText
      <3>3. Of(f[n].done, kinds) \o <<>> = Of(f[n].done, kinds)
        BY <3>2
      <3> QED
        BY <1>3, <2>3, <2>4, <2>6, <3>1, <3>3
    <2>7. CASE ~(Len(Visible(part)) <= MaxTokens) /\ f[n].words # <<>>
      <3>1. Of(Append(f[n].done, f[n].words), kinds) = Of(f[n].done, kinds) \o Only(f[n].words, kinds)
        BY <1>4, OfText
      <3> QED
        BY <1>3, <2>3, <2>4, <2>7, <3>1
    <2> QED
      BY <2>5, <2>6, <2>7
  <1> QED
    BY <1>7, <1>8

\* The parts of a text.
LEMMA NextPartType ==
  ASSUME NEW ps \in Heads, NEW w \in Text PROVE NextPart(ps, w) \in Heads
  <1>1. ps \in Seq(Text) /\ ps # <<>> /\ Last(ps) \in Text /\ Front(ps) \in Seq(Text)
    BY LastOf DEF Heads
  <1>2. Last(ps) \o <<"space">> \o w \in Text
    BY <1>1, SpacedText
  <1>3. /\ Append(Front(ps), w) \in Heads /\ Append(Front(ps), Last(ps) \o <<"space">> \o w) \in Heads
        /\ Append(ps, w) \in Heads
    BY <1>1, <1>2, AppendIs DEF Heads
  <1> QED
    BY <1>3 DEF NextPart

LEMMA NextPartOf ==
  ASSUME NEW ps \in Heads, NEW w \in Text, NEW kinds, "space" \notin kinds
  PROVE  Of(NextPart(ps, w), kinds) = Of(ps, kinds) \o Only(w, kinds)
  <1>1. ps \in Seq(Text) /\ Last(ps) \in Text
    BY LastOf DEF Heads
  <1>2. Only(w, kinds) \in Seq(Mark) /\ <<>> \o Only(w, kinds) = Only(w, kinds)
    <2>1. Only(w, kinds) \in Seq(Mark)
      BY OfText DEF Text
    <2> QED
      BY <2>1
  <1>3. Of(Append(ps, w), kinds) = Of(ps, kinds) \o Only(w, kinds)
    BY <1>1, OfText
  <1>4. CASE Last(ps) = <<>>
    <2>1. Only(w, kinds) = Only(Last(ps), kinds) \o Only(w, kinds)
      BY <1>2, <1>4, OnlyOne
    <2>2. Of(Append(Front(ps), w), kinds) = Of(ps, kinds) \o Only(w, kinds)
      BY <1>2, <2>1, Regrown
    <2> QED
      BY <1>4, <2>2 DEF NextPart
  <1>5. CASE Last(ps) # <<>>
    <2> DEFINE x == Last(ps) \o <<"space">> \o w
    <2>1. x \in Text /\ Only(x, kinds) = Only(Last(ps), kinds) \o Only(w, kinds)
      BY <1>1, SpacedIs
    <2> HIDE DEF x
    <2>2. Of(Append(Front(ps), x), kinds) = Of(ps, kinds) \o Only(w, kinds)
      BY <1>2, <2>1, Regrown
    <2>3. NextPart(ps, w) \in {Append(ps, w), Append(Front(ps), x)}
      BY <1>5 DEF NextPart, x
    <2> QED
      BY <1>3, <2>2, <2>3
  <1> QED
    BY <1>4, <1>5

LEMMA PartsFold ==
  ASSUME NEW text, Words(text) \in Seq(Text)
  PROVE  \E f \in [0 .. Len(Words(text)) -> Heads] :
            /\ f[0] = <<<<>>>> /\ \A i \in 1 .. Len(Words(text)) : f[i] = NextPart(f[i - 1], Words(text)[i])
            /\ Parts(text) = f[Len(Words(text))]
  <1> DEFINE n == Len(Words(text))
             Value(h, T) == IF T = {} THEN <<<<>>>> ELSE NextPart(h[T \ {Max(T)}], Words(text)[Max(T)])
             Is(h) == h = [T \in SUBSET DOMAIN Words(text) |-> Value(h, T)]
             step == [i \in 1 .. n |-> [y \in Heads |-> NextPart(y, Words(text)[i])]]
  <1>1. /\ n \in Nat /\ DOMAIN Words(text) = 1 .. n /\ \A i \in 1 .. n : Words(text)[i] \in Text
    OBVIOUS
  <1>b. <<<<>>>> \in Heads
    BY DEF Heads, Text
  <1>2. step \in [1 .. n -> [Heads -> Heads]]
    BY <1>1, NextPartType
  <1> HIDE DEF n, step
  <1>3. PICK f \in [0 .. n -> Heads] : Iterates(f, n, <<<<>>>>, step)
    BY <1>1, <1>b, <1>2, Recursion
  <1>4. PICK h \in [SUBSET (1 .. n) -> Heads] : Folds(h, n, <<<<>>>>, step)
    BY <1>1, <1>b, <1>2, Subsets
  <1>5. Is(h)
    <2>1. ASSUME NEW T \in SUBSET (1 .. n), T # {}
          PROVE  h[T] = NextPart(h[T \ {Max(T)}], Words(text)[Max(T)])
      <3>1. Max(T) \in 1 .. n /\ T \ {Max(T)} \in SUBSET (1 .. n)
        BY <1>1, <2>1, MaxIs
      <3>2. h[T] = step[Max(T)][h[T \ {Max(T)}]] /\ h[T \ {Max(T)}] \in Heads
        BY <1>4, <2>1, <3>1 DEF Folds
      <3> QED
        BY <3>1, <3>2 DEF step
    <2>2. h[{}] = <<<<>>>>
      BY <1>4 DEF Folds
    <2>3. \A T \in SUBSET (1 .. n) : h[T] = Value(h, T)
      BY <2>1, <2>2
    <2> HIDE DEF Value
    <2> QED
      BY <1>1, <1>4, <2>3
  <1> DEFINE g == CHOOSE g : Is(g)
  <1>6. Is(g)
    <2> HIDE DEF Is
    <2> QED
      BY <1>5
  <1>7. Parts(text) = g[DOMAIN Words(text)]
    BY DEF Parts, FoldLeft, MapThenFoldSet
  <1> HIDE DEF g
  <1>8. \A T \in SUBSET (1 .. n) : g[T] = Value(g, T)
    <2> HIDE DEF Value
    <2> QED
      BY <1>1, <1>6
  <1>9. f[0] = <<<<>>>> /\ \A i \in 1 .. n : f[i] = NextPart(f[i - 1], Words(text)[i])
    <2>1. f[0] = <<<<>>>> /\ \A i \in 1 .. n : f[i] = step[i][f[i - 1]] /\ f[i - 1] \in Heads
      BY <1>1, <1>3 DEF Iterates
    <2> QED
      BY <2>1 DEF step
  <1>10. g[1 .. n] = f[n]
    <2> DEFINE A == {i \in 0 .. n : g[1 .. i] = f[i]}
    <2>1. 0 \in A
      <3>1. 1 .. 0 = {} /\ {} \in SUBSET (1 .. n)
        OBVIOUS
      <3>2. g[1 .. 0] = f[0]
        BY <1>8, <1>9, <3>1
      <3> QED
        BY <1>1, <3>2
    <2>2. ASSUME NEW i \in 1 .. n, i - 1 \in A PROVE i \in A
      <3>1. Max(1 .. i) = i /\ (1 .. i) \ {i} = 1 .. i - 1 /\ 1 .. i \in SUBSET (1 .. n) /\ 1 .. i # {}
        BY <1>1, MaxUpto
      <3>2. g[1 .. i] = NextPart(g[1 .. i - 1], Words(text)[i])
        BY <1>8, <3>1
      <3>3. g[1 .. i - 1] = f[i - 1] /\ i \in 0 .. n
        BY <1>1, <2>2
      <3> QED
        BY <1>9, <3>2, <3>3
    <2> HIDE DEF A
    <2>3. \A i \in 0 .. n : i \in A
      BY <1>1, <2>1, <2>2, Induction
    <2>4. n \in A
      BY <1>1, <2>3
    <2> QED
      BY <2>4 DEF A
  <1>11. f \in [0 .. Len(Words(text)) -> Heads]
    BY <1>3 DEF n
  <1>12. Parts(text) = f[Len(Words(text))]
    BY <1>1, <1>7, <1>10 DEF n
  <1>13. f[0] = <<<<>>>> /\ \A i \in 1 .. Len(Words(text)) : f[i] = NextPart(f[i - 1], Words(text)[i])
    BY <1>9 DEF n
  <1> QED
    BY <1>11, <1>12, <1>13

LEMMA PartsOf ==
  ASSUME NEW text \in Text
  PROVE  /\ Parts(text) \in Seq(Text)
         /\ \A kinds : "space" \notin kinds => Of(Parts(text), kinds) = Only(text, kinds)
  <1> DEFINE n == Len(Words(text))
  <1>1. Words(text) \in Seq(Text)
    BY WordsType
  <1>2. n \in Nat /\ n \in 0 .. n /\ \A i \in 1 .. n : Words(text)[i] \in Text
    BY <1>1
  <1>3. PICK f \in [0 .. n -> Heads] :
          /\ f[0] = <<<<>>>> /\ \A i \in 1 .. n : f[i] = NextPart(f[i - 1], Words(text)[i])
          /\ Parts(text) = f[n]
    BY <1>1, PartsFold
  <1>4. Parts(text) \in Seq(Text)
    BY <1>2, <1>3 DEF Heads
  <1>5. ASSUME NEW kinds, "space" \notin kinds PROVE Of(Parts(text), kinds) = Only(text, kinds)
    <2> DEFINE a == [i \in 0 .. n |-> Of(f[i], kinds)]
    <2>1. a[0] = <<>>
      <3>1. <<>> \in Seq(Mark)
        OBVIOUS
      <3>2. Only(<<>>, kinds) = <<>>
        BY OnlyOne
      <3>3. \A p \in Seq(Mark) : Of(<<p>>, kinds) = Only(p, kinds)
        BY OfParts
      <3>4. Of(<<<<>>>>, kinds) = <<>>
        BY <3>1, <3>2, <3>3
      <3>5. a[0] = Of(f[0], kinds)
        BY <1>2
      <3> QED
        BY <1>3, <3>4, <3>5
    <2>2. ASSUME NEW i \in 1 .. n PROVE a[i] = a[i - 1] \o Only(Words(text)[i], kinds)
      <3>1. i \in 0 .. n /\ i - 1 \in 0 .. n
        BY <1>2
      <3>2. f[i] = NextPart(f[i - 1], Words(text)[i]) /\ f[i - 1] \in Heads
        BY <1>3, <3>1
      <3>3. Of(NextPart(f[i - 1], Words(text)[i]), kinds) = Of(f[i - 1], kinds) \o Only(Words(text)[i], kinds)
        BY <1>2, <1>5, <3>2, NextPartOf
      <3> QED
        BY <3>1, <3>2, <3>3
    <2>3. a[n] = Of(Parts(text), kinds)
      BY <1>2, <1>3
    <2> HIDE DEF a
    <2>4. a[n] = Of(Words(text), kinds)
      BY <1>1, <2>1, <2>2, SumOf
    <2> QED
      BY <1>5, <2>3, <2>4, WordsOf
  <1> QED
    BY <1>4, <1>5

(***************************************************************************)
(* The steps that cut a whole text at once, and the theorem.               *)
(***************************************************************************)
LEMMA PackSafe ==
  ASSUME Limits, IInv, Pack PROVE IInv'
  <1> DEFINE z == [i \in DOMAIN pieces |->
                     IF Len(pieces[i]) <= MaxReq THEN <<pieces[i]>> ELSE Packed(pieces[i])]
             packed == IF HasCjk(said) THEN pieces ELSE FlattenSeq(z)
  <1>1. /\ pieces' = Merged(packed) /\ cutter = "requests" /\ mode' = "done"
        /\ cutter' = cutter /\ said' = said /\ unread' = unread /\ buf' = buf
        /\ Typed /\ Sized /\ buf = <<>> /\ unread = <<>>
    BY DEF Pack, IInv, Placed
  <1>2. pieces \in Seq(Text) /\ pieces \in Seq(Fitting)
    <2>1. pieces \in Seq(Text)
      BY <1>1 DEF Typed
    <2>2. \A i \in 1 .. Len(pieces) : pieces[i] \in Fitting
      BY <1>1, <2>1 DEF Sized, Fits, Fitting, Atoms
    <2> QED
      BY <2>1, <2>2
  <1>3. ASSUME NEW i \in 1 .. Len(pieces)
        PROVE  z[i] \in Seq(Fitting) /\ \A kinds : "space" \notin kinds => Of(z[i], kinds) = Only(pieces[i], kinds)
    <2>1. pieces[i] \in Text /\ pieces[i] \in Fitting /\ i \in DOMAIN pieces
      BY <1>2
    <2>2. z[i] = IF Len(pieces[i]) <= MaxReq THEN <<pieces[i]>> ELSE Packed(pieces[i])
      BY <2>1
    <2> HIDE DEF z
    <2>3. CASE z[i] = <<pieces[i]>>
      <3>1. ASSUME NEW kinds PROVE Of(<<pieces[i]>>, kinds) = Only(pieces[i], kinds)
        <4>1. \A x \in Seq(Mark) : Of(<<x>>, kinds) = Only(x, kinds)
          BY OfParts
        <4> QED
          BY <2>1, <4>1 DEF Text
      <3> QED
        BY <2>1, <2>3, <3>1
    <2>4. CASE z[i] = Packed(pieces[i])
      <3> DEFINE ps == Packed(pieces[i])
      <3>1. ps \in Seq(Text) /\ \A kinds : "space" \notin kinds => Of(ps, kinds) = Only(pieces[i], kinds)
        BY <2>1, PackedOf
      <3> HIDE DEF ps
      <3>2. ASSUME NEW k \in 1 .. Len(ps) PROVE ps[k] \in Fitting
        <4>1. Len(Only(ps[k], Atoms)) <= Len(Of(ps, Atoms))
          BY <3>1, OfMember
        <4>2. Of(ps, Atoms) = Only(pieces[i], Atoms)
          BY <3>1 DEF Atoms
        <4>3. ps[k] \in Text /\ Len(Only(pieces[i], Atoms)) <= AtomLimit
          BY <2>1, <3>1 DEF Fitting
        <4>4. /\ Len(Only(ps[k], Atoms)) \in Nat /\ Len(Only(pieces[i], Atoms)) \in Nat /\ AtomLimit \in Nat
          BY <2>1, <4>3, AtomsIs DEF Limits
        <4> QED
          BY <4>1, <4>2, <4>3, <4>4 DEF Fitting
      <3>3. ps \in Seq(Fitting)
        BY <3>1, <3>2
      <3> QED
        BY <2>4, <3>1, <3>3 DEF ps
    <2> QED
      BY <2>2, <2>3, <2>4
  <1>4. z \in Seq(Seq(Fitting)) /\ Len(z) = Len(pieces)
    <2>1. \A i \in 1 .. Len(pieces) : z[i] \in Seq(Fitting)
      BY <1>3
    <2>2. Len(pieces) \in Nat /\ DOMAIN pieces = 1 .. Len(pieces)
      BY <1>2
    <2>3. DOMAIN z = 1 .. Len(pieces) /\ z = [i \in 1 .. Len(pieces) |-> z[i]]
      BY <2>2
    <2> HIDE DEF z
    <2> QED
      BY <2>1, <2>2, <2>3
  <1> HIDE DEF z
  <1>5. z \in Seq(Seq(Text))
    <2>1. \A x \in Seq(Fitting) : x \in Seq(Text)
      BY DEF Fitting
    <2> QED
      BY <1>4, <2>1
  <1>6. FlattenSeq(z) \in Seq(Fitting)
    BY <1>4, FlattenType
  <1>7. packed \in Seq(Fitting)
    BY <1>2, <1>6
  <1>8. ASSUME NEW kinds, "space" \notin kinds PROVE Of(packed, kinds) = Of(pieces, kinds)
    <2>1. \A i \in 1 .. Len(pieces) : Of(z[i], kinds) = Only(pieces[i], kinds)
      BY <1>3, <1>8
    <2>2. Of(FlattenSeq(z), kinds) = Of(pieces, kinds)
      BY <1>2, <1>4, <1>5, <2>1, FlattenParts
    <2> QED
      BY <2>2
  <1> HIDE DEF packed
  <1>9. pieces' \in Seq(Fitting) /\ \A kinds : "space" \notin kinds => Of(pieces', kinds) = Of(packed, kinds)
    BY <1>1, <1>7, MergedOf
  <1>10. Of(pieces', Shown) = Of(pieces, Shown)
    <2>1. "space" \notin Shown
      BY DEF Shown
    <2> QED
      BY <1>8, <1>9, <2>1
  <1>11. Typed'
    <2>1. pieces' \in Seq(Text)
      BY <1>9 DEF Fitting
    <2> QED
      BY <1>1, <2>1 DEF Typed, Text
  <1>12. NothingLost'
    BY <1>1, <1>10, <1>11, Moved
  <1>13. Placed' /\ Held'
    BY <1>1 DEF Placed, Held, Streams, Clauses
  <1>14. Sized'
    <2>1. \A i \in DOMAIN pieces' : Len(Only(pieces'[i], Atoms)) <= AtomLimit
      BY <1>9 DEF Fitting
    <2> QED
      BY <1>1, <2>1 DEF Sized, Fits, Atoms
  <1> QED
    BY <1>11, <1>12, <1>13, <1>14 DEF IInv

LEMMA SplitStreamTextSafe ==
  ASSUME Limits, IInv, SplitStreamText PROVE IInv'
  <1>1. PICK n \in 1 .. MaxText : \E text \in [1 .. n -> Char] :
          /\ said' = Joined(Words(text))
          /\ pieces' = IF said' = <<>> THEN <<>>
                       ELSE FlattenSeq([i \in DOMAIN Parts(said') |-> ByTokens(Parts(said')[i])])
    BY DEF SplitStreamText
  <1>2. PICK text \in [1 .. n -> Char] :
          /\ said' = Joined(Words(text))
          /\ pieces' = IF said' = <<>> THEN <<>>
                       ELSE FlattenSeq([i \in DOMAIN Parts(said') |-> ByTokens(Parts(said')[i])])
    BY <1>1
  <1>3. /\ cutter = "tokens" /\ mode = "idle" /\ mode' = "done" /\ buf = <<>> /\ unread = <<>>
        /\ cutter' = cutter /\ buf' = buf /\ unread' = unread
    BY DEF SplitStreamText, IInv, Placed, Streams
  <1>4. text \in Text
    <2>1. n \in Nat
      OBVIOUS
    <2>2. text \in Seq(Char)
      BY <2>1
    <2> QED
      BY <2>2 DEF Text, Mark
  <1> DEFINE t == said'
             ps == Parts(t)
             z  == [i \in DOMAIN ps |-> ByTokens(ps[i])]
  <1>5. t \in Text
    BY <1>2, <1>4, WordsType, JoinedType
  <1>6. ps \in Seq(Text) /\ \A kinds : "space" \notin kinds => Of(ps, kinds) = Only(t, kinds)
    <2> HIDE DEF t
    <2> QED
      BY <1>5, PartsOf
  <1>7. pieces' = IF t = <<>> THEN <<>> ELSE FlattenSeq(z)
    BY <1>2
  <1> HIDE DEF t, ps
  <1>8. ASSUME NEW i \in 1 .. Len(ps)
        PROVE  z[i] \in Seq(Spoken) /\ \A kinds : "space" \notin kinds => Of(z[i], kinds) = Only(ps[i], kinds)
    <2>1. ps[i] \in Text /\ z[i] = ByTokens(ps[i])
      BY <1>6
    <2> HIDE DEF z
    <2> QED
      BY <2>1, ByTokensOf
  <1>9. z \in Seq(Seq(Spoken)) /\ Len(z) = Len(ps)
    <2>1. \A i \in 1 .. Len(ps) : z[i] \in Seq(Spoken)
      BY <1>8
    <2>2. Len(ps) \in Nat /\ DOMAIN ps = 1 .. Len(ps)
      BY <1>6
    <2>3. DOMAIN z = 1 .. Len(ps) /\ z = [i \in 1 .. Len(ps) |-> z[i]]
      BY <2>2
    <2> HIDE DEF z
    <2> QED
      BY <2>1, <2>2, <2>3
  <1> HIDE DEF z
  <1>10. z \in Seq(Seq(Text)) /\ FlattenSeq(z) \in Seq(Spoken)
    <2>1. \A x \in Seq(Spoken) : x \in Seq(Text)
      BY DEF Spoken
    <2> QED
      BY <1>9, <2>1, FlattenType
  <1>11. pieces' \in Seq(Spoken) /\ pieces' \in Seq(Text)
    <2>1. pieces' \in Seq(Spoken)
      BY <1>7, <1>10
    <2> QED
      BY <2>1 DEF Spoken
  <1>12. Of(pieces', Shown) = Visible(t)
    <2>1. "space" \notin Shown
      BY DEF Shown
    <2>2. \A i \in 1 .. Len(ps) : Of(z[i], Shown) = Only(ps[i], Shown)
      BY <1>8, <2>1
    <2>3. Of(FlattenSeq(z), Shown) = Of(ps, Shown)
      BY <1>6, <1>9, <1>10, <2>2, FlattenParts
    <2>4. Of(FlattenSeq(z), Shown) = Visible(t)
      BY <1>6, <2>1, <2>3 DEF Visible, Shown
    <2>5. Of(<<>>, Shown) = <<>> /\ Visible(<<>>) = <<>>
      BY OnlyOne, OfParts DEF Visible
    <2> QED
      BY <1>7, <2>4, <2>5
  <1>13. Typed'
    BY <1>3, <1>5, <1>11 DEF Typed, Text, Cutter, t
  <1>14. NothingLost'
    <2>1. Visible(<<>>) = <<>>
      BY OnlyOne DEF Visible
    <2>2. NothingLost' <=> (Of(pieces', Shown) \o Visible(buf')) \o Visible(unread') = Visible(said')
      <3>1. pieces' \in Seq(Text) /\ buf' \in Text /\ unread' \in Text
        BY <1>13 DEF Typed
      <3>2. Visible(FlattenSeq(pieces') \o buf' \o unread')
              = (Of(pieces', Shown) \o Visible(buf')) \o Visible(unread')
        BY <3>1, Summed
      <3> QED
        BY <3>2 DEF NothingLost
    <2>3. Visible(t) \in Seq(Mark) /\ <<>> \in Seq(Mark)
      BY <1>5, VisibleIs DEF Text
    <2>4. (Visible(t) \o <<>>) \o <<>> = Visible(t)
      BY <2>3
    <2> QED
      BY <1>3, <1>12, <2>1, <2>2, <2>4 DEF t
  <1>15. Placed' /\ Held'
    BY <1>3 DEF Placed, Held, Streams, Clauses
  <1>16. Sized'
    <2>1. \A i \in DOMAIN pieces' : Len(Visible(pieces'[i])) <= MaxTokens
      BY <1>11 DEF Spoken
    <2> QED
      BY <1>3, <2>1 DEF Sized, Fits
  <1> QED
    BY <1>13, <1>14, <1>15, <1>16 DEF IInv

LEMMA InitSafe ==
  ASSUME Limits, Init PROVE IInv
  <1>1. /\ said = <<>> /\ unread = <<>> /\ buf = <<>> /\ pieces = <<>> /\ mode = "idle" /\ cutter \in Cutter
    BY DEF Init
  <1>2. Visible(<<>>) = <<>> /\ Of(<<>>, Shown) = <<>> /\ Only(<<>>, Solid) = <<>>
    BY OnlyOne, OfParts DEF Visible
  <1>3. Typed
    BY <1>1 DEF Typed, Text
  <1>4. NothingLost
    <2>1. FlattenSeq(pieces) \o buf \o unread = <<>>
      BY <1>1, FlattenOne
    <2> QED
      BY <1>1, <2>1 DEF NothingLost
  <1>5. Placed /\ Sized
    BY <1>1 DEF Placed, Sized, Streams
  <1>6. Held
    <2>1. Len(<<>>) = 0 /\ <<>> \in Text
      BY DEF Text
    <2>2. Len(Strip(<<>>)) <= 0
      BY <2>1, StripIs
    <2>3. MaxSentence \in Nat /\ MaxClause \in Nat /\ TargetClause \in Nat
      BY DEF Limits
    <2>4. MaxSentence >= 1 /\ MaxClause >= 1
      BY <2>3 DEF Limits
    <2>5. Len(Strip(<<>>)) \in Nat
      <3>1. Strip(<<>>) \in Seq(Mark)
        BY <2>1, StripIs DEF Text
      <3> QED
        BY <3>1
    <2> QED
      BY <1>1, <2>1, <2>2, <2>3, <2>4, <2>5 DEF Held
  <1> QED
    BY <1>3, <1>4, <1>5, <1>6 DEF IInv

\* Every step keeps the invariant.
LEMMA StepSafe ==
  ASSUME Limits, IInv, [Next]_pieceVars PROVE IInv'
  <1>1. CASE UNCHANGED pieceVars
    BY <1>1 DEF pieceVars, IInv, Typed, NothingLost, Placed, Held, Sized, Fits, Streams, Visible
  <1> QED
    BY <1>1, FeedSafe, EmitSafe, FlushSafe, ReceiveSafe, ScanSafe, ScanEndsSafe, PackSafe,
       SplitStreamTextSafe DEF Next

\* The invariant says that the pieces are the text and fit.
LEMMA InvariantIs ==
  ASSUME Limits, IInv PROVE PiecesAreText
  <1>1. NothingLost /\ Held /\ Sized /\ buf \in Text
    BY DEF IInv, Typed
  <1>2. ASSUME Streams, mode = "idle"
        PROVE  Len(Strip(buf)) < IF cutter = "sentences" THEN MaxSentence ELSE MaxClause
    <2>1. Len(Strip(buf)) <= Len(buf) /\ Len(Strip(buf)) \in Nat /\ Len(buf) \in Nat
      BY <1>1, StripIs DEF Text
    <2>2. MaxSentence \in Nat
      BY DEF Limits
    <2>3. CASE cutter = "sentences"
      BY <1>1, <1>2, <2>1, <2>2, <2>3 DEF Held
    <2>4. CASE cutter # "sentences"
      BY <1>1, <1>2, <2>4 DEF Held, Streams, Clauses
    <2> QED
      BY <2>3, <2>4
  <1>3. PiecesFit
    BY <1>1, <1>2 DEF PiecesFit, Sized, Fits, Atoms
  <1> QED
    BY <1>1, <1>3 DEF PiecesAreText

\* Whatever the deltas and the text, and wherever the four cutters cut: the
\* pieces, with what is held back and what is not read yet, are the text but for
\* spaces, and every piece is within its limit, that of a request counting words
\* and numbers alone.
THEOREM PiecesCorrect ==
  ASSUME Limits PROVE Spec => []PiecesAreText
  <1>1. Init => IInv
    BY InitSafe
  <1>2. IInv /\ [Next]_pieceVars => IInv'
    BY StepSafe
  <1>3. IInv => PiecesAreText
    BY InvariantIs
  <1> QED
    BY <1>1, <1>2, <1>3, PTL DEF Spec
=============================================================================
