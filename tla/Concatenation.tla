---------------------------- MODULE Concatenation ----------------------------
(***************************************************************************)
(* Lemmas about a stream put together from parts, one after the other, the *)
(* way BytesOf of WebSocketConnect and StreamOf of HttpServer do it: by a  *)
(* function on 0 .. N defined by recursion.                                *)
(*                                                                         *)
(* The library's induction theorems take an operator as a parameter; here  *)
(* induction is that a set of numbers with 0 in it and closed under        *)
(* successor is Nat, which follows from the order of the finite sets       *)
(* 1 .. n being well founded.                                              *)
(***************************************************************************)
EXTENDS Integers, Sequences, FiniteSetTheorems, SequenceTheorems, TLAPS

(* a set of numbers that is not empty has a least one *)
LEMMA LeastNumber ==
  ASSUME NEW T, T \subseteq Nat, T # {}
  PROVE  \E m \in T : \A n \in T : m <= n
<1> DEFINE R == StrictSubsetOrdering(Nat)
           F == FiniteSubsetsOf(Nat)
           below == {1 .. n : n \in T}
<1>1. IsWellFoundedOn(R, F)
  BY FS_StrictSubsetOrderingWellFounded
<1>2. below \subseteq F /\ below # {}
  <2>1. \A n \in T : IsFiniteSet(1 .. n) /\ 1 .. n \subseteq Nat
    BY FS_Interval
  <2> QED
    BY <2>1 DEF FiniteSubsetsOf
<1>3. \A n, m \in Nat : n < m => <<1 .. n, 1 .. m>> \in R
  <2> SUFFICES ASSUME NEW n \in Nat, NEW m \in Nat, n < m PROVE <<1 .. n, 1 .. m>> \in R
    OBVIOUS
  <2>1. 1 .. n \subseteq 1 .. m /\ m \in 1 .. m /\ m \notin 1 .. n
    OBVIOUS
  <2>2. 1 .. n # 1 .. m
    BY <2>1
  <2>3. 1 .. n \in SUBSET Nat /\ 1 .. m \in SUBSET Nat
    OBVIOUS
  <2> QED
    BY <2>1, <2>2, <2>3 DEF StrictSubsetOrdering
<1> HIDE DEF R, F, below
<1>4. PICK x \in below : \A y \in below : ~(<<y, x>> \in R)
  BY <1>1, <1>2, WFMin
<1>5. PICK m \in T : x = 1 .. m
  BY DEF below
<1>6. \A n \in T : ~(n < m)
  BY <1>3, <1>4, <1>5 DEF below
<1> QED
  BY <1>6

LEMMA Induction ==
  ASSUME NEW S, S \subseteq Nat, 0 \in S, \A n \in S : n + 1 \in S
  PROVE  S = Nat
<1> SUFFICES ASSUME Nat \ S # {} PROVE FALSE
  OBVIOUS
<1>1. PICK m \in Nat \ S : \A n \in Nat \ S : m <= n
  BY LeastNumber
<1>2. m - 1 \in Nat /\ ~(m <= m - 1)
  BY <1>1
<1>3. m - 1 \in S
  BY <1>1, <1>2
<1> QED
  BY <1>2, <1>3

-----------------------------------------------------------------------------
(* f puts the parts of p together *)
Joins(f, N, p) == f = [i \in 0 .. N |-> IF i = 0 THEN <<>> ELSE f[i - 1] \o p[i]]

(* where the parts of p end in their concatenation t *)
Layout(e, N, p, t) ==
  /\ e \in [0 .. N -> Nat]
  /\ e[0] = 0
  /\ \A i \in 1 .. N : e[i] = e[i - 1] + Len(p[i])
  /\ Len(t) = e[N]
  /\ \A i \in 1 .. N : \A a \in 1 .. Len(p[i]) : t[e[i - 1] + a] = p[i][a]

(* the recursion defines a function *)
LEMMA JoinExists ==
  ASSUME NEW N \in Nat, NEW p
  PROVE  \E f : Joins(f, N, p)
<1> DEFINE G == {n \in Nat : \E f : Joins(f, n, p)}
<1>1. 0 \in G
  <2> DEFINE f == [i \in 0 .. 0 |-> <<>>]
  <2>1. f = [i \in 0 .. 0 |-> IF i = 0 THEN <<>> ELSE f[i - 1] \o p[i]]
    OBVIOUS
  <2> HIDE DEF f
  <2> QED
    BY <2>1 DEF Joins
<1>2. ASSUME NEW n \in G PROVE n + 1 \in G
  <2>1. PICK f : Joins(f, n, p)
    OBVIOUS
  <2> DEFINE g == [i \in 0 .. n + 1 |-> IF i = n + 1 THEN f[n] \o p[n + 1] ELSE f[i]]
  <2>2. ASSUME NEW i \in 0 .. n + 1
        PROVE  g[i] = IF i = 0 THEN <<>> ELSE g[i - 1] \o p[i]
    <3>1. CASE i = n + 1
      <4>1. i # 0 /\ i - 1 = n /\ n \in 0 .. n + 1 /\ n # n + 1
        BY <3>1
      <4> QED
        BY <3>1, <4>1
    <3>2. CASE i # n + 1
      <4>1. i \in 0 .. n
        BY <3>2
      <4>2. f[i] = IF i = 0 THEN <<>> ELSE f[i - 1] \o p[i]
        BY <2>1, <4>1 DEF Joins
      <4>3. g[i] = f[i]
        BY <3>2
      <4>4. i # 0 => i - 1 \in 0 .. n + 1 /\ i - 1 # n + 1
        BY <4>1
      <4> QED
        BY <4>2, <4>3, <4>4
    <3> QED
      BY <3>1, <3>2
  <2>3. g = [i \in 0 .. n + 1 |-> IF i = 0 THEN <<>> ELSE g[i - 1] \o p[i]]
    <3>1. g = [i \in 0 .. n + 1 |-> g[i]]
      OBVIOUS
    <3> HIDE DEF g
    <3> QED
      BY <2>2, <3>1
  <2> HIDE DEF g
  <2>4. Joins(g, n + 1, p)
    BY <2>3 DEF Joins
  <2> QED
    BY <2>4
<1> HIDE DEF G
<1>3. G = Nat
  <2>1. G \subseteq Nat
    BY DEF G
  <2> QED
    BY <1>1, <1>2, <2>1, Induction
<1> QED
  BY <1>3 DEF G

(* a part put behind another *)
LEMMA PartBehind ==
  ASSUME NEW S, NEW t \in Seq(S), NEW q \in Seq(S)
  PROVE  /\ t \o q \in Seq(S) /\ Len(t \o q) = Len(t) + Len(q)
         /\ Len(t) \in Nat /\ Len(q) \in Nat
         /\ Len(t) + Len(q) \in Nat /\ Len(t) <= Len(t) + Len(q)
         /\ \A j \in 1 .. Len(t) : (t \o q)[j] = t[j]
         /\ \A j \in 1 .. Len(q) : (t \o q)[Len(t) + j] = q[j]
  OBVIOUS

LEMMA InsidePart ==
  ASSUME NEW x \in Nat, NEW l \in Nat, NEW z \in Nat, x + l <= z, NEW a \in 1 .. l
  PROVE  x + a \in 1 .. z
  OBVIOUS

LEMMA UpTo ==
  ASSUME NEW x \in Nat, NEW y \in Nat, NEW z \in Nat, x <= y, y <= z
  PROVE  x <= z
  OBVIOUS

(* what the parts are made of, and where they are *)
LEMMA JoinLayout ==
  ASSUME NEW N \in Nat, NEW p, NEW S, \A i \in 1 .. N : p[i] \in Seq(S),
         NEW f, Joins(f, N, p)
  PROVE  f[N] \in Seq(S) /\ \E e : Layout(e, N, p, f[N])
<1> DEFINE e == [i \in 0 .. N |-> Len(f[i])]
           Prefix(n) ==
             /\ f[n] \in Seq(S)
             /\ \A i \in 0 .. n : e[i] \in Nat /\ e[i] <= e[n]
             /\ \A i \in 1 .. n : e[i] = e[i - 1] + Len(p[i])
             /\ \A i \in 1 .. n : \A a \in 1 .. Len(p[i]) : f[n][e[i - 1] + a] = p[i][a]
           H == {n \in Nat : n <= N => Prefix(n)}
<1>1. \A i \in 0 .. N : f[i] = IF i = 0 THEN <<>> ELSE f[i - 1] \o p[i]
  BY DEF Joins
<1>2. \A i \in 0 .. N : e[i] = Len(f[i])
  OBVIOUS
<1> HIDE DEF e
<1>3. Prefix(0)
  <2>1. 0 \in 0 .. N
    OBVIOUS
  <2>2. f[0] = <<>>
    BY <1>1, <2>1
  <2>3. e[0] = Len(f[0])
    BY <1>2, <2>1
  <2>4. f[0] \in Seq(S) /\ e[0] = 0
    BY <2>2, <2>3
  <2>5. 1 .. 0 = {} /\ 0 .. 0 = {0}
    OBVIOUS
  <2> QED
    BY <2>4, <2>5
<1>4. ASSUME NEW n \in Nat, n + 1 <= N, Prefix(n) PROVE Prefix(n + 1)
  <2> DEFINE m == n + 1
             q == p[n + 1]
             t == f[n]
  <2>1. n \in 0 .. N /\ m \in 0 .. N /\ m \in 1 .. N /\ m # 0 /\ m - 1 = n
    BY <1>4
  <2>2. f[m] = t \o q
    BY <1>1, <2>1
  <2>3. q \in Seq(S) /\ t \in Seq(S) /\ e[n] = Len(t) /\ e[m] = Len(f[m])
    BY <1>2, <1>4, <2>1
  <2>4. Len(t) \in Nat /\ Len(q) \in Nat
    BY <2>3
  <2>5. /\ f[m] \in Seq(S) /\ e[m] = e[n] + Len(q) /\ e[m] \in Nat /\ e[n] <= e[m]
        /\ \A j \in 1 .. Len(t) : f[m][j] = t[j]
        /\ \A j \in 1 .. Len(q) : f[m][e[n] + j] = q[j]
    <3> HIDE DEF m, t, q
    <3>1. /\ t \o q \in Seq(S) /\ Len(t \o q) = Len(t) + Len(q)
          /\ Len(t) + Len(q) \in Nat /\ Len(t) <= Len(t) + Len(q)
          /\ \A j \in 1 .. Len(t) : (t \o q)[j] = t[j]
          /\ \A j \in 1 .. Len(q) : (t \o q)[Len(t) + j] = q[j]
      BY <2>3, PartBehind
    <3> QED
      BY <2>2, <2>3, <3>1
  <2>6. \A i \in 0 .. m : e[i] \in Nat /\ e[i] <= e[m]
    <3>1. \A i \in 0 .. m : i = m \/ i \in 0 .. n
      OBVIOUS
    <3>2. \A i \in 0 .. n : e[i] \in Nat /\ e[i] <= e[n]
      BY <1>4
    <3>3. e[n] \in Nat /\ e[m] \in Nat /\ e[n] <= e[m]
      BY <2>3, <2>4, <2>5
    <3> HIDE DEF m
    <3>4. \A i \in 0 .. n : e[i] <= e[m]
      BY <3>2, <3>3, UpTo
    <3>5. e[m] <= e[m]
      BY <3>3
    <3> QED
      BY <3>1, <3>2, <3>3, <3>4, <3>5
  <2>7. \A i \in 1 .. m : i = m \/ i \in 1 .. n
    OBVIOUS
  <2>8. \A i \in 1 .. m : e[i] = e[i - 1] + Len(p[i])
    BY <1>4, <2>1, <2>5, <2>7
  <2>9. ASSUME NEW i \in 1 .. m, NEW a \in 1 .. Len(p[i])
        PROVE  f[m][e[i - 1] + a] = p[i][a]
    <3>1. CASE i = m
      BY <2>1, <2>5, <3>1
    <3>2. CASE i # m
      <4>1. i \in 1 .. n /\ i \in 0 .. n /\ i - 1 \in 0 .. n /\ i \in 1 .. N
        BY <2>1, <2>7, <3>2
      <4>2. Len(p[i]) \in Nat /\ a \in Nat /\ a >= 1 /\ a <= Len(p[i])
        BY <4>1
      <4>3. e[i] = e[i - 1] + Len(p[i]) /\ e[i] <= e[n] /\ e[i - 1] \in Nat
        BY <1>4, <4>1
      <4>4. f[n][e[i - 1] + a] = p[i][a]
        BY <1>4, <4>1
      <4>5. e[i - 1] + a \in 1 .. Len(t)
        <5>1. e[i - 1] \in Nat /\ Len(p[i]) \in Nat /\ Len(t) \in Nat
          BY <2>4, <4>2, <4>3
        <5>2. e[i - 1] + Len(p[i]) <= Len(t)
          BY <2>3, <4>3
        <5> QED
          BY <5>1, <5>2, InsidePart
      <4> QED
        BY <2>5, <4>4, <4>5
    <3> QED
      BY <3>1, <3>2
  <2> QED
    BY <2>5, <2>6, <2>8, <2>9
<1>5. Prefix(N)
  <2> HIDE DEF Prefix
  <2>1. 0 \in H
    BY <1>3
  <2>2. \A n \in H : n + 1 \in H
    BY <1>4
  <2>3. H \subseteq Nat
    OBVIOUS
  <2> HIDE DEF H
  <2>4. N \in H
    BY <2>1, <2>2, <2>3, Induction
  <2> QED
    BY <2>4 DEF H
<1>6. e \in [0 .. N -> Nat] /\ e[0] = 0 /\ Len(f[N]) = e[N]
  <2>1. 0 \in 0 .. N /\ N \in 0 .. N
    OBVIOUS
  <2>2. \A i \in 0 .. N : Len(f[i]) \in Nat
    BY <1>2, <1>5
  <2>3. e \in [0 .. N -> Nat]
    BY <2>2 DEF e
  <2> QED
    BY <1>1, <1>2, <2>1, <2>3
<1>7. Layout(e, N, p, f[N])
  BY <1>5, <1>6 DEF Layout
<1> QED
  BY <1>5, <1>7

-----------------------------------------------------------------------------
(* Reading a stream through a buffer *)

(* the first m elements of a buffer b put behind t *)
LEMMA PieceBehind ==
  ASSUME NEW S, NEW t \in Seq(S), NEW b \in Seq(S), NEW m \in 0 .. Len(b)
  PROVE  /\ t \o SubSeq(b, 1, m) \in Seq(S) /\ Len(t \o SubSeq(b, 1, m)) = Len(t) + m
         /\ \A j \in 1 .. Len(t) : (t \o SubSeq(b, 1, m))[j] = t[j]
         /\ \A j \in 1 .. m : (t \o SubSeq(b, 1, m))[Len(t) + j] = b[j]
<1> DEFINE s == SubSeq(b, 1, m)
<1>1. Len(b) \in Nat /\ m \in Nat /\ m <= Len(b)
  OBVIOUS
<1>2. s \in Seq(S) /\ Len(s) = m /\ \A j \in 1 .. m : s[j] = b[j]
  BY <1>1
<1> HIDE DEF s
<1>3. /\ t \o s \in Seq(S) /\ Len(t \o s) = Len(t) + Len(s)
      /\ \A j \in 1 .. Len(t) : (t \o s)[j] = t[j]
      /\ \A j \in 1 .. Len(s) : (t \o s)[Len(t) + j] = s[j]
  <2>1. s \in Seq(S)
    BY <1>2
  <2> QED
    BY <2>1, PartBehind
<1> QED
  BY <1>2, <1>3 DEF s

(* what is left of the buffer then *)
LEMMA PieceLeft ==
  ASSUME NEW S, NEW b \in Seq(S), NEW m \in 0 .. Len(b)
  PROVE  /\ SubSeq(b, m + 1, Len(b)) \in Seq(S) /\ Len(SubSeq(b, m + 1, Len(b))) = Len(b) - m
         /\ \A j \in 1 .. Len(b) - m : SubSeq(b, m + 1, Len(b))[j] = b[m + j]
<1>1. Len(b) \in Nat /\ m \in Nat /\ m <= Len(b) /\ m + 1 \in Nat
  OBVIOUS
<1> QED
  BY <1>1

(* of the stream t, c elements are out of the buffer, then comes the buffer *)
(* and then what was not read                                               *)
At(t, c, buffer, rest) ==
  /\ c + Len(buffer) + Len(rest) = Len(t)
  /\ \A j \in 1 .. Len(buffer) : buffer[j] = t[c + j]
  /\ \A j \in 1 .. Len(rest) : rest[j] = t[c + Len(buffer) + j]

LEMMA AtMoved ==
  ASSUME NEW S, NEW t \in Seq(S), NEW c \in Nat, NEW b \in Seq(S), NEW r \in Seq(S),
         At(t, c, b, r), NEW m \in 0 .. Len(b)
  PROVE  At(t, c + m, SubSeq(b, m + 1, Len(b)), r)
<1> DEFINE d == SubSeq(b, m + 1, Len(b))
           n == Len(b)
           z == Len(r)
<1>1. n \in Nat /\ z \in Nat /\ m \in Nat /\ m <= n
  OBVIOUS
<1>2. Len(d) = n - m /\ \A j \in 1 .. n - m : d[j] = b[m + j]
  BY PieceLeft
<1>3. /\ c + n + z = Len(t) /\ \A j \in 1 .. n : b[j] = t[c + j]
      /\ \A j \in 1 .. z : r[j] = t[c + n + j]
  BY DEF At
<1> HIDE DEF d, n, z
<1>4. c + m + Len(d) + z = Len(t) /\ \A j \in 1 .. z : c + m + Len(d) + j = c + n + j
  <2> DEFINE x == Len(d)
             y == Len(t)
  <2>1. x = n - m /\ c + n + z = y
    BY <1>2, <1>3
  <2> HIDE DEF x, y
  <2>2. c + m + x + z = y /\ \A j \in 1 .. z : c + m + x + j = c + n + j
    BY <1>1, <2>1
  <2> QED
    BY <2>2 DEF x, y
<1>5. ASSUME NEW j \in 1 .. n - m PROVE m + j \in 1 .. n /\ c + (m + j) = c + m + j
  BY <1>1
<1>6. \A j \in 1 .. Len(d) : d[j] = t[c + m + j]
  BY <1>2, <1>3, <1>5
<1> QED
  BY <1>3, <1>4, <1>6 DEF At, d, z

LEMMA AtRead ==
  ASSUME NEW S, NEW t \in Seq(S), NEW c \in Nat, NEW r \in Seq(S),
         At(t, c, <<>>, r), NEW n \in 0 .. Len(r)
  PROVE  At(t, c, SubSeq(r, 1, n), SubSeq(r, n + 1, Len(r)))
<1> DEFINE b == SubSeq(r, 1, n)
           d == SubSeq(r, n + 1, Len(r))
           z == Len(r)
<1>1. z \in Nat /\ n \in Nat /\ n <= z
  OBVIOUS
<1>2. Len(d) = z - n /\ \A j \in 1 .. z - n : d[j] = r[n + j]
  BY PieceLeft
<1>3. Len(b) = n /\ \A j \in 1 .. n : b[j] = r[j]
  BY <1>1
<1>4. /\ c + 0 + z = Len(t) /\ \A j \in 1 .. z : r[j] = t[c + 0 + j]
  <2>1. Len(<<>>) = 0
    OBVIOUS
  <2> QED
    BY <2>1 DEF At
<1> HIDE DEF b, d, z
<1>5. c + n + (z - n) = Len(t)
  <2> DEFINE y == Len(t)
  <2>1. c + 0 + z = y
    BY <1>4
  <2> HIDE DEF y
  <2>2. c + n + (z - n) = y
    BY <1>1, <2>1
  <2> QED
    BY <2>2 DEF y
<1>6. ASSUME NEW j \in 1 .. n PROVE j \in 1 .. z /\ c + 0 + j = c + j
  BY <1>1
<1>7. ASSUME NEW j \in 1 .. z - n PROVE n + j \in 1 .. z /\ c + 0 + (n + j) = c + n + j
  BY <1>1
<1>8. \A j \in 1 .. n : b[j] = t[c + j]
  BY <1>3, <1>4, <1>6
<1>9. \A j \in 1 .. z - n : d[j] = t[c + n + j]
  BY <1>2, <1>4, <1>7
<1> QED
  BY <1>2, <1>3, <1>5, <1>8, <1>9 DEF At, b, d
=============================================================================
