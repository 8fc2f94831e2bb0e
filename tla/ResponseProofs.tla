--------------------------- MODULE ResponseProofs ---------------------------
(***************************************************************************)
(* The response to an operation is the expected one, for every document    *)
(* whose fragments do not contain themselves.                              *)
(***************************************************************************)
EXTENDS ExpectedResponse, ExecutionProofs

-----------------------------------------------------------------------------
(* Joining sequences                                                       *)

LEMMA FillsSeq ==
  ASSUME NEW U, NEW n \in Nat, NEW f, f = [i \in 1..n |-> f[i]], \A i \in 1..n : f[i] \in U
  PROVE  f \in Seq(U) /\ Len(f) = n
OBVIOUS

\* h is what has been joined of s after each of its first n sequences.
Joins(s, n, h) ==
  /\ h[0] = <<>>
  /\ \A i \in 0..(n - 1) : h[i + 1] = h[i] \o s[i + 1]

LEMMA JoinsTyped ==
  ASSUME NEW T, NEW n \in Nat, NEW s, \A i \in 1..n : s[i] \in Seq(T),
         NEW h, Joins(s, n, h)
  PROVE  \A i \in 0..n : h[i] \in Seq(T)
<1> DEFINE P == {k \in Nat : k <= n => h[k] \in Seq(T)}
<1>1. 0 \in P
  <2>1. h[0] = <<>>
    BY DEF Joins
  <2>2. h[0] \in Seq(T)
    BY <2>1
  <2> QED  BY <2>2
<1>2. ASSUME NEW k \in Nat, k \in P PROVE k + 1 \in P
  <2> SUFFICES ASSUME k + 1 <= n PROVE h[k + 1] \in Seq(T)
    OBVIOUS
  <2>1. h[k] \in Seq(T) /\ s[k + 1] \in Seq(T)
    BY <1>2
  <2>2. k \in 0..(n - 1)
    OBVIOUS
  <2>3. h[k + 1] = h[k] \o s[k + 1]
    BY <2>2 DEF Joins
  <2> QED  BY <2>1, <2>3
<1>3. Nat \subseteq P
  <2> HIDE DEF P
  <2> QED  BY <1>1, <1>2, NumberInduction
<1> QED  BY <1>3

LEMMA JoinsExist ==
  ASSUME NEW n \in Nat, NEW s
  PROVE  \E h : Joins(s, n, h) /\ DOMAIN h = 0..n
<1> DEFINE P == {k \in Nat : \E h : Joins(s, k, h) /\ DOMAIN h = 0..k}
<1>1. 0 \in P
  <2> DEFINE h == [i \in 0..0 |-> <<>>]
  <2>1. Joins(s, 0, h)
    BY DEF Joins
  <2> QED  BY <2>1
<1>2. ASSUME NEW k \in Nat, k \in P PROVE k + 1 \in P
  <2>1. PICK g : Joins(s, k, g) /\ DOMAIN g = 0..k
    BY <1>2
  <2> DEFINE h == [i \in 0..(k + 1) |-> IF i <= k THEN g[i] ELSE g[k] \o s[k + 1]]
  <2>2. h[0] = <<>>
    BY <2>1 DEF Joins
  <2>3. ASSUME NEW i \in 0..((k + 1) - 1) PROVE h[i + 1] = h[i] \o s[i + 1]
    <3>1. CASE i = k
      <4>1. h[k + 1] = g[k] \o s[k + 1] /\ h[k] = g[k]
        OBVIOUS
      <4> QED  BY <3>1, <4>1
    <3>2. CASE i # k
      <4>1. i \in 0..(k - 1) /\ h[i + 1] = g[i + 1] /\ h[i] = g[i]
        BY <3>2
      <4> QED  BY <2>1, <4>1 DEF Joins
    <3> QED  BY <3>1, <3>2
  <2>4. Joins(s, k + 1, h) /\ DOMAIN h = 0..(k + 1)
    <3> HIDE DEF h
    <3> QED  BY <2>2, <2>3 DEF Joins, h
  <2> QED  BY <2>4
<1>3. Nat \subseteq P
  <2> HIDE DEF P
  <2> QED  BY <1>1, <1>2, NumberInduction
<1> QED  BY <1>3

\* The community module's FlattenSeq is what has been joined in the end.
LEMMA FlattenJoins ==
  ASSUME NEW T, NEW s, NEW n \in Nat, Len(s) = n, \A i \in 1..n : s[i] \in Seq(T),
         n = 0 => s = <<>>, NEW h, Joins(s, n, h)
  PROVE  FlattenSeq(s) = h[n]
<1>1. CASE n = 0
  BY <1>1 DEF FlattenSeq, Joins
<1>2. CASE n # 0
  <2> DEFINE Step(f) == [i \in 1..n |-> IF i = 1 THEN s[i] ELSE f[i - 1] \o s[i]]
             chosen == CHOOSE f : f = Step(f)
             g == [i \in 1..n |-> h[i]]
             P == {k \in Nat : k + 1 <= n => chosen[k + 1] = h[k + 1]}
  <2>1. FlattenSeq(s) = chosen[n]
    BY <1>2 DEF FlattenSeq
  <2>2. h[1] = s[1]
    <3>1. 0 \in 0..(n - 1) /\ s[1] \in Seq(T)
      BY <1>2
    <3>2. h[0 + 1] = h[0] \o s[0 + 1] /\ h[0] = <<>>
      BY <3>1 DEF Joins
    <3> QED  BY <3>1, <3>2
  <2>3. ASSUME NEW k \in Nat, k + 2 <= n
        PROVE  h[k + 2] = h[k + 1] \o s[k + 2]
    <3>1. k + 1 \in 0..(n - 1) /\ (k + 1) + 1 = k + 2
      BY <2>3
    <3>2. h[(k + 1) + 1] = h[k + 1] \o s[(k + 1) + 1]
      BY <3>1 DEF Joins
    <3> QED  BY <3>1, <3>2
  <2>4. g = Step(g)
    <3>1. ASSUME NEW i \in 1..n PROVE g[i] = IF i = 1 THEN s[i] ELSE g[i - 1] \o s[i]
      <4>1. CASE i = 1
        BY <2>2, <4>1
      <4>2. CASE i # 1
        <5>1. PICK k \in Nat : i = k + 2
          <6>1. i - 2 \in Nat /\ i = (i - 2) + 2
            BY <4>2
          <6> QED  BY <6>1
        <5>2. k + 2 <= n /\ i - 1 = k + 1 /\ i - 1 \in 1..n
          BY <5>1
        <5>3. h[k + 2] = h[k + 1] \o s[k + 2]
          BY <2>3, <5>2
        <5> QED  BY <4>2, <5>1, <5>2, <5>3
      <4> QED  BY <4>1, <4>2
    <3> QED  BY <3>1
  <2>5. chosen = Step(chosen)
    <3> HIDE DEF Step, g
    <3> QED  BY <2>4
  <2> HIDE DEF chosen
  <2>6. \A i \in 1..n : chosen[i] = IF i = 1 THEN s[i] ELSE chosen[i - 1] \o s[i]
    BY <2>5
  <2>7. 0 \in P
    <3>1. 1 \in 1..n
      BY <1>2
    <3> QED  BY <2>2, <2>6, <3>1
  <2>8. ASSUME NEW k \in Nat, k \in P PROVE k + 1 \in P
    <3> SUFFICES ASSUME k + 2 <= n PROVE chosen[k + 2] = h[k + 2]
      OBVIOUS
    <3>1. chosen[k + 1] = h[k + 1]
      BY <2>8
    <3>2. k + 2 \in 1..n /\ k + 2 # 1 /\ (k + 2) - 1 = k + 1
      OBVIOUS
    <3>3. chosen[k + 2] = chosen[k + 1] \o s[k + 2]
      BY <2>6, <3>2
    <3> QED  BY <2>3, <3>1, <3>3
  <2>9. Nat \subseteq P
    <3> HIDE DEF P
    <3> QED  BY <2>7, <2>8, NumberInduction
  <2>10. n - 1 \in P /\ (n - 1) + 1 = n
    BY <1>2, <2>9
  <2>11. chosen[n] = h[n]
    BY <2>10
  <2> QED  BY <2>1, <2>11
<1> QED  BY <1>1, <1>2

\* What the proofs need of FlattenSeq.
LEMMA Flattened ==
  ASSUME NEW T, NEW s \in Seq(Seq(T))
  PROVE  /\ FlattenSeq(s) \in Seq(T)
         /\ \E h : Joins(s, Len(s), h) /\ FlattenSeq(s) = h[Len(s)]
<1> DEFINE n == Len(s)
<1>1. n \in Nat /\ (\A i \in 1..n : s[i] \in Seq(T)) /\ (n = 0 => s = <<>>)
  BY EmptySeq
<1>2. PICK h : Joins(s, n, h)
  BY <1>1, JoinsExist
<1>3. FlattenSeq(s) = h[n] /\ h[n] \in Seq(T)
  <2> HIDE DEF n
  <2>1. Len(s) = n
    BY DEF n
  <2>2. n \in 0..n
    BY <1>1
  <2>3. h[n] \in Seq(T)
    BY <1>1, <1>2, <2>2, JoinsTyped
  <2>4. FlattenSeq(s) = h[n]
    BY <1>1, <1>2, <2>1, FlattenJoins
  <2> QED  BY <2>3, <2>4
<1> QED  BY <1>2, <1>3

LEMMA FlattenType ==
  ASSUME NEW T, NEW s \in Seq(Seq(T))
  PROVE  FlattenSeq(s) \in Seq(T)
BY Flattened

LEMMA FlattenOne ==
  ASSUME NEW T, NEW x \in Seq(T)
  PROVE  FlattenSeq(<<>>) = <<>> /\ FlattenSeq(<<x>>) = x
<1>1. FlattenSeq(<<>>) = <<>>
  BY DEF FlattenSeq
<1> DEFINE h == [i \in 0..1 |-> IF i = 0 THEN <<>> ELSE x]
<1>2. h[0] = <<>> /\ h[1] = x /\ 0..(1 - 1) = {0} /\ <<x>>[0 + 1] = x
  OBVIOUS
<1>3. x = <<>> \o x
  BY ConcatEmptySeq
<1> HIDE DEF h
<1>4. Joins(<<x>>, 1, h)
  BY <1>2, <1>3 DEF Joins
<1>5. /\ 1 \in Nat /\ Len(<<x>>) = 1 /\ (\A i \in 1..1 : <<x>>[i] \in Seq(T))
      /\ 1 = 0 => <<x>> = <<>>
  OBVIOUS
<1>6. FlattenSeq(<<x>>) = h[1]
  BY <1>4, <1>5, FlattenJoins
<1> QED  BY <1>1, <1>2, <1>6

LEMMA FlattenConcat ==
  ASSUME NEW T, NEW s \in Seq(Seq(T)), NEW t \in Seq(Seq(T))
  PROVE  FlattenSeq(s \o t) = FlattenSeq(s) \o FlattenSeq(t)
<1> DEFINE m == Len(s)
           n == Len(t)
<1>1. PICK g : Joins(s, m, g) /\ FlattenSeq(s) = g[m]
  BY Flattened
<1>2. PICK h : Joins(t, n, h) /\ FlattenSeq(t) = h[n]
  BY Flattened
<1>3. /\ m \in Nat /\ n \in Nat
      /\ \A i \in 1..m : s[i] \in Seq(T)
      /\ \A i \in 1..n : t[i] \in Seq(T)
  OBVIOUS
<1>4. /\ s \o t \in Seq(Seq(T)) /\ Len(s \o t) = m + n
      /\ \A i \in 1..m : (s \o t)[i] = s[i]
      /\ \A i \in (m + 1)..(m + n) : (s \o t)[i] = t[i - m]
  BY ConcatProperties
<1> HIDE DEF m, n
<1> DEFINE k == [i \in 0..(m + n) |-> IF i <= m THEN g[i] ELSE g[m] \o h[i - m]]
<1>5. /\ \A i \in 0..m : g[i] \in Seq(T)
      /\ \A i \in 0..n : h[i] \in Seq(T)
  BY <1>1, <1>2, <1>3, JoinsTyped
<1>6. g[m] \o h[0] = g[m]
  <2>1. h[0] = <<>> /\ m \in 0..m
    BY <1>2, <1>3 DEF Joins
  <2> QED  BY <1>5, <2>1, ConcatEmptySeq
<1>7. /\ \A i \in 0..m : k[i] = g[i]
      /\ \A i \in 0..n : k[m + i] = g[m] \o h[i]
  <2>1. \A i \in 0..m : k[i] = g[i]
    BY <1>3
  <2>2. ASSUME NEW i \in 0..n PROVE k[m + i] = g[m] \o h[i]
    <3>1. CASE i = 0
      <4>1. m + i = m /\ m \in 0..(m + n) /\ m <= m
        BY <1>3, <3>1
      <4>2. k[m] = g[m]
        BY <4>1
      <4> HIDE DEF k
      <4> QED  BY <1>6, <3>1, <4>1, <4>2
    <3>2. CASE i # 0
      <4>1. m + i \in 0..(m + n) /\ ~(m + i <= m) /\ (m + i) - m = i
        BY <1>3, <3>2
      <4> QED  BY <4>1
    <3> QED  BY <3>1, <3>2
  <2> QED  BY <2>1, <2>2
<1> HIDE DEF k
<1>8. k[0] = <<>>
  <2>1. g[0] = <<>> /\ 0 \in 0..m
    BY <1>1, <1>3 DEF Joins
  <2> QED  BY <1>7, <2>1
<1>9. ASSUME NEW i \in 0..((m + n) - 1) PROVE k[i + 1] = k[i] \o (s \o t)[i + 1]
  <2>1. CASE i < m
    <3>1. i \in 0..(m - 1) /\ i \in 0..m /\ i + 1 \in 0..m /\ i + 1 \in 1..m
      BY <1>3, <2>1
    <3>2. g[i + 1] = g[i] \o s[i + 1]
      BY <1>1, <3>1 DEF Joins
    <3> QED  BY <1>4, <1>7, <3>1, <3>2
  <2>2. CASE i >= m
    <3>1. PICK j \in 0..(n - 1) : i = m + j
      <4>1. i - m \in 0..(n - 1) /\ i = m + (i - m)
        BY <1>3, <2>2
      <4> QED  BY <4>1
    <3>2. /\ j \in 0..n /\ j + 1 \in 0..n /\ j + 1 \in 1..n
          /\ i + 1 = m + (j + 1) /\ i + 1 \in (m + 1)..(m + n) /\ (i + 1) - m = j + 1
      BY <1>3, <3>1
    <3>3. h[j + 1] = h[j] \o t[j + 1]
      BY <1>2, <3>1 DEF Joins
    <3>4. k[i] = g[m] \o h[j] /\ k[i + 1] = g[m] \o h[j + 1]
      BY <1>7, <3>1, <3>2
    <3>5. g[m] \in Seq(T) /\ h[j] \in Seq(T) /\ t[j + 1] \in Seq(T)
      BY <1>3, <1>5, <3>2
    <3>6. (g[m] \o h[j]) \o t[j + 1] = g[m] \o (h[j] \o t[j + 1])
      <4>1. \A a, b, c \in Seq(T) : (a \o b) \o c = a \o (b \o c)
        BY ConcatAssociative
      <4> QED  BY ONLY <3>5, <4>1, Zenon
    <3>7. (s \o t)[i + 1] = t[j + 1]
      BY <1>4, <3>2
    <3> QED  BY <3>3, <3>4, <3>6, <3>7
  <2>3. i < m \/ i >= m
    BY <1>3
  <2> QED  BY <2>1, <2>2, <2>3, Zenon
<1> DEFINE st == s \o t
<1>10. Joins(s \o t, m + n, k)
  BY <1>8, <1>9 DEF Joins
<1>11. FlattenSeq(st) = k[m + n]
  <2>1. /\ m + n \in Nat /\ Len(st) = m + n
        /\ \A i \in 1..(m + n) : st[i] \in Seq(T)
        /\ m + n = 0 => st = <<>>
    BY <1>3, <1>4, EmptySeq
  <2>2. Joins(st, m + n, k)
    BY <1>10
  <2> HIDE DEF st
  <2> QED  BY <2>1, <2>2, FlattenJoins
<1>12. n \in 0..n
  BY <1>3
<1> QED  BY <1>1, <1>2, <1>7, <1>11, <1>12
-----------------------------------------------------------------------------
(* The recursive definitions of the expected response                      *)

PieceOf(c, piece, n) ==
  IF Raises(c, n) \/ (n \in Fields /\ Included(c, n)) THEN <<n>>
  ELSE IF Included(c, n) THEN FlattenSeq([i \in DOMAIN Sub[n] |-> piece[Sub[n][i]]])
  ELSE <<>>

LEMMA PiecesDefined ==
  ASSUME Acyclic, NEW c
  PROVE  Pieces(c) = [n \in Nodes |-> PieceOf(c, Pieces(c), n)]
<1>0. PICK d \in Nat : \E depth \in [Nodes -> 0..d] : Deepens(depth)
  BY DEF Acyclic, Deepens
<1>1. PICK depth \in [Nodes -> 0..d] : Deepens(depth)
  BY <1>0
<1> DEFINE Below(k) == {n \in Nodes : depth[n] < k}
           Filled(g, k) == g = [n \in Below(k) |-> PieceOf(c, g, n)]
           P == {k \in Nat : \E g : Filled(g, k)}
<1>2. 0 \in P
  <2> DEFINE g == [n \in {} |-> <<>>]
  <2>1. Below(0) = {}
    OBVIOUS
  <2>2. Filled(g, 0)
    BY <2>1
  <2> QED  BY <2>2
<1>3. ASSUME NEW k \in Nat, k \in P PROVE k + 1 \in P
  <2>1. PICK g : Filled(g, k)
    BY <1>3
  <2> DEFINE h == [n \in Below(k + 1) |-> PieceOf(c, g, n)]
  <2>2. ASSUME NEW n \in Below(k + 1), NEW i \in DOMAIN Sub[n]
        PROVE  h[Sub[n][i]] = g[Sub[n][i]]
    <3>1. Sub[n][i] \in Nodes /\ depth[Sub[n][i]] < depth[n]
      BY <1>1, DocumentData DEF Deepens
    <3>2. Sub[n][i] \in Below(k) /\ Sub[n][i] \in Below(k + 1)
      BY <3>1
    <3> QED  BY <2>1, <3>2
  <2>3. ASSUME NEW n \in Below(k + 1)
        PROVE  PieceOf(c, g, n) = PieceOf(c, h, n)
    <3> HIDE DEF h
    <3>1. [i \in DOMAIN Sub[n] |-> g[Sub[n][i]]] = [i \in DOMAIN Sub[n] |-> h[Sub[n][i]]]
      BY <2>2
    <3> QED  BY <3>1, Zenon DEF PieceOf
  <2>4. Filled(h, k + 1)
    BY <2>3
  <2> HIDE DEF Filled, h
  <2> QED  BY <2>4
<1>4. d + 1 \in P
  <2> HIDE DEF P
  <2> QED  BY <1>2, <1>3, NumberInduction
<1>5. Below(d + 1) = Nodes
  OBVIOUS
<1> DEFINE Defined(g) == g = [n \in Nodes |-> PieceOf(c, g, n)]
           chosen == CHOOSE g : Defined(g)
<1>6. \E g : Defined(g)
  BY <1>4, <1>5
<1>7. Pieces(c) = chosen
  BY DEF Pieces, PieceOf
<1>8. Defined(chosen)
  <2> HIDE DEF Defined
  <2> QED  BY <1>6
<1> HIDE DEF chosen
<1> QED  BY <1>7, <1>8

\* What is left of fragments are fields and nodes that raise an exception, and
\* no deeper in the document than in the fragment.
Leaves(c, depth, k) == {m \in Nodes : depth[m] < k /\ (m \in Fields \/ Raises(c, m))}

LEMMA PiecesType ==
  ASSUME Acyclic, NEW c, NEW d \in Nat, NEW depth \in [Nodes -> 0..d], Deepens(depth)
  PROVE  \A n \in Nodes : Pieces(c)[n] \in Seq(Leaves(c, depth, depth[n] + 1))
<1> DEFINE L(k) == Leaves(c, depth, k)
           P == {k \in Nat : \A n \in Nodes : depth[n] < k => Pieces(c)[n] \in Seq(L(depth[n] + 1))}
<1>1. 0 \in P
  OBVIOUS
<1>2. ASSUME NEW k \in Nat, k \in P PROVE k + 1 \in P
  <2> SUFFICES ASSUME NEW n \in Nodes, depth[n] < k + 1 PROVE Pieces(c)[n] \in Seq(L(depth[n] + 1))
    OBVIOUS
  <2>1. Pieces(c)[n] = PieceOf(c, Pieces(c), n)
    BY PiecesDefined
  <2>2. CASE Raises(c, n) \/ (n \in Fields /\ Included(c, n))
    <3>1. n \in L(depth[n] + 1)
      BY <2>2 DEF Leaves
    <3>2. Pieces(c)[n] = <<n>>
      BY <2>1, <2>2 DEF PieceOf
    <3> HIDE DEF L
    <3> QED  BY <3>1, <3>2
  <2>3. CASE ~(Raises(c, n) \/ (n \in Fields /\ Included(c, n))) /\ Included(c, n)
    <3> DEFINE parts == [i \in DOMAIN Sub[n] |-> Pieces(c)[Sub[n][i]]]
    <3>1. Pieces(c)[n] = FlattenSeq(parts)
      BY <2>1, <2>3 DEF PieceOf
    <3>2. ASSUME NEW i \in DOMAIN Sub[n]
          PROVE  parts[i] \in Seq(L(depth[n] + 1))
      <4>1. Sub[n][i] \in Nodes /\ depth[Sub[n][i]] < depth[n]
        BY DocumentData DEF Deepens
      <4>2. depth[Sub[n][i]] \in Nat /\ depth[n] \in Nat /\ depth[Sub[n][i]] < k
        BY <4>1
      <4>3. Pieces(c)[Sub[n][i]] \in Seq(L(depth[Sub[n][i]] + 1))
        BY <1>2, <4>1, <4>2
      <4>4. L(depth[Sub[n][i]] + 1) \subseteq L(depth[n] + 1)
        BY <4>1, <4>2 DEF Leaves
      <4> HIDE DEF L
      <4> QED  BY <4>3, <4>4
    <3>3. parts \in Seq(Seq(L(depth[n] + 1)))
      <4> DEFINE U == Seq(L(depth[n] + 1))
      <4>1. Sub[n] \in Seq(Nodes)
        BY DocumentData
      <4>2. DOMAIN Sub[n] = 1..Len(Sub[n]) /\ Len(Sub[n]) \in Nat
        BY <4>1
      <4>3. /\ \A i \in 1..Len(Sub[n]) : parts[i] \in U
            /\ parts = [i \in 1..Len(Sub[n]) |-> parts[i]]
        BY <3>2, <4>2
      <4> HIDE DEF U, parts
      <4>4. parts \in Seq(U)
        BY <4>2, <4>3, FillsSeq
      <4> QED  BY <4>4 DEF U
    <3> HIDE DEF parts, L
    <3> QED  BY <3>1, <3>3, FlattenType
  <2>4. CASE ~(Raises(c, n) \/ (n \in Fields /\ Included(c, n))) /\ ~Included(c, n)
    <3>1. Pieces(c)[n] = <<>>
      BY <2>1, <2>4 DEF PieceOf
    <3> QED  BY <3>1
  <2> QED  BY <2>2, <2>3, <2>4
<1>3. d + 1 \in P
  <2> HIDE DEF P
  <2> QED  BY <1>1, <1>2, NumberInduction
<1> QED  BY <1>3

-----------------------------------------------------------------------------
(* What is left of selections, and which of it counts                      *)

LEMMA FlatStep ==
  ASSUME NEW c, NEW T, NEW S, \A n \in S : Pieces(c)[n] \in Seq(T), NEW s \in Seq(S)
  PROVE  /\ Flat(c, s) \in Seq(T)
         /\ s = <<>> => Flat(c, s) = <<>>
         /\ s # <<>> => /\ Pieces(c)[Head(s)] \in Seq(T) /\ Flat(c, Tail(s)) \in Seq(T)
                        /\ Flat(c, s) = Pieces(c)[Head(s)] \o Flat(c, Tail(s))
<1> DEFINE U == Seq(T)
           pieces(t) == [i \in DOMAIN t |-> Pieces(c)[t[i]]]
<1>1. ASSUME NEW t \in Seq(S)
      PROVE  pieces(t) \in Seq(U) /\ Flat(c, t) = FlattenSeq(pieces(t)) /\ Flat(c, t) \in Seq(T)
    <2>1. DOMAIN t = 1..Len(t) /\ Len(t) \in Nat
      OBVIOUS
    <2>2. /\ pieces(t) = [i \in 1..Len(t) |-> pieces(t)[i]]
          /\ \A i \in 1..Len(t) : pieces(t)[i] \in U
      BY <2>1
    <2>3. Flat(c, t) = FlattenSeq(pieces(t))
      BY DEF Flat
    <2>4. pieces(t) \in Seq(U)
      <3> HIDE DEF U, pieces
      <3> QED  BY <2>1, <2>2, FillsSeq
    <2> HIDE DEF pieces
    <2> QED  BY <2>3, <2>4, FlattenType
<1>2. ASSUME s = <<>>
      PROVE  Flat(c, s) = <<>>
  <2>1. pieces(s) = <<>>
    BY <1>2
  <2> HIDE DEF pieces
  <2> QED  BY <1>1, <2>1, FlattenOne
<1>3. ASSUME s # <<>>
      PROVE  /\ Pieces(c)[Head(s)] \in Seq(T) /\ Flat(c, Tail(s)) \in Seq(T)
             /\ Flat(c, s) = Pieces(c)[Head(s)] \o Flat(c, Tail(s))
  <2> DEFINE x == Pieces(c)[Head(s)]
  <2>1. Head(s) \in S /\ Tail(s) \in Seq(S)
    BY <1>3
  <2>2. x \in U
    BY <2>1
  <2>3. pieces(s) = <<x>> \o pieces(Tail(s))
    <3>1. /\ Len(s) \in Nat \ {0} /\ DOMAIN s = 1..Len(s) /\ DOMAIN Tail(s) = 1..(Len(s) - 1)
          /\ Head(s) = s[1] /\ \A i \in 1..(Len(s) - 1) : Tail(s)[i] = s[i + 1]
      BY <1>3
    <3>2. /\ pieces(s) = [i \in 1..Len(s) |-> Pieces(c)[s[i]]]
          /\ pieces(Tail(s)) = [i \in 1..(Len(s) - 1) |-> Pieces(c)[s[i + 1]]]
      BY <3>1
    <3>3. x = Pieces(c)[s[1]]
      BY <3>1
    <3> HIDE DEF pieces, x
    <3>4. pieces(Tail(s)) \in Seq(U) /\ Len(pieces(Tail(s))) = Len(s) - 1
      <4>1. pieces(Tail(s)) \in Seq(U)
        BY <1>1, <2>1
      <4>2. Len(s) - 1 \in Nat
        BY <3>1
      <4> QED  BY <3>2, <4>1, <4>2
    <3>5. <<x>> \o pieces(Tail(s)) =
            [i \in 1..Len(s) |-> IF i = 1 THEN x ELSE pieces(Tail(s))[i - 1]]
      <4>1. <<x>> \in Seq(U) /\ Len(<<x>>) = 1 /\ <<x>>[1] = x
        BY <2>2 DEF x
      <4> HIDE DEF U
      <4>2. Len(s) = 1 + (Len(s) - 1)
        BY <3>1
      <4>3. /\ <<x>> \o pieces(Tail(s)) \in Seq(U)
            /\ Len(<<x>> \o pieces(Tail(s))) = Len(s)
            /\ \A i \in 1..Len(s) : (<<x>> \o pieces(Tail(s)))[i] =
                  IF i <= 1 THEN <<x>>[i] ELSE pieces(Tail(s))[i - 1]
        BY <3>4, <4>1, <4>2, ConcatProperties
      <4> DEFINE y == <<x>> \o pieces(Tail(s))
      <4>4. \A i \in 1..Len(s) : y[i] = IF i = 1 THEN x ELSE pieces(Tail(s))[i - 1]
        BY <4>1, <4>3
      <4> HIDE DEF y
      <4>5. y = [i \in 1..Len(s) |-> y[i]]
        BY <4>3 DEF y
      <4> QED  BY <4>4, <4>5 DEF y
    <3>6. ASSUME NEW i \in 1..Len(s), i # 1
          PROVE  pieces(Tail(s))[i - 1] = Pieces(c)[s[i]]
      <4>1. i - 1 \in 1..(Len(s) - 1) /\ (i - 1) + 1 = i
        BY <3>1, <3>6
      <4>2. pieces(Tail(s))[i - 1] = Pieces(c)[s[(i - 1) + 1]]
        BY <3>2, <4>1
      <4> QED  BY <4>1, <4>2
    <3> QED  BY <3>2, <3>3, <3>5, <3>6
  <2> HIDE DEF x, pieces
  <2>4. FlattenSeq(<<x>> \o pieces(Tail(s))) = FlattenSeq(<<x>>) \o FlattenSeq(pieces(Tail(s)))
    <3>1. <<x>> \in Seq(U)
      <4> HIDE DEF U
      <4> QED  BY <2>2
    <3>2. pieces(Tail(s)) \in Seq(U)
      BY <1>1, <2>1
    <3> QED  BY <3>1, <3>2, FlattenConcat
  <2>5. FlattenSeq(<<x>>) = x
    BY <2>2, FlattenOne
  <2> QED  BY <1>1, <2>1, <2>2, <2>3, <2>4, <2>5 DEF x
<1> QED  BY <1>1, <1>2, <1>3

\* The later part of a sequence does not change what counts of the part before.
LEMMA DistinctConcat ==
  ASSUME NEW T, NEW s \in Seq(T), NEW t \in Seq(T)
  PROVE  /\ Distinct(s) \in Seq(T)
         /\ \E u \in Seq(T) : Distinct(s \o t) = Distinct(s) \o u
         /\ \A n \in T : t = <<n>> =>
              Distinct(s \o t) = IF \E j \in 1..Len(s) : SameName(s[j], n) THEN Distinct(s)
                                 ELSE Append(Distinct(s), n)
<1> DEFINE U == Seq(T)
           kept(r) == [i \in DOMAIN r |-> IF \E j \in 1..(i - 1) : SameName(r[j], r[i]) THEN <<>> ELSE <<r[i]>>]
           m == Len(s)
           n == Len(t)
           st == s \o t
           more == [i \in 1..n |-> IF \E j \in 1..(m + i - 1) : SameName(st[j], t[i]) THEN <<>> ELSE <<t[i]>>]
<1>1. ASSUME NEW r \in Seq(T)
      PROVE  kept(r) \in Seq(U) /\ Distinct(r) = FlattenSeq(kept(r)) /\ Distinct(r) \in Seq(T)
  <2>1. DOMAIN r = 1..Len(r) /\ Len(r) \in Nat
    OBVIOUS
  <2>2. /\ kept(r) = [i \in 1..Len(r) |-> kept(r)[i]]
        /\ \A i \in 1..Len(r) : kept(r)[i] \in U
    BY <2>1
  <2>3. Distinct(r) = FlattenSeq(kept(r))
    BY DEF Distinct
  <2>4. kept(r) \in Seq(U)
    <3> HIDE DEF U, kept
    <3> QED  BY <2>1, <2>2, FillsSeq
  <2> HIDE DEF kept
  <2> QED  BY <2>3, <2>4, FlattenType
<1>2. m \in Nat /\ n \in Nat /\ DOMAIN s = 1..m /\ DOMAIN t = 1..n
  OBVIOUS
<1>3. /\ st \in Seq(T) /\ Len(st) = m + n /\ DOMAIN st = 1..(m + n)
      /\ \A i \in 1..m : st[i] = s[i]
      /\ \A i \in (m + 1)..(m + n) : st[i] = t[i - m]
  BY ConcatProperties
<1>4. more \in Seq(U) /\ Len(more) = n
  <2>1. more = [i \in 1..n |-> more[i]] /\ \A i \in 1..n : more[i] \in U
    BY <1>2
  <2> HIDE DEF U, more
  <2> QED  BY <1>2, <2>1, FillsSeq
<1> HIDE DEF m, n, st
<1>5. kept(st) = kept(s) \o more
  <2>1. kept(s) \in Seq(U) /\ Len(kept(s)) = m
    BY <1>1, <1>2
  <2>2. kept(st) = [i \in 1..(m + n) |-> IF \E j \in 1..(i - 1) : SameName(st[j], st[i]) THEN <<>> ELSE <<st[i]>>]
    BY <1>3
  <2>3. ASSUME NEW i \in 1..m PROVE kept(st)[i] = kept(s)[i]
    <3>1. i \in 1..(m + n) /\ \A j \in 1..(i - 1) : j \in 1..m
      BY <1>2
    <3>2. \A j \in 1..(i - 1) : st[j] = s[j]
      BY <1>3, <3>1
    <3>3. st[i] = s[i]
      BY <1>3
    <3>4. kept(s)[i] = IF \E j \in 1..(i - 1) : SameName(s[j], s[i]) THEN <<>> ELSE <<s[i]>>
      BY <1>2
    <3>5. kept(st)[i] = IF \E j \in 1..(i - 1) : SameName(st[j], st[i]) THEN <<>> ELSE <<st[i]>>
      BY <2>2, <3>1
    <3> QED  BY <3>2, <3>3, <3>4, <3>5
  <2>4. ASSUME NEW i \in (m + 1)..(m + n) PROVE kept(st)[i] = more[i - m]
    <3>1. i \in 1..(m + n) /\ i - m \in 1..n /\ m + (i - m) - 1 = i - 1
      BY <1>2
    <3>2. st[i] = t[i - m]
      BY <1>3
    <3>3. more[i - m] = IF \E j \in 1..(m + (i - m) - 1) : SameName(st[j], t[i - m]) THEN <<>> ELSE <<t[i - m]>>
      BY <3>1
    <3>4. kept(st)[i] = IF \E j \in 1..(i - 1) : SameName(st[j], st[i]) THEN <<>> ELSE <<st[i]>>
      BY <2>2, <3>1
    <3> HIDE DEF more, kept
    <3> QED  BY <3>1, <3>2, <3>3, <3>4
  <2>5. kept(st) \in Seq(U) /\ Len(kept(st)) = m + n
    <3>1. kept(st) \in Seq(U) /\ m + n \in Nat
      BY <1>1, <1>2, <1>3
    <3> HIDE DEF kept
    <3> QED  BY <2>2, <3>1
  <2> HIDE DEF kept, more, U
  <2> DEFINE k == kept(s) \o more
  <2>6. /\ k \in Seq(U) /\ Len(k) = m + n
        /\ \A i \in 1..m : k[i] = kept(s)[i]
        /\ \A i \in (m + 1)..(m + n) : k[i] = more[i - m]
    <3>1. /\ k \in Seq(U) /\ Len(k) = m + n
          /\ \A i \in 1..(m + n) : k[i] = IF i <= m THEN kept(s)[i] ELSE more[i - m]
      BY <1>4, <2>1, ConcatProperties
    <3> HIDE DEF k
    <3> QED  BY <1>2, <3>1
  <2>7. ASSUME NEW i \in 1..(m + n) PROVE kept(st)[i] = k[i]
    <3>1. i \in 1..m \/ i \in (m + 1)..(m + n)
      BY <1>2
    <3> HIDE DEF k
    <3> QED  BY <2>3, <2>4, <2>6, <3>1
  <2> HIDE DEF k
  <2>8. kept(st) = k
    BY <2>5, <2>6, <2>7, SeqEqual
  <2> QED  BY <2>8 DEF k
<1>6. FlattenSeq(kept(s) \o more) = Distinct(s) \o FlattenSeq(more)
  <2>1. Distinct(s) = FlattenSeq(kept(s)) /\ kept(s) \in Seq(U)
    BY <1>1
  <2> HIDE DEF kept, more
  <2>2. FlattenSeq(kept(s) \o more) = FlattenSeq(kept(s)) \o FlattenSeq(more)
    BY <1>4, <2>1, FlattenConcat
  <2> QED  BY <2>1, <2>2
<1>7. Distinct(st) = Distinct(s) \o FlattenSeq(more) /\ FlattenSeq(more) \in Seq(T)
  <2> HIDE DEF kept, more
  <2> QED  BY <1>1, <1>3, <1>4, <1>5, <1>6, FlattenType
<1>8. ASSUME NEW x \in T, t = <<x>>
      PROVE  Distinct(st) = IF \E j \in 1..m : SameName(s[j], x) THEN Distinct(s) ELSE Append(Distinct(s), x)
  <2>1. n = 1 /\ t[1] = x /\ 1..1 = {1} /\ m + 1 - 1 = m
    BY <1>2, <1>8 DEF n
  <2> DEFINE met == \E j \in 1..m : SameName(s[j], x)
  <2>2. (\E j \in 1..(m + 1 - 1) : SameName(st[j], t[1])) <=> met
    BY <1>3, <2>1
  <2>3. more = <<IF met THEN <<>> ELSE <<x>>>>
    <3>1. more = [i \in {1} |-> IF met THEN <<>> ELSE <<x>>]
      BY <2>1, <2>2
    <3> HIDE DEF more, met
    <3> QED  BY <3>1
  <2>4. FlattenSeq(more) = IF met THEN <<>> ELSE <<x>>
    <3>1. (IF met THEN <<>> ELSE <<x>>) \in Seq(T)
      OBVIOUS
    <3> HIDE DEF more, met
    <3> QED  BY <2>3, <3>1, FlattenOne
  <2>5. Distinct(s) \in Seq(T)
    BY <1>1
  <2> HIDE DEF more, met
  <2>6. Distinct(st) = IF met THEN Distinct(s) ELSE Distinct(s) \o <<x>>
    BY <1>7, <2>4, <2>5
  <2>7. Distinct(s) \o <<x>> = Append(Distinct(s), x)
    BY <2>5
  <2> QED  BY <2>6, <2>7 DEF met
<1> QED  BY <1>1, <1>7, <1>8 DEF st, m

LEMMA DistinctAppend ==
  ASSUME NEW T, NEW s \in Seq(T), NEW n \in T
  PROVE  /\ (\E j \in 1..Len(s) : SameName(s[j], n)) => Distinct(Append(s, n)) = Distinct(s)
         /\ (\A j \in 1..Len(s) : ~SameName(s[j], n)) => Distinct(Append(s, n)) = Append(Distinct(s), n)
<1> DEFINE t == <<n>>
<1>1. t \in Seq(T) /\ s \o t = Append(s, n)
  OBVIOUS
<1>2. t = <<n>>
  OBVIOUS
<1> HIDE DEF t
<1>3. Distinct(s \o t) = IF \E j \in 1..Len(s) : SameName(s[j], n) THEN Distinct(s) ELSE Append(Distinct(s), n)
  <2>1. \A x \in T : t = <<x>> =>
           Distinct(s \o t) = IF \E j \in 1..Len(s) : SameName(s[j], x) THEN Distinct(s) ELSE Append(Distinct(s), x)
    BY <1>1, DistinctConcat
  <2> QED  BY <1>2, <2>1, Zenon
<1> QED  BY <1>1, <1>3

LEMMA FlatEmpty ==
  ASSUME NEW c
  PROVE  Flat(c, <<>>) = <<>>
<1>1. [i \in DOMAIN <<>> |-> Pieces(c)[<<>>[i]]] = <<>>
  OBVIOUS
<1>2. FlattenSeq(<<>>) = <<>>
  BY DEF FlattenSeq
<1> QED  BY <1>1, <1>2, Zenon DEF Flat

LEMMA SelectionType ==
  ASSUME Acyclic, NEW c, NEW d \in Nat, NEW depth \in [Nodes -> 0..d], Deepens(depth), NEW n \in Nodes
  PROVE  Distinct(Flat(c, Sub[n])) \in Seq(Leaves(c, depth, depth[n]))
<1> DEFINE S == {m \in Nodes : depth[m] < depth[n]}
           T == Leaves(c, depth, depth[n])
<1>1. ASSUME NEW m \in S
      PROVE  Pieces(c)[m] \in Seq(T)
  <2>1. Pieces(c)[m] \in Seq(Leaves(c, depth, depth[m] + 1))
    BY PiecesType
  <2>2. Leaves(c, depth, depth[m] + 1) \subseteq T
    BY DEF Leaves
  <2> HIDE DEF T
  <2> QED  BY <2>1, <2>2
<1>2. Sub[n] \in Seq(S)
  <2>1. Sub[n] \in Seq(Nodes)
    BY DocumentData
  <2>2. \A i \in 1..Len(Sub[n]) : Sub[n][i] \in S
    BY <2>1 DEF Deepens
  <2> HIDE DEF S
  <2> QED  BY <2>1, <2>2
<1> HIDE DEF S, T
<1>3. Flat(c, Sub[n]) \in Seq(T)
  BY <1>1, <1>2, FlatStep
<1> QED  BY <1>3, DistinctConcat DEF T

\* The result of a field takes only those of fields that are deeper.
FieldAt(c, o, result, n, path) ==
  CASE o[n] = "null" -> Null(<<>>)
    [] o[n] \in Failures -> Null(<<path>>)
    [] o[n] = "value" /\ Sub[n] = <<>> -> Scalar
    [] OTHER -> ObjectResult(c, result, Sub[n], path)
FieldOf(c, o, result, n) == [path \in Paths |-> FieldAt(c, o, result, n, path)]

LEMMA SameObject ==
  ASSUME NEW c, NEW g, NEW h, NEW selection, NEW path, NEW T,
         Distinct(Flat(c, selection)) \in Seq(T),
         \A m \in T : ~Raises(c, m) => g[m] = h[m]
  PROVE  ObjectResult(c, g, selection, path) = ObjectResult(c, h, selection, path)
<1> DEFINE nodes == Distinct(Flat(c, selection))
           ofG(i) == g[nodes[i]][Append(path, Alias[nodes[i]])]
           ofH(i) == h[nodes[i]][Append(path, Alias[nodes[i]])]
<1>1. CASE \E i \in DOMAIN nodes : Raises(c, nodes[i])
  BY <1>1, Zenon DEF ObjectResult
<1>2. CASE ~\E i \in DOMAIN nodes : Raises(c, nodes[i])
  <2>1. \A i \in DOMAIN nodes : nodes[i] \in T
    OBVIOUS
  <2>2. \A i \in DOMAIN nodes : g[nodes[i]] = h[nodes[i]]
    BY <1>2, <2>1
  <2>3. \A i \in DOMAIN nodes : ofG(i) = ofH(i)
    BY <2>2
  <2> HIDE DEF nodes, ofG, ofH
  <2>4. /\ [i \in DOMAIN nodes |-> [alias |-> Alias[nodes[i]], kind |-> ofG(i).kind, fields |-> ofG(i).fields]]
            = [i \in DOMAIN nodes |-> [alias |-> Alias[nodes[i]], kind |-> ofH(i).kind, fields |-> ofH(i).fields]]
        /\ [i \in DOMAIN nodes |-> ofG(i).errors] = [i \in DOMAIN nodes |-> ofH(i).errors]
    BY <2>3
  <2> QED  BY <1>2, <2>4, Zenon DEF ObjectResult, nodes, ofG, ofH
<1> QED  BY <1>1, <1>2

LEMMA FieldsDefined ==
  ASSUME Acyclic, NEW c, NEW o
  PROVE  FieldResults(c, o) = [n \in Fields |-> FieldOf(c, o, FieldResults(c, o), n)]
<1>0. PICK d \in Nat : \E depth \in [Nodes -> 0..d] : Deepens(depth)
  BY DEF Acyclic, Deepens
<1>1. PICK depth \in [Nodes -> 0..d] : Deepens(depth)
  BY <1>0
<1> DEFINE Below(k) == {n \in Fields : depth[n] < k}
           Filled(g, k) == g = [n \in Below(k) |-> FieldOf(c, o, g, n)]
           P == {k \in Nat : \E g : Filled(g, k)}
<1>a. Fields \subseteq Nodes
  BY DEF Nodes
<1>2. 0 \in P
  <2> DEFINE g == [n \in {} |-> <<>>]
  <2>1. Below(0) = {}
    BY <1>a
  <2>2. Filled(g, 0)
    BY <2>1
  <2> QED  BY <2>2
<1>3. ASSUME NEW k \in Nat, k \in P PROVE k + 1 \in P
  <2>1. PICK g : Filled(g, k)
    BY <1>3
  <2> DEFINE h == [n \in Below(k + 1) |-> FieldOf(c, o, g, n)]
  <2>2. ASSUME NEW n \in Below(k + 1)
        PROVE  FieldOf(c, o, g, n) = FieldOf(c, o, h, n)
    <3> DEFINE T == Leaves(c, depth, depth[n])
    <3>1. n \in Nodes /\ depth[n] \in Nat /\ depth[n] < k + 1
      BY <1>a
    <3>2. Distinct(Flat(c, Sub[n])) \in Seq(T)
      BY <1>1, <3>1, SelectionType
    <3>3. ASSUME NEW m \in T, ~Raises(c, m)
          PROVE  g[m] = h[m]
      <4>1. m \in Fields /\ m \in Nodes /\ depth[m] \in Nat /\ depth[m] < depth[n]
        BY <3>3 DEF Leaves
      <4>2. m \in Below(k) /\ m \in Below(k + 1)
        BY <3>1, <4>1
      <4>3. h[m] = FieldOf(c, o, g, m)
        BY <4>2
      <4>4. g[m] = FieldOf(c, o, g, m)
        BY <2>1, <4>2
      <4> QED  BY <4>3, <4>4
    <3> HIDE DEF h, T
    <3>4. \A path : ObjectResult(c, g, Sub[n], path) = ObjectResult(c, h, Sub[n], path)
      BY <3>2, <3>3, SameObject
    <3>5. \A path : FieldAt(c, o, g, n, path) = FieldAt(c, o, h, n, path)
      BY <3>4 DEF FieldAt
    <3> QED  BY <3>5 DEF FieldOf
  <2>4. Filled(h, k + 1)
    BY <2>2
  <2> HIDE DEF Filled, h
  <2> QED  BY <2>4
<1>4. d + 1 \in P
  <2> HIDE DEF P
  <2> QED  BY <1>2, <1>3, NumberInduction
<1>5. Below(d + 1) = Fields
  BY <1>a
<1> DEFINE Defined(g) == g = [n \in Fields |-> FieldOf(c, o, g, n)]
           chosen == CHOOSE g : Defined(g)
<1>6. \E g : Defined(g)
  BY <1>4, <1>5
<1>7. FieldResults(c, o) = chosen
  BY DEF FieldResults, FieldOf, FieldAt, Paths, Aliases
<1>8. Defined(chosen)
  <2> HIDE DEF Defined
  <2> QED  BY <1>6
<1> HIDE DEF chosen
<1> QED  BY <1>7, <1>8

-----------------------------------------------------------------------------
(* How far a visitor got                                                   *)

\* The selection set an object is resolved for.
Selection(called, p) == IF p = <<>> THEN Root ELSE Sub[called[p].node]

\* The path is that of the result of this field: its accessor was called, or
\* there is none.
IsFor(o, called, n, q) ==
  /\ q \in DOMAIN called => called[q].node = n /\ o[n] # "unknown"
  /\ q \notin DOMAIN called => o[n] = "unknown"

\* The values that are awaited are those of the fields that count.
Chosen(c, o, called, p, values, done) ==
  /\ Distinct(done) \in Seq(Fields)
  /\ Len(Distinct(done)) = Len(values)
  /\ \A i \in 1..Len(values) :
       /\ Alias[Distinct(done)[i]] = values[i]
       /\ ~Raises(c, Distinct(done)[i])
       /\ IsFor(o, called, Distinct(done)[i], Append(p, values[i]))

\* The names that were seen are those of what is done and of excluded fields.
Names(c, level, names, done) ==
  /\ done \in Seq(Fields)
  /\ \A j \in 1..Len(done) : Alias[done[j]] \in names
  /\ \A a \in names :
       \/ \E j \in 1..Len(done) : Alias[done[j]] = a
       \/ \E m \in level \cap Fields : Alias[m] = a /\ Excluded(c, m)

\* What is left to do from each scope on.
Rests(c, nest, left) ==
  /\ left \in [1..Len(nest) -> Seq(Nodes)]
  /\ left[1] = Flat(c, nest[1].todo)
  /\ \A i \in 1..(Len(nest) - 1) : left[i + 1] = Flat(c, nest[i + 1].todo) \o left[i]

\* What is left to visit belongs to the object.
Inside(level, nest) == \A i \in 1..Len(nest) : nest[i].todo \in Seq(level)

Progress(c, o, called, p, nest, names, values) ==
  /\ Inside(Level(Selection(called, p)), nest)
  /\ \E done \in Seq(Nodes) : \E left :
       /\ Rests(c, nest, left)
       /\ Flat(c, Selection(called, p)) = done \o left[Len(nest)]
       /\ Names(c, Level(Selection(called, p)), names, done)
       /\ Chosen(c, o, called, p, values, done)

\* The visitor is at node n; done is before it.
At(c, o, called, p, v, n, done, left) ==
  /\ n \in Level(Selection(called, p)) /\ Inside(Level(Selection(called, p)), Advanced(v).nest)
  /\ Rests(c, Advanced(v).nest, left)
  /\ Pieces(c)[n] \in Seq(Nodes) /\ left[Len(v.nest)] \in Seq(Nodes)
  /\ Flat(c, Selection(called, p)) = done \o (Pieces(c)[n] \o left[Len(v.nest)])
  /\ Names(c, Level(Selection(called, p)), v.names, done)
  /\ Chosen(c, o, called, p, v.values, done)

\* The nodes of an object are closed under what is in its selection and fragments.
LEMMA LevelHolds ==
  ASSUME NEW s \in Seq(Nodes)
  PROVE  s \in Seq(Level(s))
<1>1. ASSUME NEW i \in DOMAIN s
      PROVE  s[i] \in Level(s)
  <2>1. s[i] \in Nodes
    OBVIOUS
  <2> QED  BY <2>1 DEF Level, Encloses
<1> QED  BY <1>1

LEMMA LevelBelow ==
  ASSUME NEW s, NEW n \in Level(s) \ Fields
  PROVE  Sub[n] \in Seq(Level(s))
<1>1. n \in Nodes /\ Sub[n] \in Seq(Nodes)
  BY DocumentData DEF Level
<1>2. ASSUME NEW i \in DOMAIN Sub[n]
      PROVE  Sub[n][i] \in Level(s)
  <2>1. Sub[n][i] \in Nodes
    BY <1>1
  <2>2. ASSUME NEW nodes \in SUBSET Nodes, Encloses(s, nodes)
        PROVE  Sub[n][i] \in nodes
    <3>1. n \in nodes \ Fields
      BY <2>2 DEF Level
    <3> QED  BY <2>2, <3>1 DEF Encloses
  <2> QED  BY <2>1, <2>2 DEF Level
<1> QED  BY <1>1, <1>2

LEMMA PieceCases ==
  ASSUME Acyclic, NEW c, NEW n \in Nodes
  PROVE  /\ Pieces(c)[n] \in Seq(Nodes)
         /\ Raises(c, n) \/ (n \in Fields /\ Included(c, n)) => Pieces(c)[n] = <<n>>
         /\ ~Raises(c, n) /\ n \notin Fields /\ Included(c, n) => Pieces(c)[n] = Flat(c, Sub[n])
         /\ ~Raises(c, n) /\ ~Included(c, n) => Pieces(c)[n] = <<>>
<1>1. PICK d \in Nat : \E depth \in [Nodes -> 0..d] : Deepens(depth)
  BY DEF Acyclic, Deepens
<1>2. PICK depth \in [Nodes -> 0..d] : Deepens(depth)
  BY <1>1
<1>3. Pieces(c)[n] \in Seq(Leaves(c, depth, depth[n] + 1))
  BY <1>2, PiecesType
<1>4. Leaves(c, depth, depth[n] + 1) \subseteq Nodes
  BY DEF Leaves
<1>5. Pieces(c)[n] = PieceOf(c, Pieces(c), n)
  BY PiecesDefined
<1>6. Pieces(c)[n] \in Seq(Nodes)
  BY <1>3, <1>4
<1> QED  BY <1>5, <1>6 DEF PieceOf, Flat

LEMMA FlatNodes ==
  ASSUME Acyclic, NEW c, NEW s \in Seq(Nodes)
  PROVE  /\ Flat(c, s) \in Seq(Nodes)
         /\ s = <<>> => Flat(c, s) = <<>>
         /\ s # <<>> => /\ Head(s) \in Nodes /\ Flat(c, Tail(s)) \in Seq(Nodes)
                        /\ Flat(c, s) = Pieces(c)[Head(s)] \o Flat(c, Tail(s))
<1>1. \A n \in Nodes : Pieces(c)[n] \in Seq(Nodes)
  BY PieceCases
<1>2. s # <<>> => Head(s) \in Nodes
  OBVIOUS
<1> QED  BY <1>1, <1>2, FlatStep

\* Only what is left of the innermost scope changes.
LEMMA AdvancedNest ==
  ASSUME NEW E, NEW v \in VisitorType(E), Innermost(v).todo # <<>>
  PROVE  /\ Len(Advanced(v).nest) = Len(v.nest)
         /\ \A i \in 1..(Len(v.nest) - 1) : Advanced(v).nest[i] = v.nest[i]
         /\ Advanced(v).nest[Len(v.nest)].todo = Tail(v.nest[Len(v.nest)].todo)
<1> DEFINE k == Len(v.nest)
           scope == [v.nest[k] EXCEPT !.todo = Tail(@)]
           nest == [v.nest EXCEPT ![k] = scope]
<1>1. k \in Nat \ {0} /\ v.nest \in Seq(Scopes) /\ v.nest[k] \in Scopes
  BY InnermostScope
<1>2. scope.todo = Tail(v.nest[k].todo)
  BY <1>1 DEF Scopes
<1>3. Len(Advanced(v).nest) = Len(v.nest)
  BY AdvancedVisitor
<1>4. Advanced(v).nest = nest
  BY DEF Advanced, VisitorType
<1>5. k \in DOMAIN v.nest /\ \A i \in 1..(k - 1) : i \in DOMAIN v.nest /\ i # k
  BY <1>1
<1> HIDE DEF scope
<1>6. nest[k] = scope /\ \A i \in 1..(k - 1) : nest[i] = v.nest[i]
  BY <1>5
<1> QED  BY <1>2, <1>3, <1>4, <1>6

LEMMA Decompose ==
  ASSUME Acyclic, NEW c, NEW o, NEW called, NEW p, NEW E, NEW v \in VisitorType(E),
         Innermost(v).todo # <<>>, NEW n, n = Head(Innermost(v).todo),
         Progress(c, o, called, p, v.nest, v.names, v.values)
  PROVE  \E done \in Seq(Nodes) : \E left : At(c, o, called, p, v, n, done, left)
<1> DEFINE k == Len(v.nest)
           todo == v.nest[k].todo
<1>1. k \in Nat \ {0} /\ todo \in Seq(Nodes) /\ todo # <<>> /\ n = Head(todo)
  BY InnermostScope DEF Scopes
<1>2. PICK done \in Seq(Nodes) : \E left :
        /\ Rests(c, v.nest, left)
        /\ Flat(c, Selection(called, p)) = done \o left[k]
        /\ Names(c, Level(Selection(called, p)), v.names, done)
        /\ Chosen(c, o, called, p, v.values, done)
  BY DEF Progress
<1>3. PICK old :
        /\ Rests(c, v.nest, old)
        /\ Flat(c, Selection(called, p)) = done \o old[k]
        /\ Names(c, Level(Selection(called, p)), v.names, done)
        /\ Chosen(c, o, called, p, v.values, done)
  BY <1>2
<1>4. n \in Nodes /\ Pieces(c)[n] \in Seq(Nodes) /\ Flat(c, Tail(todo)) \in Seq(Nodes)
      /\ Flat(c, todo) = Pieces(c)[n] \o Flat(c, Tail(todo))
  BY <1>1, FlatNodes, PieceCases
<1> DEFINE rest == IF k = 1 THEN Flat(c, Tail(todo)) ELSE Flat(c, Tail(todo)) \o old[k - 1]
           left == [old EXCEPT ![k] = rest]
<1>5. old \in [1..k -> Seq(Nodes)] /\ k \in 1..k /\ 1 \in 1..k
  BY <1>1, <1>3 DEF Rests
<1>6. k # 1 => k - 1 \in 1..(k - 1) /\ k - 1 \in 1..k /\ (k - 1) + 1 = k /\ old[k - 1] \in Seq(Nodes)
  <2> HIDE DEF k, rest, left
  <2>1. k # 1 => k - 1 \in 1..(k - 1) /\ k - 1 \in 1..k /\ (k - 1) + 1 = k
    BY <1>1
  <2> QED  BY <1>5, <2>1
<1>7. rest \in Seq(Nodes)
  BY <1>4, <1>6
<1>8. old[k] = Pieces(c)[n] \o rest
  <2>1. CASE k = 1
    <3>1. old[1] = Flat(c, v.nest[1].todo)
      BY <1>3 DEF Rests
    <3> QED  BY <1>4, <2>1, <3>1
  <2>2. CASE k # 1
    <3>1. old[(k - 1) + 1] = Flat(c, v.nest[(k - 1) + 1].todo) \o old[k - 1]
      BY <1>3, <1>6, <2>2 DEF Rests
    <3>2. old[k] = (Pieces(c)[n] \o Flat(c, Tail(todo))) \o old[k - 1]
      BY <1>4, <1>6, <2>2, <3>1
    <3>3. \A x, y, z \in Seq(Nodes) : (x \o y) \o z = x \o (y \o z)
      BY ConcatAssociative
    <3>4. old[k] = Pieces(c)[n] \o (Flat(c, Tail(todo)) \o old[k - 1])
      BY <1>4, <1>6, <2>2, <3>2, <3>3, Zenon
    <3> QED  BY <2>2, <3>4
  <2> QED  BY <2>1, <2>2
<1>9. /\ Len(Advanced(v).nest) = k
      /\ \A i \in 1..(k - 1) : Advanced(v).nest[i] = v.nest[i]
      /\ Advanced(v).nest[k].todo = Tail(todo)
  BY AdvancedNest
<1> DEFINE level == Level(Selection(called, p))
<1> HIDE DEF rest, k, todo, level
<1>10. /\ left \in [1..k -> Seq(Nodes)] /\ left[k] = rest
       /\ \A i \in 1..(k - 1) : left[i] = old[i]
  <2>1. \A i \in 1..(k - 1) : i \in 1..k /\ i # k
    BY <1>1
  <2> QED  BY <1>5, <1>7, <2>1
<1>11. left[1] = Flat(c, Advanced(v).nest[1].todo)
  <2>1. CASE k = 1
    BY <1>9, <1>10, <2>1 DEF rest
  <2>2. CASE k # 1
    <3>1. 1 \in 1..(k - 1)
      BY <1>1, <2>2
    <3> HIDE DEF left
    <3> QED  BY <1>3, <1>9, <1>10, <3>1 DEF Rests
  <2> QED  BY <2>1, <2>2
<1> HIDE DEF left
<1>12. ASSUME NEW i \in 1..(k - 1)
       PROVE  left[i + 1] = Flat(c, Advanced(v).nest[i + 1].todo) \o left[i]
  <2>1. CASE i + 1 = k
    <3>1. k # 1 /\ i = k - 1
      BY <1>1, <2>1
    <3>2. left[k] = Flat(c, Tail(todo)) \o old[k - 1]
      BY <1>10, <3>1 DEF rest
    <3>3. left[i] = old[k - 1]
      BY <1>10, <3>1
    <3> QED  BY <1>9, <2>1, <3>2, <3>3
  <2>2. CASE i + 1 # k
    <3>1. i + 1 \in 1..(k - 1) /\ i \in 1..(Len(v.nest) - 1)
      BY <1>1, <2>2 DEF k
    <3>2. old[i + 1] = Flat(c, v.nest[i + 1].todo) \o old[i]
      BY <1>3, <3>1 DEF Rests
    <3> QED  BY <1>9, <1>10, <3>1, <3>2
  <2> QED  BY <2>1, <2>2
<1>13. Rests(c, Advanced(v).nest, left)
  BY <1>9, <1>10, <1>11, <1>12 DEF Rests
<1>14. n \in level /\ Inside(level, Advanced(v).nest)
  <2>1. \A i \in 1..k : v.nest[i].todo \in Seq(level)
    BY DEF Progress, Inside, k, level
  <2>2. v.nest[k].todo = todo /\ k \in 1..k
    BY <1>1 DEF todo
  <2>3. todo \in Seq(level)
    BY <2>1, <2>2
  <2>4. n \in level /\ Tail(todo) \in Seq(level)
    BY <1>1, <2>3
  <2>5. \A i \in 1..k : i = k \/ i \in 1..(k - 1)
    BY <1>1
  <2> QED  BY <1>9, <2>1, <2>4, <2>5 DEF Inside
<1>15. At(c, o, called, p, v, n, done, left)
  BY <1>3, <1>4, <1>7, <1>8, <1>10, <1>13, <1>14 DEF At, k, level
<1> QED  BY <1>15

\* A node of which nothing is left.
LEMMA PassOver ==
  ASSUME Acyclic, NEW c, NEW o, NEW called, NEW p, NEW E, NEW v \in VisitorType(E),
         NEW n, NEW done \in Seq(Nodes), NEW left, At(c, o, called, p, v, n, done, left),
         Len(Advanced(v).nest) = Len(v.nest),
         Pieces(c)[n] = <<>>, NEW names, Names(c, Level(Selection(called, p)), names, done)
  PROVE  Progress(c, o, called, p, Advanced(v).nest, names, v.values)
<1>1. Pieces(c)[n] \o left[Len(v.nest)] = left[Len(v.nest)]
  BY ConcatEmptySeq DEF At
<1> QED  BY <1>1 DEF At, Progress

\* A node that counts, or that does not because of its name.
LEMMA TakeNode ==
  ASSUME Acyclic, NEW c, NEW o, NEW called, NEW p, NEW E, NEW v \in VisitorType(E),
         NEW n \in Fields, NEW done \in Seq(Nodes), NEW left, At(c, o, called, p, v, n, done, left),
         Len(Advanced(v).nest) = Len(v.nest),
         Pieces(c)[n] = <<n>>, NEW names, NEW values, NEW more,
         Names(c, Level(Selection(called, p)), names, Append(done, n)), Chosen(c, o, more, p, values, Append(done, n)),
         Selection(more, p) = Selection(called, p)
  PROVE  Progress(c, o, more, p, Advanced(v).nest, names, values)
<1> DEFINE rest == left[Len(v.nest)]
<1>1. n \in Nodes /\ rest \in Seq(Nodes) /\ <<n>> \in Seq(Nodes) /\ Append(done, n) \in Seq(Nodes)
  BY DEF At, Nodes
<1>2. done \o (<<n>> \o rest) = (done \o <<n>>) \o rest
  <2>1. \A x, y, z \in Seq(Nodes) : (x \o y) \o z = x \o (y \o z)
    BY ConcatAssociative
  <2> HIDE DEF rest
  <2> QED  BY <1>1, <2>1, Zenon
<1>3. done \o <<n>> = Append(done, n)
  BY <1>1
<1>4. Flat(c, Selection(more, p)) = Append(done, n) \o rest
  BY <1>2, <1>3 DEF At
<1>5. /\ Inside(Level(Selection(more, p)), Advanced(v).nest)
      /\ Rests(c, Advanced(v).nest, left)
      /\ Names(c, Level(Selection(more, p)), names, Append(done, n))
  BY DEF At
<1> QED  BY <1>1, <1>4, <1>5 DEF Progress

LEMMA KnownName ==
  ASSUME Acyclic, NEW c, NEW o, NEW called, NEW p, NEW E, NEW v \in VisitorType(E),
         NEW n \in Fields, NEW done \in Seq(Nodes), NEW left, At(c, o, called, p, v, n, done, left),
         Len(Advanced(v).nest) = Len(v.nest), Alias[n] \in v.names,
         \A m \in Level(Selection(called, p)) \cap Fields :
            Alias[m] = Alias[n] /\ Excluded(c, m) => Excluded(c, n)
  PROVE  Progress(c, o, called, p, Advanced(v).nest, v.names, v.values)
<1>1. n \in Nodes
  BY DEF Nodes
<1>2. CASE Pieces(c)[n] = <<>>
  BY <1>2, PassOver DEF At
<1>3. CASE Pieces(c)[n] # <<>>
  <2>1. ~(~Raises(c, n) /\ ~Included(c, n)) /\ Pieces(c)[n] = <<n>>
    BY <1>1, <1>3, PieceCases
  <2>2. PICK j \in 1..Len(done) : Alias[done[j]] = Alias[n]
    BY <2>1 DEF At, Names, Excluded
  <2>3. done \in Seq(Fields) /\ Append(done, n) \in Seq(Fields) /\ Len(Append(done, n)) = Len(done) + 1
        /\ \A i \in 1..Len(done) : Append(done, n)[i] = done[i]
        /\ Append(done, n)[Len(done) + 1] = n
    BY AppendProperties DEF At, Names
  <2>4. Names(c, Level(Selection(called, p)), v.names, Append(done, n))
    <3>1. \A i \in 1..(Len(done) + 1) : i \in 1..Len(done) \/ i = Len(done) + 1
      BY <2>3
    <3>2. \A i \in 1..Len(done) : i \in 1..(Len(done) + 1)
      BY <2>3
    <3>3. Names(c, Level(Selection(called, p)), v.names, done)
      BY DEF At
    <3> HIDE DEF At
    <3> QED  BY <2>3, <3>1, <3>2, <3>3 DEF Names
  <2>5. Distinct(Append(done, n)) = Distinct(done)
    <3>1. SameName(done[j], n)
      BY <2>2, <2>3 DEF SameName
    <3> QED  BY <2>3, <3>1, DistinctAppend
  <2>6. Chosen(c, o, called, p, v.values, Append(done, n))
    BY <2>5 DEF Chosen, At
  <2> QED  BY <2>1, <2>4, <2>6, TakeNode
<1> QED  BY <1>2, <1>3

\* A field whose accessor is called or not found.
LEMMA NewField ==
  ASSUME Acyclic, NEW c, NEW o, NEW called, NEW p \in Paths, NEW E, NEW v \in VisitorType(E),
         NEW n \in Fields, NEW done \in Seq(Nodes), NEW left, At(c, o, called, p, v, n, done, left),
         Len(Advanced(v).nest) = Len(v.nest), Alias[n] \notin v.names,
         ~Raises(c, n), Included(c, n), NEW more,
         Chosen(c, o, more, p, v.values, done), Selection(more, p) = Selection(called, p),
         IsFor(o, more, n, Append(p, Alias[n]))
  PROVE  Progress(c, o, more, p, Advanced(v).nest, v.names \cup {Alias[n]}, Append(v.values, Alias[n]))
<1>1. n \in Nodes /\ Pieces(c)[n] = <<n>>
  BY PieceCases DEF Nodes
<1>2. done \in Seq(Fields) /\ Append(done, n) \in Seq(Fields) /\ Len(Append(done, n)) = Len(done) + 1
      /\ \A i \in 1..Len(done) : Append(done, n)[i] = done[i]
      /\ Append(done, n)[Len(done) + 1] = n
  BY AppendProperties DEF At, Names
<1>3. \A i \in 1..(Len(done) + 1) : i \in 1..Len(done) \/ i = Len(done) + 1
  BY <1>2
<1>4. Len(done) + 1 \in 1..(Len(done) + 1) /\ \A i \in 1..Len(done) : i \in 1..(Len(done) + 1)
  BY <1>2
<1>5. Names(c, Level(Selection(called, p)), v.names, done)
  BY DEF At
<1>6. Names(c, Level(Selection(called, p)), v.names \cup {Alias[n]}, Append(done, n))
  <2>1. ASSUME NEW a \in v.names \cup {Alias[n]}
        PROVE  \/ \E j \in 1..(Len(done) + 1) : Alias[Append(done, n)[j]] = a
               \/ \E m \in Level(Selection(called, p)) \cap Fields : Alias[m] = a /\ Excluded(c, m)
    BY <1>2, <1>4, <1>5 DEF Names
  <2>2. ASSUME NEW j \in 1..(Len(done) + 1)
        PROVE  Alias[Append(done, n)[j]] \in v.names \cup {Alias[n]}
    BY <1>2, <1>3, <1>5 DEF Names
  <2> QED  BY <1>2, <2>1, <2>2 DEF Names
<1>7. Distinct(Append(done, n)) = Append(Distinct(done), n)
  <2>1. \A j \in 1..Len(done) : ~SameName(done[j], n)
    BY <1>5 DEF SameName, Names
  <2> QED  BY <1>2, <2>1, DistinctAppend
<1>8. Chosen(c, o, more, p, Append(v.values, Alias[n]), Append(done, n))
  <2> DEFINE d == Distinct(done)
             k == Len(d)
  <2>1. d \in Seq(Fields) /\ k = Len(v.values) /\ k \in Nat
    BY DEF Chosen
  <2>2. v.values \in Seq(Aliases) /\ Alias[n] \in Aliases
    BY DEF VisitorType, Aliases
  <2> HIDE DEF d, k
  <2>a. k = Len(d)
    BY DEF k
  <2>3. /\ Append(d, n) \in Seq(Fields) /\ Len(Append(d, n)) = k + 1
        /\ \A i \in 1..k : Append(d, n)[i] = d[i]
        /\ Append(d, n)[k + 1] = n
    BY <2>1, <2>a, AppendProperties
  <2>4. /\ Len(Append(v.values, Alias[n])) = k + 1
        /\ \A i \in 1..k : Append(v.values, Alias[n])[i] = v.values[i]
        /\ Append(v.values, Alias[n])[k + 1] = Alias[n]
    BY <2>1, <2>2, AppendProperties
  <2>5. \A i \in 1..(k + 1) : i \in 1..k \/ i = k + 1
    BY <2>1
  <2>6. \A i \in 1..k : /\ Alias[d[i]] = v.values[i] /\ ~Raises(c, d[i])
                        /\ IsFor(o, more, d[i], Append(p, v.values[i]))
    BY <2>1 DEF Chosen, d
  <2>7. ASSUME NEW i \in 1..(k + 1)
        PROVE  /\ Alias[Append(d, n)[i]] = Append(v.values, Alias[n])[i] /\ ~Raises(c, Append(d, n)[i])
               /\ IsFor(o, more, Append(d, n)[i], Append(p, Append(v.values, Alias[n])[i]))
    BY <2>3, <2>4, <2>5, <2>6
  <2>8. Distinct(Append(done, n)) = Append(d, n)
    BY <1>7 DEF d
  <2> QED  BY <2>3, <2>4, <2>7, <2>8 DEF Chosen
<1> QED  BY <1>1, <1>6, <1>8, TakeNode

\* A fragment that is entered.
LEMMA EnterNode ==
  ASSUME Acyclic, NEW c, NEW o, NEW called, NEW p, NEW E, NEW v \in VisitorType(E),
         NEW n \in Nodes, NEW done \in Seq(Nodes), NEW left, At(c, o, called, p, v, n, done, left),
         Len(Advanced(v).nest) = Len(v.nest), Advanced(v) \in VisitorType(E),
         ~Raises(c, n), n \notin Fields, Included(c, n), NEW kind \in {"spread", "inline"}
  PROVE  Progress(c, o, called, p, Append(Advanced(v).nest, Scope(kind, n, Sub[n])), v.names, v.values)
<1> DEFINE k == Len(v.nest)
           scope == Scope(kind, n, Sub[n])
           nest == Advanced(v).nest
           more == [i \in 1..(k + 1) |-> IF i <= k THEN left[i] ELSE Flat(c, Sub[n]) \o left[k]]
<1>1. Pieces(c)[n] = Flat(c, Sub[n]) /\ Flat(c, Sub[n]) \in Seq(Nodes) /\ left[k] \in Seq(Nodes)
  BY PieceCases, FlatNodes, DocumentData DEF At
<1>2. scope \in Scopes /\ scope.todo = Sub[n]
  BY DocumentData DEF Scope, Scopes
<1>3. nest \in Seq(Scopes) /\ Len(nest) = k /\ k \in Nat \ {0}
  BY InnermostScope
<1> DEFINE level == Level(Selection(called, p))
<1> HIDE DEF nest, scope, k, level
<1>4. /\ Len(Append(nest, scope)) = k + 1
      /\ \A i \in 1..k : Append(nest, scope)[i] = nest[i]
      /\ Append(nest, scope)[k + 1] = scope
  BY <1>2, <1>3, AppendProperties
<1>5. Rests(c, nest, left)
  BY DEF At, nest
<1>6. left \in [1..k -> Seq(Nodes)]
  BY <1>3, <1>5 DEF Rests
<1>7. /\ more \in [1..(k + 1) -> Seq(Nodes)]
      /\ \A i \in 1..k : more[i] = left[i]
      /\ more[k + 1] = Flat(c, Sub[n]) \o left[k]
  <2>1. \A i \in 1..(k + 1) : i <= k => i \in 1..k
    BY <1>3
  <2>2. k + 1 \in 1..(k + 1) /\ ~(k + 1 <= k) /\ \A i \in 1..k : i \in 1..(k + 1) /\ i <= k
    BY <1>3
  <2>3. Flat(c, Sub[n]) \o left[k] \in Seq(Nodes)
    BY <1>1
  <2> QED  BY <1>6, <2>1, <2>2, <2>3
<1> HIDE DEF more
<1>8. 1 \in 1..k /\ k \in 1..k
  BY <1>3
<1>9. ASSUME NEW i \in 1..k
      PROVE  more[i + 1] = Flat(c, Append(nest, scope)[i + 1].todo) \o more[i]
  <2>1. CASE i = k
    BY <1>2, <1>4, <1>7, <2>1
  <2>2. CASE i # k
    <3>1. i \in 1..(k - 1) /\ i + 1 \in 1..k
      BY <1>3, <2>2
    <3> QED  BY <1>3, <1>4, <1>5, <1>7, <3>1 DEF Rests
  <2> QED  BY <2>1, <2>2
<1>10. more[1] = Flat(c, Append(nest, scope)[1].todo)
  BY <1>4, <1>5, <1>7, <1>8 DEF Rests
<1>11. Rests(c, Append(nest, scope), more)
  <2>1. (k + 1) - 1 = k
    BY <1>3
  <2> QED  BY <1>4, <1>7, <1>9, <1>10, <2>1 DEF Rests
<1>12. Flat(c, Selection(called, p)) = done \o more[k + 1]
  BY <1>1, <1>7 DEF At, k
<1>13. Inside(level, Append(nest, scope))
  <2>1. Sub[n] \in Seq(level) /\ Inside(level, nest)
    BY LevelBelow DEF At, nest, level
  <2>2. \A i \in 1..(k + 1) : i \in 1..k \/ i = k + 1
    BY <1>3
  <2> QED  BY <1>2, <1>3, <1>4, <2>1, <2>2 DEF Inside
<1> QED  BY <1>4, <1>11, <1>12, <1>13 DEF At, Progress, nest, scope, level

\* The end of a fragment.
LEMMA LeaveNode ==
  ASSUME Acyclic, NEW c, NEW o, NEW called, NEW p, NEW E, NEW v \in VisitorType(E),
         Innermost(v).todo = <<>>, Len(v.nest) # 1,
         Progress(c, o, called, p, v.nest, v.names, v.values)
  PROVE  Progress(c, o, called, p, Left(v).nest, v.names, v.values)
<1> DEFINE k == Len(v.nest)
<1>1. k \in Nat \ {0} /\ v.nest \in Seq(Scopes) /\ v.nest[k].todo = <<>>
  BY InnermostScope
<1>2. Left(v).nest = SubSeq(v.nest, 1, k - 1)
  BY DEF Left, VisitorType
<1>3. PICK done \in Seq(Nodes) : \E old :
        /\ Rests(c, v.nest, old)
        /\ Flat(c, Selection(called, p)) = done \o old[k]
        /\ Names(c, Level(Selection(called, p)), v.names, done)
        /\ Chosen(c, o, called, p, v.values, done)
  BY DEF Progress
<1>4. PICK old :
        /\ Rests(c, v.nest, old)
        /\ Flat(c, Selection(called, p)) = done \o old[k]
        /\ Names(c, Level(Selection(called, p)), v.names, done)
        /\ Chosen(c, o, called, p, v.values, done)
  BY <1>3
<1> HIDE DEF k
<1>5. k - 1 \in Nat \ {0} /\ k - 1 \in 1..(k - 1) /\ (k - 1) + 1 = k /\ k - 1 \in 1..k
  <2>1. k # 1
    BY DEF k
  <2> QED  BY <1>1, <2>1
<1>6. Len(Left(v).nest) = k - 1 /\ \A i \in 1..(k - 1) : Left(v).nest[i] = v.nest[i]
  BY <1>1, <1>2, <1>5 DEF k
<1> DEFINE left == [i \in 1..(k - 1) |-> old[i]]
<1>7. old \in [1..k -> Seq(Nodes)]
  BY <1>4 DEF Rests, k
<1>8. left \in [1..(k - 1) -> Seq(Nodes)] /\ \A i \in 1..(k - 1) : left[i] = old[i] /\ i \in 1..k
  BY <1>1, <1>7
<1> HIDE DEF left
<1>9. Rests(c, Left(v).nest, left)
  <2>1. 1 \in 1..(k - 1) /\ \A i \in 1..((k - 1) - 1) : i \in 1..(k - 1) /\ i + 1 \in 1..(k - 1)
    BY <1>5
  <2>2. \A i \in 1..(k - 1) : old[i + 1] = Flat(c, v.nest[i + 1].todo) \o old[i]
    BY <1>4 DEF Rests, k
  <2>3. old[1] = Flat(c, v.nest[1].todo)
    BY <1>4 DEF Rests
  <2> QED  BY <1>6, <1>8, <2>1, <2>2, <2>3 DEF Rests
<1>10. old[k] = left[k - 1]
  <2>1. old[(k - 1) + 1] = Flat(c, v.nest[(k - 1) + 1].todo) \o old[k - 1]
    BY <1>4, <1>5 DEF Rests, k
  <2>2. Flat(c, <<>>) = <<>>
    BY FlatEmpty
  <2>3. old[k - 1] \in Seq(Nodes)
    BY <1>5, <1>7
  <2>4. <<>> \o old[k - 1] = old[k - 1]
    BY <2>3, ConcatEmptySeq
  <2> QED  BY <1>1, <1>5, <1>8, <2>1, <2>2, <2>4
<1>11. Inside(Level(Selection(called, p)), Left(v).nest)
  <2>1. \A i \in 1..(k - 1) : i \in 1..k
    BY <1>1
  <2> QED  BY <1>6, <2>1 DEF Progress, Inside, k
<1> QED  BY <1>4, <1>6, <1>9, <1>10, <1>11 DEF Progress

\* The end of the selection set: everything is done.
LEMMA EndNode ==
  ASSUME Acyclic, NEW c, NEW o, NEW called, NEW p, NEW E, NEW v \in VisitorType(E),
         Innermost(v).todo = <<>>, Len(v.nest) = 1,
         Progress(c, o, called, p, v.nest, v.names, v.values)
  PROVE  Chosen(c, o, called, p, v.values, Flat(c, Selection(called, p)))
<1>1. v.nest[1].todo = <<>>
  BY InnermostScope
<1>2. PICK done \in Seq(Nodes) : \E old :
        /\ Rests(c, v.nest, old)
        /\ Flat(c, Selection(called, p)) = done \o old[Len(v.nest)]
        /\ Chosen(c, o, called, p, v.values, done)
  BY DEF Progress
<1>3. PICK old :
        /\ Rests(c, v.nest, old)
        /\ Flat(c, Selection(called, p)) = done \o old[1]
        /\ Chosen(c, o, called, p, v.values, done)
  BY <1>2
<1>4. old[1] = <<>>
  BY <1>1, <1>3, FlatEmpty DEF Rests
<1>5. done \o <<>> = done
  BY ConcatEmptySeq
<1> QED  BY <1>3, <1>4, <1>5

\* A node that raises an exception counts, if it is a field with a new name.
LEMMA RaisingNode ==
  ASSUME Acyclic, NEW c, NEW o, NEW called, NEW p, NEW E, NEW v \in VisitorType(E),
         NEW n \in Nodes, NEW done \in Seq(Nodes), NEW left, At(c, o, called, p, v, n, done, left),
         Raises(c, n), n \in Fields => Alias[n] \notin v.names
  PROVE  \E i \in DOMAIN Distinct(Flat(c, Selection(called, p))) :
            Raises(c, Distinct(Flat(c, Selection(called, p)))[i])
<1> DEFINE rest == left[Len(v.nest)]
           all == Flat(c, Selection(called, p))
<1>1. rest \in Seq(Nodes) /\ <<n>> \in Seq(Nodes) /\ Append(done, n) \in Seq(Nodes) /\ done \o <<n>> = Append(done, n)
  BY DEF At
<1>2. all = done \o (<<n>> \o rest)
  BY PieceCases DEF At
<1> HIDE DEF rest, all
<1>3. all = Append(done, n) \o rest
  <2>1. \A x, y, z \in Seq(Nodes) : (x \o y) \o z = x \o (y \o z)
    BY ConcatAssociative
  <2>2. done \o (<<n>> \o rest) = (done \o <<n>>) \o rest
    BY <1>1, <2>1, Zenon
  <2> QED  BY <1>1, <1>2, <2>2
<1>4. \A j \in 1..Len(done) : ~SameName(done[j], n)
  BY DEF SameName, At, Names
<1>5. Distinct(done) \in Seq(Nodes) /\ Distinct(Append(done, n)) = Append(Distinct(done), n)
  BY <1>4, DistinctAppend, DistinctConcat
<1>6. PICK u \in Seq(Nodes) : Distinct(all) = Append(Distinct(done), n) \o u
  <2> DEFINE s == Append(done, n)
  <2>1. s \in Seq(Nodes) /\ all = s \o rest /\ Distinct(s) = Append(Distinct(done), n)
    BY <1>1, <1>3, <1>5
  <2> HIDE DEF s
  <2>2. \E u \in Seq(Nodes) : Distinct(s \o rest) = Distinct(s) \o u
    BY <1>1, <2>1, DistinctConcat
  <2> QED  BY <2>1, <2>2
<1> DEFINE d == Distinct(done)
<1>7. d \in Seq(Nodes) /\ Distinct(all) = Append(d, n) \o u
  BY <1>5, <1>6
<1> HIDE DEF d
<1>8. Append(d, n) \in Seq(Nodes) /\ Len(Append(d, n)) = Len(d) + 1 /\ Append(d, n)[Len(d) + 1] = n /\ Len(d) \in Nat
  BY <1>7, AppendProperties
<1>9. /\ Append(d, n) \o u \in Seq(Nodes)
      /\ Len(Append(d, n) \o u) = (Len(d) + 1) + Len(u)
      /\ Len(u) \in Nat
      /\ \A i \in 1..((Len(d) + 1) + Len(u)) : i <= Len(d) + 1 => (Append(d, n) \o u)[i] = Append(d, n)[i]
  BY <1>8, ConcatProperties
<1>10. Len(d) + 1 \in 1..((Len(d) + 1) + Len(u)) /\ Len(d) + 1 <= Len(d) + 1
  BY <1>8, <1>9
<1>11. Distinct(all)[Len(d) + 1] = n /\ Len(d) + 1 \in DOMAIN Distinct(all)
  BY <1>7, <1>8, <1>9, <1>10
<1> QED  BY <1>11 DEF all

-----------------------------------------------------------------------------
(* What visitors, accessors and results have to do with what is expected   *)

VisitorIs(c, o, called, p, v) ==
  /\ v.phase \in {"launched", "visiting"} => Progress(c, o, called, p, v.nest, v.names, v.values)
  /\ v.phase \in {"awaiting", "done"} => Chosen(c, o, called, p, v.values, Flat(c, Selection(called, p)))
  /\ v.phase = "threw" =>
       \E i \in DOMAIN Distinct(Flat(c, Selection(called, p))) :
          Raises(c, Distinct(Flat(c, Selection(called, p)))[i])

\* The errors of a visitor are those of the results it has got.
ErrorsAre(ready, p, v) ==
  v.errors = FlattenSeq([i \in 1..Len(v.fields) |-> ready[Append(p, v.values[i])].errors])

HavePaths(o) == \A n \in Fields : o[n] \notin {"rejects", "unknown"}

Same(o, r, s) == r.kind = s.kind /\ r.fields = s.fields /\ (HavePaths(o) => r.errors = s.errors)

Given(c, o) == \E chosen \in Cases : c = chosen.conditions /\ o = chosen.outcomes

ResultIs(c, o, called, q, r) ==
  /\ q = <<>> => Same(o, r, ObjectResult(c, FieldResults(c, o), Root, <<>>))
  /\ q # <<>> => \A n \in Fields : IsFor(o, called, n, q) => Same(o, r, FieldResults(c, o)[n][q])

\* An accessor that was called was found, and a visitor resolves its object.
CalledIs(o, started, called, q) ==
  /\ o[called[q].node] # "unknown"
  /\ q \in started <=> o[called[q].node] = "value" /\ Sub[called[q].node] # <<>>
  /\ q = Append(Prefix(q, Len(q) - 1), Alias[called[q].node])

Answers ==
  /\ Given(conditions, outcomes)
  /\ \A p \in DOMAIN visitors :
       /\ VisitorIs(conditions, outcomes, observed, p, visitors[p])
       /\ ErrorsAre(results, p, visitors[p])
  /\ \A q \in DOMAIN observed : CalledIs(outcomes, DOMAIN visitors, observed, q)
  /\ \A q \in DOMAIN results : ResultIs(conditions, outcomes, observed, q, results[q])

\* Accessors that are called later are not those of values that are awaited.
LEMMA ChosenKept ==
  ASSUME NEW c, NEW o, NEW called, NEW more, NEW p, NEW values, NEW done, Kept(called, more),
         \A i \in 1..Len(values) :
            Append(p, values[i]) \in DOMAIN more => Append(p, values[i]) \in DOMAIN called,
         Chosen(c, o, called, p, values, done)
  PROVE  Chosen(c, o, more, p, values, done)
BY DEF Chosen, Kept, IsFor

LEMMA VisitorKept ==
  ASSUME NEW c, NEW o, NEW called, NEW more, NEW p, NEW v, Kept(called, more),
         p = <<>> \/ p \in DOMAIN called,
         \A i \in 1..Len(v.values) :
            Append(p, v.values[i]) \in DOMAIN more => Append(p, v.values[i]) \in DOMAIN called,
         VisitorIs(c, o, called, p, v)
  PROVE  VisitorIs(c, o, more, p, v) /\ Selection(more, p) = Selection(called, p)
<1>1. Selection(more, p) = Selection(called, p)
  BY DEF Selection, Kept
<1>2. \A done : Chosen(c, o, called, p, v.values, done) => Chosen(c, o, more, p, v.values, done)
  BY ChosenKept
<1>3. Progress(c, o, called, p, v.nest, v.names, v.values) => Progress(c, o, more, p, v.nest, v.names, v.values)
  BY <1>1, <1>2 DEF Progress
<1> QED  BY <1>1, <1>2, <1>3 DEF VisitorIs

\* What a visitor awaits was called or has its result before anything is new.
LEMMA NoNewValue ==
  ASSUME Inv, NEW p \in DOMAIN visitors,
         \A t \in DOMAIN observed' : t \in DOMAIN observed \/ t \notin DOMAIN results
  PROVE  \A i \in 1..Len(visitors[p].values) :
            Append(p, visitors[p].values[i]) \in DOMAIN observed' => Append(p, visitors[p].values[i]) \in DOMAIN observed
<1>1. visitors[p].values \in Seq(Aliases)
  BY DEF Inv, Typed, VisitorType
<1>2. DOMAIN visitors[p].values = 1..Len(visitors[p].values)
  BY <1>1
<1> QED  BY <1>2 DEF Inv, AwaitedOnce

LEMMA ErrorsKept ==
  ASSUME Inv, NEW p \in DOMAIN visitors, NEW more, Kept(results, more), ErrorsAre(results, p, visitors[p])
  PROVE  ErrorsAre(more, p, visitors[p])
<1>1. \A i \in 1..Len(visitors[p].fields) : Append(p, visitors[p].values[i]) \in DOMAIN results
  BY DEF Inv, Assembled
<1>2. [i \in 1..Len(visitors[p].fields) |-> results[Append(p, visitors[p].values[i])].errors]
        = [i \in 1..Len(visitors[p].fields) |-> more[Append(p, visitors[p].values[i])].errors]
  BY <1>1 DEF Kept
<1> QED  BY <1>2, Zenon DEF ErrorsAre

\* The rest of a step's proof: what is not about its visitor, and its result.
LEMMA AnswersStep ==
  ASSUME Inv, Answers, UNCHANGED <<conditions, outcomes>>, NEW p \in DOMAIN visitors,
         DOMAIN visitors \subseteq DOMAIN visitors',
         \A t \in DOMAIN visitors \ {p} : visitors'[t] = visitors[t],
         Kept(observed, observed'), Kept(results, results'),
         \A t \in DOMAIN observed' : t \in DOMAIN observed \/ t \notin DOMAIN results,
         \A t \in DOMAIN visitors' \ DOMAIN visitors : t \in DOMAIN observed' \ DOMAIN observed,
         \A t \in DOMAIN visitors' : t = p \/ t \notin DOMAIN visitors =>
            /\ VisitorIs(conditions, outcomes, observed', t, visitors'[t])
            /\ ErrorsAre(results', t, visitors'[t]),
         \A t \in DOMAIN observed' \ DOMAIN observed : CalledIs(outcomes, DOMAIN visitors', observed', t),
         \A t \in DOMAIN results' \ DOMAIN results : ResultIs(conditions, outcomes, observed', t, results'[t])
  PROVE  Answers'
<1>1. conditions' = conditions /\ outcomes' = outcomes
  OBVIOUS
<1>2. ASSUME NEW t \in DOMAIN visitors'
      PROVE  /\ VisitorIs(conditions, outcomes, observed', t, visitors'[t])
             /\ ErrorsAre(results', t, visitors'[t])
  <2>1. CASE t = p \/ t \notin DOMAIN visitors
    BY <2>1
  <2>2. CASE t # p /\ t \in DOMAIN visitors
    <3>1. visitors'[t] = visitors[t]
      BY <2>2
    <3>2. t = <<>> \/ t \in DOMAIN observed
      BY <2>2 DEF Inv, Tree
    <3>3. VisitorIs(conditions, outcomes, observed', t, visitors[t])
      BY <2>2, <3>2, VisitorKept, NoNewValue DEF Answers
    <3>4. ErrorsAre(results', t, visitors[t])
      BY <2>2, ErrorsKept DEF Answers
    <3> QED  BY <3>1, <3>3, <3>4
  <2> QED  BY <2>1, <2>2
<1>3. ASSUME NEW t \in DOMAIN observed'
      PROVE  CalledIs(outcomes, DOMAIN visitors', observed', t)
  <2>1. CASE t \in DOMAIN observed
    <3>1. observed'[t] = observed[t]
      BY <2>1 DEF Kept
    <3>2. t \in DOMAIN visitors' <=> t \in DOMAIN visitors
      BY <2>1
    <3> QED  BY <2>1, <3>1, <3>2 DEF Answers, CalledIs
  <2>2. CASE t \notin DOMAIN observed
    BY <2>2
  <2> QED  BY <2>1, <2>2
<1>4. ASSUME NEW t \in DOMAIN results'
      PROVE  ResultIs(conditions, outcomes, observed', t, results'[t])
  <2>1. CASE t \in DOMAIN results
    <3>1. results'[t] = results[t]
      BY <2>1 DEF Kept
    <3>2. \A n \in Fields : IsFor(outcomes, observed', n, t) => IsFor(outcomes, observed, n, t)
      BY <2>1 DEF IsFor, Kept
    <3>3. ResultIs(conditions, outcomes, observed, t, results[t])
      BY <2>1 DEF Answers
    <3> QED  BY <3>1, <3>2, <3>3 DEF ResultIs
  <2>2. CASE t \notin DOMAIN results
    BY <2>2
  <2> QED  BY <2>1, <2>2
<1>5. Given(conditions, outcomes)
  BY DEF Answers
<1> HIDE DEF VisitorIs, ErrorsAre, CalledIs, ResultIs
<1>6. (\A t \in DOMAIN visitors : VisitorIs(conditions, outcomes, observed, t, visitors[t]) /\ ErrorsAre(results, t, visitors[t]))'
  BY <1>1, <1>2 DEF VisitorIs, ErrorsAre
<1>7. (\A t \in DOMAIN observed : CalledIs(outcomes, DOMAIN visitors, observed, t))'
  BY <1>1, <1>3 DEF CalledIs
<1>8. (\A t \in DOMAIN results : ResultIs(conditions, outcomes, observed, t, results[t]))'
  BY <1>1, <1>4 DEF ResultIs
<1> QED  BY <1>1, <1>5, <1>6, <1>7, <1>8 DEF Answers

\* A step that changes its visitor only.
LEMMA OwnStep ==
  ASSUME Inv, Answers, UNCHANGED <<conditions, outcomes, observed, results>>,
         NEW p \in DOMAIN visitors, NEW w, visitors' = [visitors EXCEPT ![p] = w],
         VisitorIs(conditions, outcomes, observed, p, w), ErrorsAre(results, p, w)
  PROVE  Answers'
<1>1. DOMAIN visitors' = DOMAIN visitors /\ visitors'[p] = w
      /\ \A t \in DOMAIN visitors \ {p} : visitors'[t] = visitors[t]
  BY DEF Inv, Typed
<1>2. observed' = observed /\ results' = results
  OBVIOUS
<1>3. Kept(observed, observed') /\ Kept(results, results')
  BY <1>2 DEF Kept
<1>4. VisitorIs(conditions, outcomes, observed', p, visitors'[p]) /\ ErrorsAre(results', p, visitors'[p])
  BY <1>1, <1>2
<1>5. /\ \A t \in DOMAIN visitors' : t = p \/ t \notin DOMAIN visitors =>
            /\ VisitorIs(conditions, outcomes, observed', t, visitors'[t])
            /\ ErrorsAre(results', t, visitors'[t])
      /\ \A t \in DOMAIN observed' \ DOMAIN observed : CalledIs(outcomes, DOMAIN visitors', observed', t)
      /\ \A t \in DOMAIN results' \ DOMAIN results : ResultIs(conditions, outcomes, observed', t, results'[t])
  BY <1>1, <1>2, <1>4
<1>6. /\ UNCHANGED <<conditions, outcomes>> /\ DOMAIN visitors \subseteq DOMAIN visitors'
      /\ \A t \in DOMAIN observed' : t \in DOMAIN observed \/ t \notin DOMAIN results
      /\ \A t \in DOMAIN visitors' \ DOMAIN visitors : t \in DOMAIN observed' \ DOMAIN observed
  BY <1>1, <1>2
<1> HIDE DEF VisitorIs, ErrorsAre, CalledIs, ResultIs
<1> QED  BY <1>1, <1>3, <1>5, <1>6, AnswersStep

-----------------------------------------------------------------------------
(* Steps of a visitor that set no result                                   *)

LEMMA AtNode ==
  ASSUME Acyclic, Inv, Answers, NEW p \in DOMAIN visitors, NEW n \in Nodes, Visits(p, n)
  PROVE  /\ visitors[p] \in VisitorType(Entries) /\ visitors[p].phase = "visiting"
         /\ Innermost(visitors[p]).todo # <<>>
         /\ Advanced(visitors[p]) \in VisitorType(Entries)
         /\ Advanced(visitors[p]) = [visitors[p] EXCEPT !.nest = Advanced(visitors[p]).nest]
         /\ Len(Advanced(visitors[p]).nest) = Len(visitors[p].nest)
         /\ \E done \in Seq(Nodes) : \E left : At(conditions, outcomes, observed, p, visitors[p], n, done, left)
<1>1. /\ visitors[p] \in VisitorType(Entries) /\ visitors[p].phase = "visiting"
      /\ Innermost(visitors[p]).todo # <<>> /\ n = Head(Innermost(visitors[p]).todo)
  BY DEF Inv, Typed, Visits
<1>2. Progress(conditions, outcomes, observed, p, visitors[p].nest, visitors[p].names, visitors[p].values)
  BY <1>1 DEF Answers, VisitorIs
<1>3. \E done \in Seq(Nodes) : \E left : At(conditions, outcomes, observed, p, visitors[p], n, done, left)
  BY <1>1, <1>2, Decompose
<1> QED  BY <1>1, <1>3, AdvancedVisitor

\* What the directives of a node decide, in the order of the code, is what they
\* say, in any order.
LEMMA DirectivesDecide ==
  ASSUME Inv, DirectivesAgree, Answers, NEW n \in Nodes
  PROVE  /\ ~Malformed(conditions[n]) => ~Raises(conditions, n)
         /\ ~Malformed(conditions[n]) /\ ShouldSkip(conditions[n]) => ~Included(conditions, n)
         /\ ~Malformed(conditions[n]) /\ ~ShouldSkip(conditions[n]) /\ n \in Fields \cup Applies => Included(conditions, n)
         /\ n \in Spreads \cup Inlines /\ n \notin Applies => ~Included(conditions, n)
         /\ n \in Spreads /\ n \notin Applies => ~Raises(conditions, n)
         /\ Malformed(conditions[n]) /\ (n \in Spreads => n \in Applies) => Raises(conditions, n)
<1>1. conditions[n] \in ConditionValues
  BY DEF Inv, Typed
<1>2. /\ conditions[n].skip \in {"none", "true", "false", "bad"}
      /\ conditions[n].include \in {"none", "true", "false", "bad"}
  BY <1>1 DEF ConditionValues
<1>3. ~(conditions[n].skip = "false" /\ conditions[n].include \in {"false", "bad"})
  BY DEF DirectivesAgree, Answers, Given
<1>4. n \in Spreads \cup Inlines => n \notin Fields
  BY DocumentData
<1> QED  BY <1>2, <1>3, <1>4 DEF Malformed, Raises, ShouldSkip, Included, Only

\* The errors of a visitor that awaits one more value are the same.
LEMMA ErrorsOfMore ==
  ASSUME Inv, NEW p \in DOMAIN visitors, NEW a \in Aliases, ErrorsAre(results, p, visitors[p]),
         NEW more, Kept(results, more), NEW w, w.fields = visitors[p].fields,
         w.errors = visitors[p].errors, w.values = Append(visitors[p].values, a)
  PROVE  ErrorsAre(more, p, w)
<1>1. Len(visitors[p].fields) <= Len(visitors[p].values)
  BY DEF Inv, Assembled
<1>2. visitors[p].values \in Seq(Aliases) /\ visitors[p].fields \in Seq(Entries)
  BY DEF Inv, Typed, VisitorType
<1>3. Len(visitors[p].values) \in Nat /\ Len(visitors[p].fields) \in Nat
  BY <1>2
<1>4. \A i \in 1..Len(visitors[p].values) : Append(visitors[p].values, a)[i] = visitors[p].values[i]
  BY <1>2, AppendProperties
<1>5. \A i \in 1..Len(visitors[p].fields) : i \in 1..Len(visitors[p].values)
  BY <1>1, <1>3
<1>6. \A i \in 1..Len(visitors[p].fields) : w.values[i] = visitors[p].values[i]
  BY <1>4, <1>5
<1>7. [i \in 1..Len(w.fields) |-> more[Append(p, w.values[i])].errors]
        = [i \in 1..Len(visitors[p].fields) |-> more[Append(p, visitors[p].values[i])].errors]
  BY <1>6
<1>8. ErrorsAre(more, p, visitors[p])
  BY ErrorsKept
<1> QED  BY <1>7, <1>8, Zenon DEF ErrorsAre

\* The visit goes on, with the same values.
LEMMA VisitGoesOn ==
  ASSUME Inv, Answers, NEW p \in DOMAIN visitors, NEW w, visitors' = [visitors EXCEPT ![p] = w],
         UNCHANGED <<document, results, observed>>,
         w.phase = "visiting", w.values = visitors[p].values, w.fields = visitors[p].fields,
         w.errors = visitors[p].errors,
         Progress(conditions, outcomes, observed, p, w.nest, w.names, w.values)
  PROVE  Answers'
<1>1. UNCHANGED <<conditions, outcomes, observed, results>>
  BY DEF document
<1>2. VisitorIs(conditions, outcomes, observed, p, w)
  BY DEF VisitorIs
<1>3. ErrorsAre(results, p, w)
  BY DEF Answers, ErrorsAre
<1> HIDE DEF VisitorIs, ErrorsAre
<1> QED  BY <1>1, <1>2, <1>3, OwnStep

LEMMA StartAnswers ==
  ASSUME Inv, Answers, NEW p \in DOMAIN visitors, Start(p)
  PROVE  Answers'
<1> DEFINE w == [visitors[p] EXCEPT !.phase = "visiting"]
<1>1. visitors[p] \in VisitorType(Entries)
  BY DEF Inv, Typed
<1>2. visitors' = [visitors EXCEPT ![p] = w] /\ visitors[p].phase = "launched"
      /\ UNCHANGED <<document, results, observed>>
  BY DEF Start
<1>3. /\ w.phase = "visiting" /\ w.values = visitors[p].values /\ w.fields = visitors[p].fields
      /\ w.errors = visitors[p].errors /\ w.nest = visitors[p].nest /\ w.names = visitors[p].names
  BY <1>1 DEF VisitorType
<1>4. Progress(conditions, outcomes, observed, p, visitors[p].nest, visitors[p].names, visitors[p].values)
  BY <1>2 DEF Answers, VisitorIs
<1> HIDE DEF w
<1> QED  BY <1>2, <1>3, <1>4, VisitGoesOn

LEMMA SelectionOf ==
  ASSUME Inv, NEW p \in DOMAIN visitors
  PROVE  Selection(observed, p) \in {Root} \cup {Sub[n] : n \in Fields}
BY DEF Inv, Typed, Tree, ObservedType, Selection

LEMMA SkipNameAnswers ==
  ASSUME Acyclic, DirectivesAgree, Inv, Answers, NEW p \in DOMAIN visitors, NEW n \in Nodes, Visits(p, n), SkipName(p, n)
  PROVE  Answers'
<1> DEFINE v == visitors[p]
           w == Advanced(visitors[p])
<1>1. /\ n \in Fields /\ Alias[n] \in v.names /\ visitors' = [visitors EXCEPT ![p] = w]
      /\ UNCHANGED <<document, results, observed>>
  BY DEF SkipName
<1>2. PICK done \in Seq(Nodes) : \E left : At(conditions, outcomes, observed, p, v, n, done, left)
  BY AtNode
<1>3. PICK left : At(conditions, outcomes, observed, p, v, n, done, left)
  BY <1>2
<1>4. \A m \in Level(Selection(observed, p)) \cap Fields : Alias[m] = Alias[n] /\ Excluded(conditions, m)
                          => Excluded(conditions, n)
  <2>1. /\ Selection(observed, p) \in {Root} \cup {Sub[m] : m \in Fields}
        /\ n \in Level(Selection(observed, p)) \cap Fields
    BY <1>1, <1>3, SelectionOf DEF At
  <2> QED  BY <2>1 DEF DirectivesAgree, Answers, Given
<1>5. v \in VisitorType(Entries) /\ Len(w.nest) = Len(v.nest) /\ w = [v EXCEPT !.nest = w.nest] /\ v.phase = "visiting"
  BY AtNode
<1>6. Progress(conditions, outcomes, observed, p, w.nest, v.names, v.values)
  BY <1>1, <1>3, <1>4, <1>5, KnownName
<1> HIDE DEF w
<1>7. /\ w.phase = "visiting" /\ w.values = v.values /\ w.fields = v.fields /\ w.errors = v.errors /\ w.names = v.names
  BY <1>5 DEF VisitorType
<1> QED  BY <1>1, <1>6, <1>7, VisitGoesOn

LEMMA SkipFieldAnswers ==
  ASSUME Acyclic, DirectivesAgree, Inv, Answers, NEW p \in DOMAIN visitors, NEW n \in Nodes, Visits(p, n), SkipField(p, n)
  PROVE  Answers'
<1> DEFINE v == visitors[p]
           a == Advanced(visitors[p])
           w == Named(visitors[p], n)
<1>1. /\ n \in Fields /\ visitors' = [visitors EXCEPT ![p] = w]
      /\ UNCHANGED <<document, results, observed>>
      /\ ~Malformed(conditions[n]) /\ ShouldSkip(conditions[n])
  BY DEF SkipField, Unseen
<1>2. PICK done \in Seq(Nodes) : \E left : At(conditions, outcomes, observed, p, v, n, done, left)
  BY AtNode
<1>3. PICK left : At(conditions, outcomes, observed, p, v, n, done, left)
  BY <1>2
<1>4. v \in VisitorType(Entries) /\ Len(a.nest) = Len(v.nest) /\ a \in VisitorType(Entries)
      /\ a = [v EXCEPT !.nest = a.nest] /\ v.phase = "visiting"
  BY AtNode
<1>5. ~Raises(conditions, n) /\ ~Included(conditions, n)
  BY <1>1, DirectivesDecide
<1>6. Pieces(conditions)[n] = <<>>
  BY <1>5, PieceCases
<1>7. Names(conditions, Level(Selection(observed, p)), v.names \cup {Alias[n]}, done)
  <2>1. n \in Level(Selection(observed, p)) /\ Names(conditions, Level(Selection(observed, p)), v.names, done)
    BY <1>3 DEF At
  <2> QED  BY <1>1, <1>5, <2>1 DEF Names, Excluded
<1>8. Progress(conditions, outcomes, observed, p, a.nest, v.names \cup {Alias[n]}, v.values)
  BY <1>3, <1>4, <1>6, <1>7, PassOver
<1>9. /\ w.phase = "visiting" /\ w.values = v.values /\ w.fields = v.fields /\ w.errors = v.errors
      /\ w.names = v.names \cup {Alias[n]} /\ w.nest = a.nest
  BY <1>4 DEF VisitorType, Named
<1> HIDE DEF w, a
<1> QED  BY <1>1, <1>8, <1>9, VisitGoesOn

LEMMA SkipFragmentAnswers ==
  ASSUME Acyclic, DirectivesAgree, Inv, Answers, NEW p \in DOMAIN visitors, NEW n \in Nodes, Visits(p, n), SkipFragment(p, n)
  PROVE  Answers'
<1> DEFINE v == visitors[p]
           w == Advanced(visitors[p])
<1>1. /\ visitors' = [visitors EXCEPT ![p] = w]
      /\ UNCHANGED <<document, results, observed>>
  BY DEF SkipFragment
<1>2. PICK done \in Seq(Nodes) : \E left : At(conditions, outcomes, observed, p, v, n, done, left)
  BY AtNode
<1>3. PICK left : At(conditions, outcomes, observed, p, v, n, done, left)
  BY <1>2
<1>4. v \in VisitorType(Entries) /\ Len(w.nest) = Len(v.nest)
      /\ w = [v EXCEPT !.nest = w.nest] /\ v.phase = "visiting"
  BY AtNode
<1>5. ~Raises(conditions, n) /\ ~Included(conditions, n)
  BY DirectivesDecide DEF SkipFragment
<1>6. Pieces(conditions)[n] = <<>>
  BY <1>5, PieceCases
<1>7. Names(conditions, Level(Selection(observed, p)), v.names, done)
  BY <1>3 DEF At
<1>8. Progress(conditions, outcomes, observed, p, w.nest, v.names, v.values)
  BY <1>3, <1>4, <1>6, <1>7, PassOver
<1> HIDE DEF w
<1>9. /\ w.phase = "visiting" /\ w.values = v.values /\ w.fields = v.fields /\ w.errors = v.errors /\ w.names = v.names
  BY <1>4 DEF VisitorType
<1> QED  BY <1>1, <1>8, <1>9, VisitGoesOn

LEMMA EnterAnswers ==
  ASSUME Acyclic, DirectivesAgree, Inv, Answers, NEW p \in DOMAIN visitors, NEW n \in Nodes, Visits(p, n),
         EnterSpread(p, n) \/ EnterInline(p, n)
  PROVE  Answers'
<1>1. PICK kind \in {"spread", "inline"} : visitors' = [visitors EXCEPT ![p] = Entered(@, kind, n)]
  BY DEF EnterSpread, EnterInline
<1> DEFINE v == visitors[p]
           a == Advanced(visitors[p])
           w == Entered(visitors[p], kind, n)
<1>2. /\ visitors' = [visitors EXCEPT ![p] = w] /\ UNCHANGED <<document, results, observed>>
      /\ ~Malformed(conditions[n]) /\ ~ShouldSkip(conditions[n]) /\ n \in Applies /\ n \in Spreads \cup Inlines
  BY <1>1 DEF EnterSpread, EnterInline
<1>3. PICK done \in Seq(Nodes) : \E left : At(conditions, outcomes, observed, p, v, n, done, left)
  BY AtNode
<1>4. PICK left : At(conditions, outcomes, observed, p, v, n, done, left)
  BY <1>3
<1>5. v \in VisitorType(Entries) /\ Len(a.nest) = Len(v.nest) /\ a \in VisitorType(Entries)
      /\ a = [v EXCEPT !.nest = a.nest] /\ v.phase = "visiting"
  BY AtNode
<1>6. ~Raises(conditions, n) /\ Included(conditions, n) /\ n \notin Fields
  BY <1>2, DirectivesDecide, DocumentData
<1>7. Progress(conditions, outcomes, observed, p, Append(a.nest, Scope(kind, n, Sub[n])), v.names, v.values)
  BY <1>4, <1>5, <1>6, EnterNode
<1>8. w.nest = Append(a.nest, Scope(kind, n, Sub[n]))
  BY EnteredVisitor
<1>9. /\ w.phase = "visiting" /\ w.values = v.values /\ w.fields = v.fields /\ w.errors = v.errors
      /\ w.names = v.names
  BY <1>5 DEF VisitorType, Entered
<1> HIDE DEF w, a
<1> QED  BY <1>2, <1>7, <1>8, <1>9, VisitGoesOn

LEMMA LeaveAnswers ==
  ASSUME Acyclic, Inv, Answers, NEW p \in DOMAIN visitors, (p \in DOMAIN changes /\ PopDefinition(p)) \/ LeaveInline(p)
  PROVE  Answers'
<1> DEFINE v == visitors[p]
           w == Left(visitors[p])
<1>1. /\ visitors' = [visitors EXCEPT ![p] = w] /\ UNCHANGED <<document, results, observed>>
      /\ v.phase = "visiting" /\ Innermost(v).todo = <<>> /\ Innermost(v).kind # "set"
  BY DEF PopDefinition, LeaveInline, AtEnd, Inv, Changing, Between
<1>2. v \in VisitorType(Entries)
  BY DEF Inv, Typed
<1>3. Len(v.nest) # 1
  BY <1>1, <1>2, InnermostScope
<1>4. Progress(conditions, outcomes, observed, p, v.nest, v.names, v.values)
  BY <1>1 DEF Answers, VisitorIs
<1>5. Progress(conditions, outcomes, observed, p, w.nest, v.names, v.values)
  BY <1>1, <1>2, <1>3, <1>4, LeaveNode
<1>6. /\ w.phase = "visiting" /\ w.values = v.values /\ w.fields = v.fields /\ w.errors = v.errors
      /\ w.names = v.names
  BY <1>1, <1>2 DEF VisitorType, Left
<1> HIDE DEF w
<1> QED  BY <1>1, <1>5, <1>6, VisitGoesOn

LEMMA AnswersSame ==
  ASSUME Answers, UNCHANGED <<conditions, outcomes, visitors, observed, results>>
  PROVE  Answers'
BY DEF Answers, VisitorIs, ErrorsAre, CalledIs, ResultIs

\* Pushes and the first of the pops leave what the visitors have got as it is.
LEMMA ChangeAnswers ==
  ASSUME Acyclic, Inv, Answers, NEW p \in DOMAIN visitors, Change(p) \/ LeaveSpread(p)
  PROVE  Answers'
<1>1. CASE p \in DOMAIN changes /\ PopDefinition(p)
  BY <1>1, LeaveAnswers
<1>2. CASE StartSpreads(p) \/ StartInlines(p) \/ PushSpread(p) \/ LeaveSpread(p)
  <2>1. UNCHANGED <<conditions, outcomes, visitors, observed, results>>
    BY <1>2 DEF StartSpreads, StartInlines, PushSpread, LeaveSpread, document
  <2> QED  BY <2>1, AnswersSame
<1> QED  BY <1>1, <1>2 DEF Change

LEMMA GetValuesAnswers ==
  ASSUME Acyclic, Inv, Answers, NEW p \in DOMAIN visitors, GetValues(p)
  PROVE  Answers'
<1> DEFINE v == visitors[p]
           w == [visitors[p] EXCEPT !.phase = "awaiting"]
<1>1. /\ visitors' = [visitors EXCEPT ![p] = w] /\ UNCHANGED <<document, results, observed>>
      /\ v.phase = "visiting" /\ Innermost(v).todo = <<>> /\ Innermost(v).kind = "set"
  BY DEF GetValues, AtEnd
<1>2. v \in VisitorType(Entries)
  BY DEF Inv, Typed
<1>3. Len(v.nest) = 1
  BY <1>1, <1>2, InnermostScope
<1>4. Progress(conditions, outcomes, observed, p, v.nest, v.names, v.values)
  BY <1>1 DEF Answers, VisitorIs
<1>5. Chosen(conditions, outcomes, observed, p, v.values, Flat(conditions, Selection(observed, p)))
  BY <1>1, <1>2, <1>3, <1>4, EndNode
<1>6. /\ w.phase = "awaiting" /\ w.values = v.values /\ w.fields = v.fields /\ w.errors = v.errors
  BY <1>1, <1>2 DEF VisitorType
<1> HIDE DEF w
<1>7. VisitorIs(conditions, outcomes, observed, p, w)
  BY <1>5, <1>6 DEF VisitorIs
<1>8. ErrorsAre(results, p, w)
  BY <1>6 DEF Answers, ErrorsAre
<1>9. UNCHANGED <<conditions, outcomes, observed, results>>
  BY <1>1 DEF document
<1> HIDE DEF VisitorIs, ErrorsAre
<1> QED  BY <1>1, <1>7, <1>8, <1>9, OwnStep

LEMMA FlattenAppend ==
  ASSUME NEW T, NEW s \in Seq(Seq(T)), NEW x \in Seq(T)
  PROVE  FlattenSeq(Append(s, x)) = FlattenSeq(s) \o x
<1> DEFINE U == Seq(T)
           t == <<x>>
<1>1. t \in Seq(U) /\ s \o t = Append(s, x)
  <2>1. x \in U /\ s \in Seq(U)
    OBVIOUS
  <2> HIDE DEF U
  <2> QED  BY <2>1
<1>2. FlattenSeq(t) = x
  BY FlattenOne
<1> HIDE DEF t
<1>3. FlattenSeq(s \o t) = FlattenSeq(s) \o FlattenSeq(t)
  BY <1>1, FlattenConcat
<1> QED  BY <1>1, <1>2, <1>3

LEMMA AwaitAnswers ==
  ASSUME Inv, Answers, NEW p \in DOMAIN visitors, Await(p)
  PROVE  Answers'
<1> DEFINE v == visitors[p]
           k == Len(v.fields)
           alias == v.values[k + 1]
           result == results[Append(p, alias)]
           field == [alias |-> alias, kind |-> result.kind, fields |-> result.fields]
           w == [visitors[p] EXCEPT !.fields = Append(@, field), !.errors = @ \o result.errors]
           before == [i \in 1..k |-> results[Append(p, v.values[i])].errors]
           after == [i \in 1..(k + 1) |-> results[Append(p, v.values[i])].errors]
<1>1. /\ v.phase = "awaiting" /\ k < Len(v.values) /\ Append(p, alias) \in DOMAIN results
      /\ visitors' = [visitors EXCEPT ![p].fields = Append(@, field), ![p].errors = @ \o result.errors]
      /\ UNCHANGED <<document, results, observed>>
  BY DEF Await
<1>2. v \in VisitorType(Entries) /\ results \in [DOMAIN results -> ResultType(Entries)]
      /\ visitors = [t \in DOMAIN visitors |-> visitors[t]]
  BY DEF Inv, Typed
<1>3. visitors' = [visitors EXCEPT ![p] = w]
  BY <1>1, <1>2
<1>4. /\ w.phase = "awaiting" /\ w.values = v.values /\ w.fields = Append(v.fields, field)
      /\ w.errors = v.errors \o result.errors
  BY <1>1, <1>2 DEF VisitorType
<1>5. k \in Nat /\ Len(Append(v.fields, field)) = k + 1
  <2>1. v.fields \in Seq(Entries)
    BY <1>2 DEF VisitorType
  <2> HIDE DEF field
  <2> QED  BY <2>1
<1>6. \A t \in DOMAIN results : results[t].errors \in Seq(Paths)
  BY <1>2 DEF ResultType
<1>7. \A i \in 1..k : Append(p, v.values[i]) \in DOMAIN results
  BY DEF Inv, Assembled
<1>8. before \in Seq(Seq(Paths)) /\ Len(before) = k
  <2> DEFINE U == Seq(Paths)
  <2>1. before = [i \in 1..k |-> before[i]] /\ \A i \in 1..k : before[i] \in U
    BY <1>6, <1>7
  <2> HIDE DEF before, U, k
  <2>2. before \in Seq(U) /\ Len(before) = k
    BY <1>5, <2>1, FillsSeq
  <2> QED  BY <2>2 DEF U
<1>9. after = Append(before, result.errors)
  <2> DEFINE U == Seq(Paths)
             x == result.errors
  <2>1. before \in Seq(U) /\ Len(before) = k /\ x \in U
    BY <1>1, <1>6, <1>8
  <2>2. /\ \A i \in 1..k : before[i] = results[Append(p, v.values[i])].errors
        /\ x = results[Append(p, v.values[k + 1])].errors
    OBVIOUS
  <2> HIDE DEF before, U, k, x
  <2>3. /\ Append(before, x) \in Seq(U) /\ Len(Append(before, x)) = k + 1
        /\ \A i \in 1..k : Append(before, x)[i] = before[i]
        /\ Append(before, x)[k + 1] = x
    BY <2>1, AppendProperties
  <2>4. \A i \in 1..(k + 1) : i = k + 1 \/ i \in 1..k
    BY <1>5
  <2> DEFINE y == Append(before, x)
  <2>6. \A i \in 1..(k + 1) : y[i] = results[Append(p, v.values[i])].errors
    BY <2>2, <2>3, <2>4
  <2>7. y \in Seq(U) /\ Len(y) = k + 1
    BY <2>3
  <2> HIDE DEF y, v
  <2>8. y = [i \in 1..(k + 1) |-> y[i]]
    BY <2>7
  <2>5. after = y
    BY <2>6, <2>8
  <2> QED  BY <2>5 DEF x, y
<1>10. v.errors = FlattenSeq(before)
  BY DEF Answers, ErrorsAre
<1>11. result.errors \in Seq(Paths)
  BY <1>1, <1>6
<1>12. FlattenSeq(after) = v.errors \o result.errors
  <2> HIDE DEF before, after, result
  <2> QED  BY <1>8, <1>9, <1>10, <1>11, FlattenAppend
<1> HIDE DEF w, field
<1>13. ErrorsAre(results, p, w)
  BY <1>4, <1>5, <1>12 DEF ErrorsAre
<1>14. VisitorIs(conditions, outcomes, observed, p, w)
  BY <1>1, <1>4 DEF VisitorIs, Answers
<1>15. UNCHANGED <<conditions, outcomes, observed, results>>
  BY <1>1 DEF document
<1> HIDE DEF VisitorIs, ErrorsAre
<1> QED  BY <1>3, <1>13, <1>14, <1>15, OwnStep

-----------------------------------------------------------------------------
(* Steps that set results                                                  *)

\* The visitor of a path ends, with the result that is expected of its object.
LEMMA EndAnswers ==
  ASSUME Acyclic, Inv, Answers, NEW p \in DOMAIN visitors, p \notin DOMAIN results,
         NEW phase \in {"done", "threw"}, visitors' = [visitors EXCEPT ![p].phase = phase],
         NEW r, results' = Set(results, p, r), UNCHANGED <<document, observed>>,
         VisitorIs(conditions, outcomes, observed, p, [visitors[p] EXCEPT !.phase = phase]),
         Same(outcomes, r, ObjectResult(conditions, FieldResults(conditions, outcomes), Selection(observed, p), p))
  PROVE  Answers'
<1> DEFINE w == [visitors[p] EXCEPT !.phase = phase]
           FR == FieldResults(conditions, outcomes)
<1>1. visitors[p] \in VisitorType(Entries) /\ visitors = [t \in DOMAIN visitors |-> visitors[t]] /\ p \in Paths
  BY DEF Inv, Typed
<1>2. /\ DOMAIN visitors' = DOMAIN visitors /\ visitors'[p] = w
      /\ \A t \in DOMAIN visitors \ {p} : visitors'[t] = visitors[t]
  BY <1>1
<1>3. w.values = visitors[p].values /\ w.fields = visitors[p].fields /\ w.errors = visitors[p].errors
  BY <1>1 DEF VisitorType
<1>4. UNCHANGED <<conditions, outcomes, observed>>
  BY DEF document
<1>5. Kept(observed, observed') /\ Kept(results, results') /\ DOMAIN results' = DOMAIN results \cup {p} /\ results'[p] = r
  BY <1>4, SetKeeps DEF Kept, Set
<1>6. VisitorIs(conditions, outcomes, observed', p, visitors'[p])
  BY <1>2, <1>4
<1>7. ErrorsAre(results', p, visitors'[p])
  <2>1. ErrorsAre(results', p, visitors[p])
    BY <1>5, ErrorsKept DEF Answers
  <2> QED  BY <1>2, <1>3, <2>1 DEF ErrorsAre
<1>8. ResultIs(conditions, outcomes, observed', p, results'[p])
  <2>1. CASE p = <<>>
    BY <1>5, <2>1 DEF ResultIs, Selection
  <2>2. CASE p # <<>>
    <3>1. p \in DOMAIN observed
      BY <2>2 DEF Inv, Tree
    <3>2. ASSUME NEW n \in Fields, IsFor(outcomes, observed, n, p)
          PROVE  Same(outcomes, r, FR[n][p])
      <4>1. observed[p].node = n
        BY <3>1, <3>2 DEF IsFor
      <4>2. outcomes[n] = "value" /\ Sub[n] # <<>>
        BY <3>1, <4>1 DEF Answers, CalledIs
      <4>3. FR[n] = FieldOf(conditions, outcomes, FR, n)
        BY FieldsDefined
      <4>4. FR[n][p] = FieldAt(conditions, outcomes, FR, n, p)
        BY <1>1, <4>3 DEF FieldOf
      <4>5. FieldAt(conditions, outcomes, FR, n, p) = ObjectResult(conditions, FR, Sub[n], p)
        BY <4>2 DEF FieldAt, Failures
      <4>6. Selection(observed, p) = Sub[n]
        BY <2>2, <4>1 DEF Selection
      <4> QED  BY <4>4, <4>5, <4>6
    <3> QED  BY <1>4, <1>5, <2>2, <3>2 DEF ResultIs
  <2> QED  BY <2>1, <2>2
<1>9. /\ \A t \in DOMAIN visitors' : t = p \/ t \notin DOMAIN visitors =>
            /\ VisitorIs(conditions, outcomes, observed', t, visitors'[t])
            /\ ErrorsAre(results', t, visitors'[t])
      /\ \A t \in DOMAIN observed' \ DOMAIN observed : CalledIs(outcomes, DOMAIN visitors', observed', t)
      /\ \A t \in DOMAIN results' \ DOMAIN results : ResultIs(conditions, outcomes, observed', t, results'[t])
  BY <1>2, <1>4, <1>5, <1>6, <1>7, <1>8
<1>10. /\ UNCHANGED <<conditions, outcomes>> /\ DOMAIN visitors \subseteq DOMAIN visitors'
       /\ \A t \in DOMAIN observed' : t \in DOMAIN observed \/ t \notin DOMAIN results
       /\ \A t \in DOMAIN visitors' \ DOMAIN visitors : t \in DOMAIN observed' \ DOMAIN observed
  BY <1>2, <1>4
<1> HIDE DEF VisitorIs, ErrorsAre, CalledIs, ResultIs
<1> QED  BY <1>2, <1>5, <1>9, <1>10, AnswersStep

LEMMA ThrowAnswers ==
  ASSUME Acyclic, DirectivesAgree, Inv, Answers, NEW p \in DOMAIN visitors, NEW n \in Nodes, Visits(p, n), Running(p),
         ThrowFromNode(p, n)
  PROVE  Answers'
<1> DEFINE v == visitors[p]
           w == [visitors[p] EXCEPT !.phase = "threw"]
           nodes == Distinct(Flat(conditions, Selection(observed, p)))
           FR == FieldResults(conditions, outcomes)
<1>1. p \notin DOMAIN results
  BY ThrowInv
<1>2. /\ visitors' = [visitors EXCEPT ![p].phase = "threw"] /\ results' = Set(results, p, Null(<<<<>>>>))
      /\ UNCHANGED <<document, observed>> /\ Malformed(conditions[n])
      /\ n \in Fields => Alias[n] \notin v.names
      /\ n \in Spreads => n \in Applies
  BY DEF ThrowFromNode, Throw, Unseen
<1>3. PICK done \in Seq(Nodes) : \E left : At(conditions, outcomes, observed, p, v, n, done, left)
  BY AtNode
<1>4. PICK left : At(conditions, outcomes, observed, p, v, n, done, left)
  BY <1>3
<1>5. v \in VisitorType(Entries) /\ Raises(conditions, n)
  BY <1>2, AtNode, DirectivesDecide
<1>6. \E i \in DOMAIN nodes : Raises(conditions, nodes[i])
  BY <1>2, <1>4, <1>5, RaisingNode
<1>7. w.phase = "threw"
  BY <1>5 DEF VisitorType
<1>8. VisitorIs(conditions, outcomes, observed, p, w)
  <2> HIDE DEF w, nodes
  <2> QED  BY <1>6, <1>7 DEF VisitorIs, nodes
<1>9. ObjectResult(conditions, FR, Selection(observed, p), p) = Null(<<<<>>>>)
  BY <1>6, Zenon DEF ObjectResult
<1>10. Same(outcomes, Null(<<<<>>>>), ObjectResult(conditions, FR, Selection(observed, p), p))
  BY <1>9 DEF Same
<1> HIDE DEF VisitorIs, Same
<1> QED  BY <1>1, <1>2, <1>8, <1>10, EndAnswers

\* The document of an object has the results of the fields that count.
LEMMA FinishAnswers ==
  ASSUME Acyclic, Inv, Answers, NEW p \in DOMAIN visitors, Running(p), Finish(p)
  PROVE  Answers'
<1> DEFINE v == visitors[p]
           w == [visitors[p] EXCEPT !.phase = "done"]
           r == [kind |-> "object", fields |-> visitors[p].fields, errors |-> visitors[p].errors]
           nodes == Distinct(Flat(conditions, Selection(observed, p)))
           FR == FieldResults(conditions, outcomes)
           of(i) == FR[nodes[i]][Append(p, Alias[nodes[i]])]
           q(i) == Append(p, v.values[i])
<1>1. /\ p \notin DOMAIN results /\ v.phase = "awaiting" /\ Len(v.fields) = Len(v.values)
      /\ visitors' = [visitors EXCEPT ![p].phase = "done"] /\ results' = Set(results, p, r)
      /\ UNCHANGED <<document, observed>>
  BY FinishInv DEF Finish
<1>2. v \in VisitorType(Entries) /\ p \in Paths
  BY DEF Inv, Typed
<1>3. v.fields \in Seq(Entries) /\ v.values \in Seq(Aliases)
  BY <1>2 DEF VisitorType
<1>4. Chosen(conditions, outcomes, observed, p, v.values, Flat(conditions, Selection(observed, p)))
  BY <1>1 DEF Answers, VisitorIs
<1> HIDE DEF r
<1>5. /\ nodes \in Seq(Fields) /\ Len(nodes) = Len(v.values)
      /\ \A i \in 1..Len(v.values) :
           Alias[nodes[i]] = v.values[i] /\ ~Raises(conditions, nodes[i]) /\ IsFor(outcomes, observed, nodes[i], q(i))
  BY <1>4 DEF Chosen
<1>6. VisitorIs(conditions, outcomes, observed, p, w)
  <2>1. w.phase = "done" /\ w.values = v.values
    BY <1>2 DEF VisitorType
  <2> HIDE DEF w
  <2> QED  BY <1>4, <2>1 DEF VisitorIs
<1> HIDE DEF nodes, FR
<1>7. DOMAIN nodes = 1..Len(v.values) /\ DOMAIN v.fields = 1..Len(v.values)
  BY <1>1, <1>3, <1>5
<1>8. ASSUME NEW i \in 1..Len(v.values)
      PROVE  /\ v.fields[i] = [alias |-> Alias[nodes[i]], kind |-> of(i).kind, fields |-> of(i).fields]
             /\ HavePaths(outcomes) => results[q(i)].errors = of(i).errors
  <2>1. q(i) \in DOMAIN results /\ v.fields[i] = Entry(v.values[i], q(i))
    BY <1>1 DEF Inv, Assembled
  <2>2. v.values[i] \in Aliases
    BY <1>3
  <2>3. q(i) # <<>>
    BY <1>2, <2>2, ChildPath
  <2>4. nodes[i] \in Fields
    BY <1>5
  <2>5. of(i) = FR[nodes[i]][q(i)]
    BY <1>5
  <2>6. Same(outcomes, results[q(i)], FR[nodes[i]][q(i)])
    BY <1>5, <2>1, <2>3, <2>4 DEF Answers, ResultIs, FR
  <2> QED  BY <1>5, <2>1, <2>5, <2>6 DEF Same, Entry
<1> DEFINE object == [kind |-> "object",
                      fields |-> [i \in DOMAIN nodes |->
                                    [alias |-> Alias[nodes[i]], kind |-> of(i).kind, fields |-> of(i).fields]],
                      errors |-> FlattenSeq([i \in DOMAIN nodes |-> of(i).errors])]
<1>9. ObjectResult(conditions, FR, Selection(observed, p), p) = object
  <2>1. ~\E i \in DOMAIN nodes : Raises(conditions, nodes[i])
    BY <1>5, <1>7
  <2> HIDE DEF FR
  <2> QED  BY <2>1, Zenon DEF ObjectResult, nodes
<1>10. v.fields = object.fields
  <2>1. v.fields = [i \in 1..Len(v.values) |-> v.fields[i]]
    BY <1>3, <1>7
  <2>2. object.fields = [i \in DOMAIN nodes |->
                                    [alias |-> Alias[nodes[i]], kind |-> of(i).kind, fields |-> of(i).fields]]
    OBVIOUS
  <2> HIDE DEF object, of, v
  <2> QED  BY <1>7, <1>8, <2>1, <2>2
<1>11. HavePaths(outcomes) => v.errors = object.errors
  <2>1. v.errors = FlattenSeq([i \in 1..Len(v.fields) |-> results[q(i)].errors])
    BY DEF Answers, ErrorsAre
  <2>2. object.errors = FlattenSeq([i \in DOMAIN nodes |-> of(i).errors])
    OBVIOUS
  <2> HIDE DEF object, of, v, q
  <2>3. ASSUME HavePaths(outcomes)
        PROVE  [i \in 1..Len(v.fields) |-> results[q(i)].errors] = [i \in DOMAIN nodes |-> of(i).errors]
    BY <1>1, <1>7, <1>8, <2>3
  <2> QED  BY <2>1, <2>2, <2>3
<1>12. Same(outcomes, r, object)
  <2>1. object.kind = "object"
    OBVIOUS
  <2>2. r.kind = "object" /\ r.fields = v.fields /\ r.errors = v.errors
    BY DEF r
  <2> HIDE DEF object, v
  <2> QED  BY <1>10, <1>11, <2>1, <2>2 DEF Same
<1>13. Same(outcomes, r, ObjectResult(conditions, FieldResults(conditions, outcomes), Selection(observed, p), p))
  BY <1>9, <1>12 DEF FR
<1> HIDE DEF VisitorIs, Same
<1> QED  BY <1>1, <1>6, <1>13, EndAnswers

\* A field that its object does not have awaits its value, which is null.
LEMMA UnknownAnswers ==
  ASSUME Acyclic, DirectivesAgree, Inv, Answers, NEW p \in DOMAIN visitors, NEW n \in Nodes, Visits(p, n), UnknownField(p, n)
  PROVE  Answers'
<1> DEFINE v == visitors[p]
           a == Advanced(visitors[p])
           w == Valued(visitors[p], n)
           q == Append(p, Alias[n])
           FR == FieldResults(conditions, outcomes)
<1>1. /\ n \in Fields /\ Alias[n] \notin v.names /\ outcomes[n] = "unknown"
      /\ visitors' = [visitors EXCEPT ![p] = w] /\ results' = Set(results, q, Null(<<p>>))
      /\ UNCHANGED <<document, observed>>
  BY DEF UnknownField, Unseen
<1>2. Alias[n] \in Aliases /\ p \in Paths
  BY <1>1 DEF Aliases, Inv, Typed
<1>3. q \in Paths /\ q # <<>>
  BY <1>2, ChildPath
<1>4. q \notin DOMAIN observed \cup DOMAIN results \cup DOMAIN visitors
  BY <1>1, <1>2, FreshPath DEF Inv
<1> HIDE DEF q
<1>5. PICK done \in Seq(Nodes) : \E left : At(conditions, outcomes, observed, p, v, n, done, left)
  BY AtNode
<1>6. PICK left : At(conditions, outcomes, observed, p, v, n, done, left)
  BY <1>5
<1>7. v \in VisitorType(Entries) /\ Len(a.nest) = Len(v.nest) /\ a \in VisitorType(Entries)
      /\ a = [v EXCEPT !.nest = a.nest] /\ v.phase = "visiting"
  BY AtNode
<1>8. ~Raises(conditions, n) /\ Included(conditions, n)
  BY <1>1 DEF DirectivesAgree, Answers, Given
<1>9. IsFor(outcomes, observed, n, q)
  BY <1>1, <1>4 DEF IsFor
<1>10. Chosen(conditions, outcomes, observed, p, v.values, done)
  BY <1>6 DEF At
<1>11. Progress(conditions, outcomes, observed, p, a.nest, v.names \cup {Alias[n]}, Append(v.values, Alias[n]))
  BY <1>1, <1>2, <1>6, <1>7, <1>8, <1>9, <1>10, NewField DEF q
<1>12. /\ w.nest = a.nest /\ w.names = v.names \cup {Alias[n]} /\ w.values = Append(v.values, Alias[n])
       /\ w.phase = "visiting" /\ w.fields = v.fields
  BY <1>1, ValuedVisitor
<1>13. w.errors = v.errors
  BY <1>7 DEF VisitorType, Valued, Named
<1> HIDE DEF w, a
<1>14. VisitorIs(conditions, outcomes, observed, p, w)
  BY <1>11, <1>12 DEF VisitorIs
<1>15. UNCHANGED <<conditions, outcomes, observed>>
  BY <1>1 DEF document
<1>16. Kept(observed, observed') /\ Kept(results, results') /\ DOMAIN results' = DOMAIN results \cup {q}
       /\ results'[q] = Null(<<p>>)
  BY <1>1, <1>4, <1>15, SetKeeps DEF Kept, Set
<1>17. ErrorsAre(results', p, w)
  BY <1>2, <1>12, <1>13, <1>16, ErrorsOfMore DEF Answers
<1>18. /\ DOMAIN visitors' = DOMAIN visitors /\ visitors'[p] = w
       /\ \A t \in DOMAIN visitors \ {p} : visitors'[t] = visitors[t]
  BY <1>1 DEF Inv, Typed
<1>19. ResultIs(conditions, outcomes, observed', q, results'[q])
  <2>1. ASSUME NEW m \in Fields, IsFor(outcomes, observed, m, q)
        PROVE  Same(outcomes, Null(<<p>>), FR[m][q])
    <3>1. outcomes[m] = "unknown"
      BY <1>4, <2>1 DEF IsFor
    <3>2. FR[m] = FieldOf(conditions, outcomes, FR, m)
      BY FieldsDefined
    <3>3. FR[m][q] = FieldAt(conditions, outcomes, FR, m, q)
      BY <1>3, <3>2 DEF FieldOf
    <3>4. FieldAt(conditions, outcomes, FR, m, q) = Null(<<q>>)
      BY <3>1 DEF FieldAt, Failures
    <3>5. ~HavePaths(outcomes)
      BY <3>1 DEF HavePaths
    <3> QED  BY <3>3, <3>4, <3>5 DEF Same, Null
  <2> QED  BY <1>3, <1>15, <1>16, <2>1 DEF ResultIs
<1>20. /\ \A t \in DOMAIN visitors' : t = p \/ t \notin DOMAIN visitors =>
             /\ VisitorIs(conditions, outcomes, observed', t, visitors'[t])
             /\ ErrorsAre(results', t, visitors'[t])
       /\ \A t \in DOMAIN observed' \ DOMAIN observed : CalledIs(outcomes, DOMAIN visitors', observed', t)
       /\ \A t \in DOMAIN results' \ DOMAIN results : ResultIs(conditions, outcomes, observed', t, results'[t])
  BY <1>14, <1>15, <1>16, <1>17, <1>18, <1>19
<1>21. /\ UNCHANGED <<conditions, outcomes>> /\ DOMAIN visitors \subseteq DOMAIN visitors'
       /\ \A t \in DOMAIN observed' : t \in DOMAIN observed \/ t \notin DOMAIN results
       /\ \A t \in DOMAIN visitors' \ DOMAIN visitors : t \in DOMAIN observed' \ DOMAIN observed
  BY <1>15, <1>18
<1> HIDE DEF VisitorIs, ErrorsAre, CalledIs, ResultIs
<1> QED  BY <1>16, <1>18, <1>20, <1>21, AnswersStep

\* What an accessor returns is what the field's result is, without an object.
LEMMA SettledIs ==
  ASSUME Acyclic, Inv, Answers, NEW p \in Paths, NEW n \in Fields, NEW q, q = Append(p, Alias[n]),
         NEW called, q \in DOMAIN called, called[q].node = n, outcomes[n] # "unknown",
         Sub[n] = <<>> \/ outcomes[n] # "value"
  PROVE  ResultIs(conditions, outcomes, called, q, Settled(p, n))
<1> DEFINE FR == FieldResults(conditions, outcomes)
<1>1. q \in Paths /\ q # <<>>
  BY ChildPath DEF Aliases
<1>2. outcomes[n] \in {"value", "null", "fails", "rejects"} 
  BY DEF Inv, Typed, OutcomeValues
<1>3. FR[n] = FieldOf(conditions, outcomes, FR, n)
  BY FieldsDefined
<1>4. FR[n][q] = FieldAt(conditions, outcomes, FR, n, q)
  BY <1>1, <1>3 DEF FieldOf
<1>5. outcomes[n] = "rejects" => ~HavePaths(outcomes)
  BY <1>2 DEF HavePaths
<1>6. Same(outcomes, Settled(p, n), FieldAt(conditions, outcomes, FR, n, q))
  BY <1>2, <1>5 DEF Settled, FieldAt, Failures, Same, Null, Scalar
<1>7. \A m \in Fields : IsFor(outcomes, called, m, q) => m = n
  BY DEF IsFor
<1> QED  BY <1>1, <1>4, <1>6, <1>7 DEF ResultIs

LEMMA ResolveAnswers ==
  ASSUME Acyclic, Inv, Answers, NEW q \in awaited, Resolve(q)
  PROVE  Answers'
<1> DEFINE n == observed[q].node
           p == SubSeq(q, 1, Len(q) - 1)
<1>1. q \in DOMAIN observed /\ q \notin DOMAIN results /\ q \notin DOMAIN visitors /\ <<>> \in DOMAIN visitors /\ q # <<>>
  BY DEF Inv, Tree
<1>2. UNCHANGED <<document, visitors, observed>> /\ results' = Set(results, q, Settled(p, n))
  BY DEF Resolve
<1>3. n \in Fields /\ q \in Paths
  BY <1>1 DEF Inv, Typed, ObservedType
<1>4. /\ outcomes[n] # "unknown" /\ q = Append(p, Alias[n])
      /\ Sub[n] = <<>> \/ outcomes[n] # "value"
  BY <1>1 DEF Answers, CalledIs, Prefix
<1>5. p \in Paths
  <2>1. Len(q) \in Nat \ {0}
    BY <1>1, <1>3, EmptySeq DEF Paths
  <2> QED  BY <1>3, <2>1 DEF Paths
<1> HIDE DEF p, n
<1>6. ResultIs(conditions, outcomes, observed, q, Settled(p, n))
  BY <1>1, <1>3, <1>4, <1>5, SettledIs DEF n
<1>7. UNCHANGED <<conditions, outcomes, observed, visitors>>
  BY <1>2 DEF document
<1>8. Kept(observed, observed') /\ Kept(results, results') /\ DOMAIN results' = DOMAIN results \cup {q}
      /\ results'[q] = Settled(p, n)
  BY <1>1, <1>2, <1>7, SetKeeps DEF Kept, Set
<1>9. <<>> \in DOMAIN visitors /\ VisitorIs(conditions, outcomes, observed, <<>>, visitors[<<>>])
      /\ ErrorsAre(results', <<>>, visitors[<<>>])
  BY <1>1, <1>8, ErrorsKept DEF Answers
<1>10. /\ \A t \in DOMAIN visitors' : t = <<>> \/ t \notin DOMAIN visitors =>
             /\ VisitorIs(conditions, outcomes, observed', t, visitors'[t])
             /\ ErrorsAre(results', t, visitors'[t])
       /\ \A t \in DOMAIN observed' \ DOMAIN observed : CalledIs(outcomes, DOMAIN visitors', observed', t)
       /\ \A t \in DOMAIN results' \ DOMAIN results : ResultIs(conditions, outcomes, observed', t, results'[t])
  BY <1>6, <1>7, <1>8, <1>9
<1>11. /\ UNCHANGED <<conditions, outcomes>> /\ DOMAIN visitors \subseteq DOMAIN visitors'
       /\ \A t \in DOMAIN visitors \ {<<>>} : visitors'[t] = visitors[t]
       /\ \A t \in DOMAIN observed' : t \in DOMAIN observed \/ t \notin DOMAIN results
       /\ \A t \in DOMAIN visitors' \ DOMAIN visitors : t \in DOMAIN observed' \ DOMAIN observed
  BY <1>7
<1> HIDE DEF VisitorIs, ErrorsAre, CalledIs, ResultIs
<1> QED  BY <1>8, <1>9, <1>10, <1>11, AnswersStep

\* A visitor that was not started has all of its selection to do.
LEMMA NewProgress ==
  ASSUME Acyclic, NEW c, NEW o, NEW called, NEW q, NEW todo \in Seq(Nodes), NEW d \in BOOLEAN,
         Selection(called, q) = todo, NEW ready
  PROVE  VisitorIs(c, o, called, q, Visitor(todo, d)) /\ ErrorsAre(ready, q, Visitor(todo, d))
<1> DEFINE v == Visitor(todo, d)
           left == [i \in 1..1 |-> Flat(c, todo)]
           done == <<>>
<1>1. /\ v.nest = <<Scope("set", NoDirectives, todo)>> /\ v.names = {} /\ v.values = <<>> /\ v.fields = <<>>
      /\ v.errors = <<>> /\ v.phase = "launched"
  BY DEF Visitor
<1>2. Len(v.nest) = 1 /\ v.nest[1].todo = todo
  BY <1>1 DEF Scope
<1>3. Flat(c, todo) \in Seq(Nodes)
  BY FlatNodes
<1>4. left \in [1..1 -> Seq(Nodes)] /\ left[1] = Flat(c, todo)
  BY <1>3
<1> HIDE DEF v, left
<1>5. Rests(c, v.nest, left)
  <2>1. \A i \in 1..(1 - 1) : FALSE
    OBVIOUS
  <2> QED  BY <1>2, <1>4, <2>1 DEF Rests
<1>6. Distinct(<<>>) = <<>>
  <2>1. [i \in DOMAIN <<>> |-> IF \E j \in 1..(i - 1) : SameName(<<>>[j], <<>>[i]) THEN <<>> ELSE <<<<>>[i]>>] = <<>>
    OBVIOUS
  <2>2. FlattenSeq(<<>>) = <<>>
    BY DEF FlattenSeq
  <2> QED  BY <2>1, <2>2, Zenon DEF Distinct
<1>7. Chosen(c, o, called, q, v.values, done)
  <2>1. Len(v.values) = 0 /\ \A i \in 1..0 : FALSE
    BY <1>1
  <2>2. Distinct(done) = <<>> /\ <<>> \in Seq(Fields) /\ Len(<<>>) = 0
    BY <1>6
  <2> HIDE DEF done
  <2>3. Distinct(done) \in Seq(Fields) /\ Len(Distinct(done)) = 0
    BY <2>2
  <2> QED  BY <2>1, <2>3 DEF Chosen
<1>8. Names(c, Level(todo), v.names, done)
  BY <1>1 DEF Names
<1>9. Flat(c, Selection(called, q)) = done \o left[1]
  BY <1>3, <1>4, ConcatEmptySeq
<1>10. done \in Seq(Nodes)
  OBVIOUS
<1> HIDE DEF done
<1>14. Inside(Level(todo), v.nest)
  BY <1>2, LevelHolds DEF Inside
<1>11. Progress(c, o, called, q, v.nest, v.names, v.values)
  BY <1>2, <1>5, <1>7, <1>8, <1>9, <1>10, <1>14 DEF Progress
<1>12. VisitorIs(c, o, called, q, v)
  BY <1>1, <1>11 DEF VisitorIs
<1>13. ErrorsAre(ready, q, v)
  <2>1. [i \in 1..Len(v.fields) |-> ready[Append(q, v.values[i])].errors] = <<>>
    BY <1>1
  <2>2. FlattenSeq(<<>>) = <<>>
    BY DEF FlattenSeq
  <2> QED  BY <1>1, <2>1, <2>2, Zenon DEF ErrorsAre
<1> QED  BY <1>12, <1>13 DEF v

\* A field whose accessor is called awaits its value, which a visitor of its
\* object, a thread or the accessor itself sets.
LEMMA CallAnswers ==
  ASSUME Acyclic, DirectivesAgree, Inv, Answers, NEW p \in DOMAIN visitors, NEW n \in Nodes, Visits(p, n), CallAccessor(p, n)
  PROVE  Answers'
<1> DEFINE v == visitors[p]
           a == Advanced(visitors[p])
           w == Valued(visitors[p], n)
           q == Append(p, Alias[n])
           d == Detached(n)
           object == Sub[n] # <<>> /\ outcomes[n] = "value"
<1>1. /\ n \in Fields /\ Alias[n] \notin v.names /\ outcomes[n] # "unknown"
      /\ ~Malformed(conditions[n]) /\ ~ShouldSkip(conditions[n])
      /\ observed' = Set(observed, q, [node |-> n, nest |-> visitors[p].nest, definitions |-> definitions,
                                       spreads |-> spreads, inlines |-> inlines])
      /\ visitors' = IF object THEN Set([visitors EXCEPT ![p] = w], q, Visitor(Sub[n], d))
                     ELSE [visitors EXCEPT ![p] = w]
      /\ results' = IF ~object /\ ~d THEN Set(results, q, Settled(p, n)) ELSE results
      /\ UNCHANGED document
  BY DEF CallAccessor, Unseen
<1>2. Alias[n] \in Aliases /\ p \in Paths /\ d \in BOOLEAN
  BY <1>1 DEF Aliases, Inv, Typed, Detached
<1>3. q \in Paths /\ q # <<>> /\ Prefix(q, Len(q) - 1) = p /\ q # p
  <2>1. /\ q \in Paths /\ q # <<>> /\ Len(q) = Len(p) + 1 /\ Len(p) \in Nat /\ Prefix(p, Len(p)) = p
        /\ \A k \in 0..Len(p) : Prefix(q, k) = Prefix(p, k)
    BY <1>2, ChildPath DEF Paths
  <2> HIDE DEF q
  <2>2. Len(q) - 1 = Len(p) /\ Len(p) \in 0..Len(p) /\ q # p
    BY <2>1
  <2> QED  BY <2>1, <2>2
<1>4. q \notin DOMAIN observed \cup DOMAIN results \cup DOMAIN visitors
  BY <1>1, <1>2, FreshPath DEF Inv
<1>5. PICK done \in Seq(Nodes) : \E left : At(conditions, outcomes, observed, p, v, n, done, left)
  BY AtNode
<1>6. PICK left : At(conditions, outcomes, observed, p, v, n, done, left)
  BY <1>5
<1>7. v \in VisitorType(Entries) /\ Len(a.nest) = Len(v.nest) /\ a \in VisitorType(Entries)
      /\ a = [v EXCEPT !.nest = a.nest] /\ v.phase = "visiting"
  BY AtNode
<1>8. ~Raises(conditions, n) /\ Included(conditions, n)
  BY <1>1, DirectivesDecide
<1>9. UNCHANGED <<conditions, outcomes>>
  BY <1>1 DEF document
<1> HIDE DEF d
<1>10. /\ Kept(observed, observed') /\ DOMAIN observed' = DOMAIN observed \cup {q} /\ observed'[q].node = n
  <2> DEFINE call == [node |-> n, nest |-> visitors[p].nest, definitions |-> definitions,
                      spreads |-> spreads, inlines |-> inlines]
  <2>1. call.node = n /\ observed' = Set(observed, q, call)
    BY <1>1
  <2> HIDE DEF call, q
  <2>2. Kept(observed, Set(observed, q, call))
    BY <1>4, SetKeeps
  <2>3. DOMAIN Set(observed, q, call) = DOMAIN observed \cup {q} /\ Set(observed, q, call)[q] = call
    BY DEF Set
  <2> QED  BY <2>1, <2>2, <2>3
<1>11. /\ Kept(results, results') /\ DOMAIN results' \subseteq DOMAIN results \cup {q}
       /\ q \in DOMAIN results' => ~object /\ results'[q] = Settled(p, n)
  <2>1. Kept(results, Set(results, q, Settled(p, n))) /\ Kept(results, results)
    BY <1>4, SetKeeps DEF Kept
  <2>2. DOMAIN Set(results, q, Settled(p, n)) = DOMAIN results \cup {q} /\ Set(results, q, Settled(p, n))[q] = Settled(p, n)
    BY DEF Set
  <2> HIDE DEF q, object
  <2> QED  BY <1>1, <1>4, <2>1, <2>2
<1>12. /\ DOMAIN visitors' = IF object THEN DOMAIN visitors \cup {q} ELSE DOMAIN visitors
       /\ visitors'[p] = w
       /\ \A t \in DOMAIN visitors \ {p} : visitors'[t] = visitors[t]
       /\ object => visitors'[q] = Visitor(Sub[n], d)
  <2>1. visitors = [t \in DOMAIN visitors |-> visitors[t]]
    BY DEF Inv, Typed
  <2> HIDE DEF w, q, object
  <2> QED  BY <1>1, <1>3, <1>4, <2>1 DEF Set
<1> HIDE DEF q, object
<1>13. IsFor(outcomes, observed', n, q)
  BY <1>1, <1>10 DEF IsFor
<1>14. \A t \in DOMAIN observed' : t \in DOMAIN observed \/ t \notin DOMAIN results
  BY <1>4, <1>10
<1>15. Chosen(conditions, outcomes, observed', p, v.values, done)
  <2>1. Chosen(conditions, outcomes, observed, p, v.values, done)
    BY <1>6 DEF At
  <2> QED  BY <1>10, <1>14, <2>1, NoNewValue, ChosenKept
<1>16. Selection(observed', p) = Selection(observed, p)
  <2>1. p = <<>> \/ p \in DOMAIN observed
    BY DEF Inv, Tree
  <2> QED  BY <1>10, <2>1 DEF Selection, Kept
<1>17. Progress(conditions, outcomes, observed', p, a.nest, v.names \cup {Alias[n]}, Append(v.values, Alias[n]))
  <2> DEFINE more == observed'
  <2>1. /\ Chosen(conditions, outcomes, more, p, v.values, done) /\ Selection(more, p) = Selection(observed, p)
        /\ IsFor(outcomes, more, n, Append(p, Alias[n]))
    BY <1>13, <1>15, <1>16 DEF q
  <2> HIDE DEF more
  <2>2. Progress(conditions, outcomes, more, p, a.nest, v.names \cup {Alias[n]}, Append(v.values, Alias[n]))
    BY <1>1, <1>2, <1>6, <1>7, <1>8, <2>1, NewField
  <2> QED  BY <2>2 DEF more
<1>18. /\ w.nest = a.nest /\ w.names = v.names \cup {Alias[n]} /\ w.values = Append(v.values, Alias[n])
       /\ w.phase = "visiting" /\ w.fields = v.fields
  BY <1>1, ValuedVisitor
<1>19. w.errors = v.errors
  BY <1>7 DEF VisitorType, Valued, Named
<1> HIDE DEF w, a
<1>20. VisitorIs(conditions, outcomes, observed', p, w)
  BY <1>17, <1>18 DEF VisitorIs
<1>21. ErrorsAre(results', p, w)
  BY <1>2, <1>11, <1>18, <1>19, ErrorsOfMore DEF Answers
<1>22. ASSUME object
       PROVE  VisitorIs(conditions, outcomes, observed', q, visitors'[q]) /\ ErrorsAre(results', q, visitors'[q])
  <2>1. Sub[n] \in Seq(Nodes)
    BY DocumentData
  <2>2. Selection(observed', q) = Sub[n]
    BY <1>3, <1>10 DEF Selection
  <2> QED  BY <1>2, <1>12, <1>22, <2>1, <2>2, NewProgress
<1>23. CalledIs(outcomes, DOMAIN visitors', observed', q)
  <2>1. q \in DOMAIN visitors' <=> object
    BY <1>4, <1>12
  <2>2. q = Append(Prefix(q, Len(q) - 1), Alias[n])
    BY <1>3 DEF q
  <2> QED  BY <1>1, <1>10, <2>1, <2>2 DEF CalledIs, object
<1>24. ASSUME q \in DOMAIN results'
       PROVE  ResultIs(conditions, outcomes, observed', q, results'[q])
  <2>1. Sub[n] = <<>> \/ outcomes[n] # "value"
    BY <1>11, <1>24 DEF object
  <2>2. q \in DOMAIN observed' /\ observed'[q].node = n /\ q = Append(p, Alias[n])
    BY <1>10 DEF q
  <2>3. ResultIs(conditions, outcomes, observed', q, Settled(p, n))
    BY <1>1, <1>2, <2>1, <2>2, SettledIs
  <2> QED  BY <1>11, <1>24, <2>3
<1>25. /\ \A t \in DOMAIN visitors' : t = p \/ t \notin DOMAIN visitors =>
             /\ VisitorIs(conditions, outcomes, observed', t, visitors'[t])
             /\ ErrorsAre(results', t, visitors'[t])
       /\ \A t \in DOMAIN observed' \ DOMAIN observed : CalledIs(outcomes, DOMAIN visitors', observed', t)
       /\ \A t \in DOMAIN results' \ DOMAIN results : ResultIs(conditions, outcomes, observed', t, results'[t])
  BY <1>10, <1>11, <1>12, <1>20, <1>21, <1>22, <1>23, <1>24
<1>26. /\ DOMAIN visitors \subseteq DOMAIN visitors'
       /\ \A t \in DOMAIN visitors' \ DOMAIN visitors : t \in DOMAIN observed' \ DOMAIN observed
  BY <1>4, <1>10, <1>12
<1> HIDE DEF VisitorIs, ErrorsAre, CalledIs, ResultIs
<1> QED  BY <1>9, <1>10, <1>11, <1>12, <1>14, <1>25, <1>26, AnswersStep

-----------------------------------------------------------------------------
(* The response                                                            *)

LEMMA AnswersInit ==
  ASSUME Acyclic, Init
  PROVE  Answers
<1>1. /\ Given(conditions, outcomes) /\ visitors = [p \in {<<>>} |-> Visitor(Root, TRUE)]
      /\ results = <<>> /\ observed = <<>>
  BY DEF Init, Given
<1>2. DOMAIN visitors = {<<>>} /\ visitors[<<>>] = Visitor(Root, TRUE) /\ DOMAIN results = {} /\ DOMAIN observed = {}
  BY <1>1
<1>3. Selection(observed, <<>>) = Root /\ Root \in Seq(Nodes) /\ TRUE \in BOOLEAN
  BY DocumentData DEF Selection
<1>4. /\ VisitorIs(conditions, outcomes, observed, <<>>, Visitor(Root, TRUE))
      /\ ErrorsAre(results, <<>>, Visitor(Root, TRUE))
  BY <1>3, NewProgress
<1> HIDE DEF VisitorIs, ErrorsAre, CalledIs, ResultIs
<1> QED  BY <1>1, <1>2, <1>4 DEF Answers

LEMMA AnswersNext ==
  ASSUME Acyclic, DirectivesAgree, Inv, Answers, [Next]_vars
  PROVE  Answers'
<1>1. CASE UNCHANGED vars
  <2>1. UNCHANGED <<conditions, outcomes, visitors, observed, results>>
    BY <1>1 DEF vars, document
  <2> QED  BY <2>1, AnswersSame
<1>2. ASSUME NEW p \in DOMAIN visitors, VisitorStep(p)
      PROVE  Answers'
  <2>1. Running(p)
    BY <1>2 DEF VisitorStep
  <2>2. ASSUME NEW n \in Nodes, Visit(p, n)
        PROVE  Answers'
    BY <2>1, <2>2, SkipNameAnswers, UnknownAnswers, SkipFieldAnswers, CallAnswers, SkipFragmentAnswers,
       EnterAnswers, ThrowAnswers DEF Visit
  <2> QED
    BY <1>2, <2>1, <2>2, StartAnswers, ChangeAnswers, LeaveAnswers, GetValuesAnswers, AwaitAnswers, FinishAnswers
       DEF VisitorStep
<1>3. ASSUME NEW q \in awaited, Resolve(q)
      PROVE  Answers'
  BY <1>3, ResolveAnswers
<1> QED  BY <1>1, <1>2, <1>3 DEF Next

LEMMA AnswersAlways ==
  ASSUME Acyclic, DirectivesAgree
  PROVE  Spec => []Answers
<1>1. Init => Answers
  BY AnswersInit
<1>2. Inv /\ Answers /\ [Next]_vars => Answers'
  BY AnswersNext
<1> QED  BY <1>1, <1>2, Invariance, PTL DEF Spec

\* Whichever objects are resolved on threads of their own, in whichever order
\* they get ready and whatever fails, the data of the response is that of the
\* fields that are left when fragments are flattened, in the order in which they
\* are met.
THEOREM DataAsExpected ==
  ASSUME Acyclic, DirectivesAgree
  PROVE  Spec => []DataIsExpected
<1>1. Answers => DataIsExpected
  BY DEF Answers, ResultIs, Same, DataIsExpected, Ready, Response, Expected
<1> QED  BY <1>1, AnswersAlways, PTL

\* Where each error has the path of its field, so has the whole response.
THEOREM ResponseAsExpected ==
  ASSUME Acyclic, DirectivesAgree
  PROVE  Spec => []ResponseIsExpected
<1>1. Inv /\ Answers => ResponseIsExpected
  <2> SUFFICES ASSUME Inv, Answers, Ready(<<>>), ErrorsHavePaths PROVE Response = Expected
    BY DEF ResponseIsExpected
  <2>1. Same(outcomes, Response, Expected)
    BY DEF Answers, ResultIs, Ready, Response, Expected
  <2>2. Response \in ResultType(Entries)
    BY DEF Inv, Typed, Ready, Response
  <2>3. Expected = [kind |-> Expected.kind, fields |-> Expected.fields, errors |-> Expected.errors]
    BY DEF Expected, ObjectResult, Null
  <2>4. Response = [kind |-> Response.kind, fields |-> Response.fields, errors |-> Response.errors]
    BY <2>2 DEF ResultType
  <2>5. HavePaths(outcomes)
    BY DEF HavePaths, ErrorsHavePaths
  <2> HIDE DEF Response, Expected
  <2> QED  BY <2>1, <2>3, <2>4, <2>5 DEF Same
<1> QED  BY <1>1, AnswersAlways, Invariance, PTL
=============================================================================
