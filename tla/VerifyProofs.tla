---------------------------- MODULE VerifyProofs ----------------------------
(***************************************************************************)
(* What the verifiers rest on, for trees, logs and signatures of every     *)
(* size. The level by level tree of MerkleRoot is the recursive one of     *)
(* RFC 6962, and a root names its leaves; the fold of                      *)
(* rootFromInclusionProof climbs the tree of the log level by level, so an *)
(* accepted proof names the leaf that the log holds at that index. Last,   *)
(* the facts about the two verifiers that other proofs cite.               *)
(***************************************************************************)
EXTENDS Verify, WellFoundedInduction, FiniteSetTheorems, TLAPS

-----------------------------------------------------------------------------
(* Natural numbers: induction over a set of them, and powers of two. *)

LEMMA ByInduction ==
  ASSUME NEW S, 0 \in S, \A n \in Nat : n \in S => n + 1 \in S
  PROVE  Nat \subseteq S
<1> DEFINE Less == {ss \in Nat \X Nat : ss[1] < ss[2]}
           Bad == Nat \ S
<1>1. IsWellFoundedOn(Less, Nat)
  BY NatLessThanWellFounded DEF OpToRel
<1>2. ASSUME Bad # {} PROVE FALSE
  <2>1. PICK x \in Bad : \A y \in Bad : <<y, x>> \notin Less
    BY <1>1, <1>2, WFMin
  <2>2. x # 0 /\ x - 1 \in Nat
    BY <2>1
  <2>3. x - 1 \notin Bad
    <3>1. x \in Nat /\ <<x - 1, x>> \in Less
      BY <2>2
    <3> HIDE DEF Less
    <3> QED BY <2>1, <3>1
  <2> QED BY <2>2, <2>3, <2>1
<1> QED BY <1>2

LEMMA ByStrongInduction ==
  ASSUME NEW S, \A n \in Nat : (\A m \in Nat : m < n => m \in S) => n \in S
  PROVE  Nat \subseteq S
<1> DEFINE T == {n \in Nat : \A m \in Nat : m < n => m \in S}
<1>1. 0 \in T
  OBVIOUS
<1>2. ASSUME NEW n \in Nat, n \in T PROVE n + 1 \in T
  <2>1. n \in S
    BY <1>2
  <2>2. ASSUME NEW m \in Nat, m < n + 1 PROVE m \in S
    BY <1>2, <2>1, <2>2
  <2> QED BY <2>2
<1>3. Nat \subseteq T
  <2> HIDE DEF T
  <2> QED BY <1>1, <1>2, ByInduction
<1> QED BY <1>3

LEMMA PowerOfTwo ==
  ASSUME NEW n \in Nat
  PROVE  2 ^ n \in Nat /\ 2 ^ n > 0
<1>1. IsFiniteSet(1..n) /\ Cardinality(1..n) = n
  BY FS_Interval
<1>2. IsFiniteSet(SUBSET (1..n)) /\ Cardinality(SUBSET (1..n)) = 2 ^ n
  BY <1>1, FS_SUBSET
<1>3. Cardinality(SUBSET (1..n)) \in Nat
  BY <1>2, FS_CardinalityType
<1>4. Cardinality(SUBSET (1..n)) # 0
  BY <1>2, FS_EmptySet
<1> QED BY <1>2, <1>3, <1>4

LEMMA PowerDoubles ==
  ASSUME NEW n \in Nat
  PROVE  2 ^ (n + 1) = 2 * 2 ^ n
<1> DEFINE A == SUBSET (1..n)
           f == [X \in A |-> X \cup {n + 1}]
           B == {X \cup {n + 1} : X \in A}
<1>1. IsFiniteSet(1..n) /\ Cardinality(1..n) = n /\ IsFiniteSet(1..(n+1)) /\ Cardinality(1..(n+1)) = n + 1
  BY FS_Interval
<1>2. IsFiniteSet(A) /\ Cardinality(A) = 2 ^ n /\ Cardinality(SUBSET (1..(n+1))) = 2 ^ (n + 1)
  BY <1>1, FS_SUBSET
<1>3. f \in Bijection(A, B)
  <2>1. ASSUME NEW X \in A, NEW Y \in A, f[X] = f[Y] PROVE X = Y
    <3>1. n + 1 \notin X /\ n + 1 \notin Y
      OBVIOUS
    <3> QED BY <2>1, <3>1
  <2>2. f \in [A -> B] /\ \A y \in B : \E x \in A : f[x] = y
    OBVIOUS
  <2> HIDE DEF A, B, f
  <2> QED BY <2>1, <2>2 DEF Bijection, Injection, Surjection, IsInjective
<1>4. IsFiniteSet(B) /\ Cardinality(B) = Cardinality(A)
  <2> HIDE DEF A, B, f
  <2> QED BY <1>2, <1>3, FS_Bijection DEF ExistsBijection
<1>5. A \cup B = SUBSET (1..(n+1))
  <2>1. ASSUME NEW X \in SUBSET (1..(n+1)), n + 1 \in X PROVE X \in B
    <3>1. X \ {n + 1} \in A /\ X = (X \ {n + 1}) \cup {n + 1}
      BY <2>1
    <3> QED BY <3>1
  <2>2. ASSUME NEW X \in SUBSET (1..(n+1)), n + 1 \notin X PROVE X \in A
    BY <2>2
  <2>3. 1..n \subseteq 1..(n+1) /\ n + 1 \in 1..(n+1)
    OBVIOUS
  <2>4. A \subseteq SUBSET (1..(n+1)) /\ B \subseteq SUBSET (1..(n+1))
    BY <2>3
  <2> HIDE DEF A, B
  <2> QED BY <2>1, <2>2, <2>4
<1>6. A \cap B = {}
  <2>1. \A X \in A : n + 1 \notin X
    OBVIOUS
  <2>2. \A X \in B : n + 1 \in X
    OBVIOUS
  <2> HIDE DEF A, B
  <2> QED BY <2>1, <2>2
<1> HIDE DEF A, B
<1>7. Cardinality(A \cup B) = Cardinality(A) + Cardinality(B) - Cardinality(A \cap B)
  BY <1>2, <1>4, FS_Union
<1>8. Cardinality(A) \in Nat /\ Cardinality(A \cap B) = 0
  BY <1>2, <1>6, FS_CardinalityType, FS_EmptySet
<1>9. Cardinality(A \cup B) = 2 * Cardinality(A)
  BY <1>4, <1>7, <1>8
<1>10. Cardinality(A \cup B) = 2 ^ (n + 1)
  BY <1>2, <1>5
<1> QED BY <1>2, <1>9, <1>10

LEMMA PowersApart ==
  ASSUME NEW a \in Nat, NEW b \in Nat, a < b
  PROVE  2 * 2 ^ a <= 2 ^ b
<1> DEFINE S == {d \in Nat : 2 * 2 ^ a <= 2 ^ (a + 1 + d)}
<1>1. 0 \in S
  <2>1. 2 ^ (a + 1 + 0) = 2 * 2 ^ a
    BY PowerDoubles
  <2> QED BY <2>1, PowerOfTwo
<1>2. ASSUME NEW d \in Nat, d \in S PROVE d + 1 \in S
  <2>1. 2 ^ (a + 1 + d + 1) = 2 * 2 ^ (a + 1 + d)
    BY PowerDoubles
  <2>2. a + 1 + (d + 1) = a + 1 + d + 1
    OBVIOUS
  <2>3. 2 ^ (a + 1 + d) \in Nat /\ 2 ^ a \in Nat
    BY PowerOfTwo
  <2>4. 2 * 2 ^ a <= 2 ^ (a + 1 + d + 1)
    BY <1>2, <2>1, <2>3
  <2> QED BY <2>2, <2>4
<1>3. b - a - 1 \in S
  <2> HIDE DEF S
  <2> QED BY <1>1, <1>2, ByInduction
<1>4. a + 1 + (b - a - 1) = b
  OBVIOUS
<1> QED BY <1>3, <1>4

LEMMA PowerExceeds ==
  ASSUME NEW n \in Nat
  PROVE  n < 2 ^ n
<1> DEFINE S == {d \in Nat : d < 2 ^ d}
<1>1. 0 \in S
  BY PowerOfTwo
<1>2. ASSUME NEW d \in Nat, d \in S PROVE d + 1 \in S
  BY <1>2, PowerDoubles, PowerOfTwo
<1>3. n \in S
  <2> HIDE DEF S
  <2> QED BY <1>1, <1>2, ByInduction
<1> QED BY <1>3

-----------------------------------------------------------------------------
(* Where RFC 6962 splits a tree. *)

LEMMA SplitIs ==
  ASSUME NEW n \in Nat, NEW e \in Nat, 2 ^ e < n, n <= 2 * 2 ^ e
  PROVE  Split(n) = 2 ^ e
<1>1. e \in 0..n
  BY PowerExceeds, PowerOfTwo
<1>2. ASSUME NEW f \in 0..n, 2 ^ f < n, n <= 2 * 2 ^ f PROVE 2 ^ f = 2 ^ e
  <2>1. CASE f < e
    BY <1>2, <2>1, PowersApart, PowerOfTwo
  <2>2. CASE e < f
    BY <1>2, <2>2, PowersApart, PowerOfTwo
  <2>3. CASE e = f
    BY <2>3
  <2> QED BY <2>1, <2>2, <2>3
<1> QED BY <1>1, <1>2 DEF Split

LEMMA SplitExists ==
  ASSUME NEW n \in Nat, n >= 2
  PROVE  \E e \in Nat : 2 ^ e < n /\ n <= 2 * 2 ^ e
<1> DEFINE S == {m \in Nat : m >= 2 => \E e \in Nat : 2 ^ e < m /\ m <= 2 * 2 ^ e}
<1>1. ASSUME NEW m \in Nat, \A k \in Nat : k < m => k \in S PROVE m \in S
  <2>1. CASE m < 2
    BY <2>1
  <2>2. CASE m = 2
    <3>1. 2 ^ 0 < m /\ m <= 2 * 2 ^ 0
      BY <2>2
    <3> QED BY <3>1
  <2>3. CASE m > 2
    <3> DEFINE k == (m + 1) \div 2
    <3>1. k \in Nat /\ k >= 2 /\ k < m /\ 2 * k >= m /\ 2 * k <= m + 1
      BY <2>3
    <3> HIDE DEF k
    <3>2. PICK e \in Nat : 2 ^ e < k /\ k <= 2 * 2 ^ e
      BY <1>1, <3>1
    <3>3. 2 ^ (e + 1) = 2 * 2 ^ e /\ 2 ^ e \in Nat
      BY PowerDoubles, PowerOfTwo
    <3>4. 2 ^ (e + 1) < m /\ m <= 2 * 2 ^ (e + 1)
      BY <3>1, <3>2, <3>3
    <3> QED BY <3>4
  <2> QED BY <2>1, <2>2, <2>3
<1>2. n \in S
  <2> HIDE DEF S
  <2> QED BY <1>1, ByStrongInduction
<1> QED BY <1>2

LEMMA SplitFacts ==
  ASSUME NEW n \in Nat, n >= 2
  PROVE  Split(n) \in 1..(n - 1) /\ n <= 2 * Split(n)
<1>1. PICK e \in Nat : 2 ^ e < n /\ n <= 2 * 2 ^ e
  BY SplitExists
<1>2. Split(n) = 2 ^ e
  BY <1>1, SplitIs
<1> QED BY <1>1, <1>2, PowerOfTwo

LEMMA SplitOfTwo == Split(2) = 1
BY SplitFacts

\* Halving a tree halves where it splits, whether or not it has an odd node.
LEMMA SplitHalves ==
  ASSUME NEW m \in Nat, m >= 2
  PROVE  Split(2 * m) = 2 * Split(m) /\ Split(2 * m - 1) = 2 * Split(m)
<1>1. PICK e \in Nat : 2 ^ e < m /\ m <= 2 * 2 ^ e
  BY SplitExists
<1>2. 2 ^ (e + 1) = 2 * 2 ^ e /\ 2 ^ e \in Nat
  BY PowerDoubles, PowerOfTwo
<1>3. 2 ^ (e + 1) < 2 * m - 1 /\ 2 * m <= 2 * 2 ^ (e + 1)
  BY <1>1, <1>2
<1>4. Split(m) = 2 ^ e
  BY <1>1, SplitIs
<1>5. Split(2 * m) = 2 ^ (e + 1) /\ Split(2 * m - 1) = 2 ^ (e + 1)
  BY <1>2, <1>3, SplitIs
<1> QED BY <1>2, <1>4, <1>5

-----------------------------------------------------------------------------
(* Levels of a tree: L is a level of n nodes. *)
Nodes(L, n) == L = [i \in 1..n |-> L[i]]

LEMMA NodesAre ==
  ASSUME NEW n \in Nat, NEW L, Nodes(L, n)
  PROVE  Len(L) = n /\ DOMAIN L = 1..n
<1>1. [i \in 1..n |-> L[i]] \in Seq({L[i] : i \in 1..n})
  OBVIOUS
<1>2. DOMAIN L = 1..n
  BY DEF Nodes
<1>3. L \in Seq({L[i] : i \in 1..n})
  BY <1>1 DEF Nodes
<1> QED BY <1>2, <1>3

LEMMA AboveIs ==
  ASSUME NEW n \in Nat, NEW L, Nodes(L, n)
  PROVE  /\ Nodes(LevelAbove(L), (n + 1) \div 2)
         /\ \A i \in 1..((n + 1) \div 2) :
              LevelAbove(L)[i] = IF 2 * i > n THEN L[2 * i - 1] ELSE HashChildren(L[2 * i - 1], L[2 * i])
<1>1. Len(L) = n
  BY NodesAre
<1> DEFINE m == (n + 1) \div 2
           U == LevelAbove(L)
<1>2. U = [i \in 1..m |-> IF 2 * i > n THEN L[2 * i - 1] ELSE HashChildren(L[2 * i - 1], L[2 * i])]
  BY <1>1 DEF LevelAbove
<1>3. \A i \in 1..m : U[i] = IF 2 * i > n THEN L[2 * i - 1] ELSE HashChildren(L[2 * i - 1], L[2 * i])
  BY <1>2
<1>4. U = [i \in 1..m |-> U[i]]
  BY <1>2
<1> QED BY <1>3, <1>4 DEF Nodes

\* The recursion of RFC 6962, as an equation.
LEMMA SubtreesAre ==
  ASSUME NEW n \in Nat, NEW L, Nodes(L, n), NEW lo \in 0..n, NEW hi \in 0..n
  PROVE  Subtrees(L)[<<lo, hi>>] =
           IF hi - lo <= 1 THEN L[hi]
           ELSE HashChildren(Subtrees(L)[<<lo, lo + Split(hi - lo)>>], Subtrees(L)[<<lo + Split(hi - lo), hi>>])
<1> DEFINE D == (0..n) \X (0..n)
           E(f) == [r \in D |-> IF r[2] - r[1] <= 1 THEN L[r[2]]
                                 ELSE HashChildren(f[<<r[1], r[1] + Split(r[2] - r[1])>>],
                                                   f[<<r[1] + Split(r[2] - r[1]), r[2]>>])]
           P == {d \in Nat : \E g : \A r \in D : r[2] - r[1] <= d => g[r] = E(g)[r]}
<1>1. 0 \in P
  <2> DEFINE g == [r \in D |-> L[r[2]]]
  <2>1. \A r \in D : r[2] - r[1] <= 0 => g[r] = E(g)[r]
    OBVIOUS
  <2>2. \E h : \A r \in D : r[2] - r[1] <= 0 => h[r] = E(h)[r]
    <3> HIDE DEF D, E, g
    <3> QED BY <2>1
  <2> QED BY <2>2
<1>2. ASSUME NEW r \in D, r[2] - r[1] > 1
      PROVE  LET k == Split(r[2] - r[1])
             IN /\ <<r[1], r[1] + k>> \in D /\ <<r[1] + k, r[2]>> \in D
                /\ r[1] + k - r[1] < r[2] - r[1] /\ r[2] - (r[1] + k) < r[2] - r[1] /\ k \in Int
  <2>1. r[1] \in 0..n /\ r[2] \in 0..n
    OBVIOUS
  <2>2. r[2] - r[1] \in Nat /\ r[2] - r[1] >= 2
    BY <1>2, <2>1
  <2>3. Split(r[2] - r[1]) \in 1..(r[2] - r[1] - 1)
    BY <2>2, SplitFacts
  <2> QED BY <2>1, <2>3
<1>3. ASSUME NEW d \in Nat, d \in P PROVE d + 1 \in P
  <2>1. PICK g : \A r \in D : r[2] - r[1] <= d => g[r] = E(g)[r]
    BY <1>3
  <2> DEFINE h == [r \in D |-> E(g)[r]]
  <2>2. \A r \in D : h[r] = E(g)[r]
    OBVIOUS
  <2>3. ASSUME NEW r \in D, r[2] - r[1] <= d + 1 PROVE h[r] = E(h)[r]
    <3>1. CASE r[2] - r[1] <= 1
      BY <3>1
    <3>2. CASE r[2] - r[1] > 1
      <4> DEFINE k == Split(r[2] - r[1])
                 a == <<r[1], r[1] + k>>
                 b == <<r[1] + k, r[2]>>
      <4>1. a \in D /\ b \in D /\ a[2] - a[1] <= d /\ b[2] - b[1] <= d
        <5>1. r[1] \in 0..n /\ r[2] \in 0..n
          OBVIOUS
        <5>2. a \in D /\ b \in D /\ r[1] + k - r[1] < r[2] - r[1] /\ r[2] - (r[1] + k) < r[2] - r[1] /\ k \in Int
          BY <1>2, <3>2
        <5>3. r[1] + k - r[1] <= d /\ r[2] - (r[1] + k) <= d
          <6> HIDE DEF k
          <6> QED BY <2>3, <5>1, <5>2
        <5> QED BY <5>2, <5>3
      <4>2. h[a] = g[a] /\ h[b] = g[b]
        <5> HIDE DEF h, a, b, E, D
        <5> QED BY <2>1, <2>2, <4>1
      <4>3. E(h)[r] = HashChildren(h[a], h[b]) /\ E(g)[r] = HashChildren(g[a], g[b])
        BY <3>2
      <4> HIDE DEF h, a, b, E, D
      <4> QED BY <2>2, <4>2, <4>3
    <3> QED BY <3>1, <3>2
  <2>4. \E f : \A r \in D : r[2] - r[1] <= d + 1 => f[r] = E(f)[r]
    <3> HIDE DEF h, E, D
    <3> QED BY <2>3
  <2> QED BY <2>4
<1>4. n \in P
  <2> HIDE DEF P
  <2> QED BY <1>1, <1>3, ByInduction
<1>5. \E f : f = E(f)
  <2>1. PICK g : \A r \in D : r[2] - r[1] <= n => g[r] = E(g)[r]
    BY <1>4
  <2>2. \A r \in D : g[r] = E(g)[r]
    BY <2>1
  <2> DEFINE h == [r \in D |-> g[r]]
  <2>3. \A r \in D : h[r] = g[r]
    OBVIOUS
  <2>4. ASSUME NEW r \in D PROVE E(h)[r] = E(g)[r]
    <3>1. CASE r[2] - r[1] > 1
      <4> DEFINE k == Split(r[2] - r[1])
                 a == <<r[1], r[1] + k>>
                 b == <<r[1] + k, r[2]>>
      <4>1. a \in D /\ b \in D
        BY <1>2, <3>1
      <4>2. h[a] = g[a] /\ h[b] = g[b]
        <5> HIDE DEF a, b, D
        <5> QED BY <4>1
      <4>3. E(h)[r] = HashChildren(h[a], h[b]) /\ E(g)[r] = HashChildren(g[a], g[b])
        BY <3>1
      <4> HIDE DEF h, a, b, E, D
      <4> QED BY <4>2, <4>3
    <3>2. CASE ~(r[2] - r[1] > 1)
      <4>1. r[2] - r[1] <= 1
        BY <3>2
      <4> QED BY <4>1
    <3> QED BY <3>1, <3>2
  <2>5. h = E(h)
    <3>1. E(h) = [r \in D |-> E(h)[r]]
      OBVIOUS
    <3>2. \A r \in D : h[r] = E(h)[r]
      <4> HIDE DEF h, E, D
      <4> QED BY <2>2, <2>3, <2>4
    <3>3. h = [r \in D |-> h[r]]
      OBVIOUS
    <3> HIDE DEF h, E, D
    <3> QED BY <3>1, <3>2, <3>3
  <2> QED BY <2>5
<1> DEFINE F == Subtrees(L)
<1>6. F = E(F)
  <2>1. Len(L) = n
    BY NodesAre
  <2>2. F = CHOOSE f : f = E(f)
    BY <2>1 DEF Subtrees
  <2> HIDE DEF E, F
  <2> QED BY <1>5, <2>2
<1>7. <<lo, hi>> \in D
  OBVIOUS
<1>8. E(F)[<<lo, hi>>] = IF hi - lo <= 1 THEN L[hi]
                         ELSE HashChildren(F[<<lo, lo + Split(hi - lo)>>], F[<<lo + Split(hi - lo), hi>>])
  <2> HIDE DEF F
  <2> QED BY <1>7
<1>9. F[<<lo, hi>>] = E(F)[<<lo, hi>>]
  <2> HIDE DEF E, F
  <2> QED BY <1>6
<1> HIDE DEF E
<1> QED BY <1>8, <1>9

LEMMA SubtreeOfOne ==
  ASSUME NEW n \in Nat, NEW L, Nodes(L, n), NEW lo \in 0..n, NEW hi \in 0..n, hi - lo <= 1
  PROVE  Subtrees(L)[<<lo, hi>>] = L[hi]
BY SubtreesAre

-----------------------------------------------------------------------------
(* Pairing neighbours and promoting the odd node is that recursion. *)

\* Where a node of one level ends on the level below, which has n nodes.
End(n, i) == IF 2 * i <= n THEN 2 * i ELSE n

LEMMA SubtreesOfAbove ==
  ASSUME NEW n \in Nat, n >= 1, NEW L, Nodes(L, n),
         NEW lo \in 0..((n + 1) \div 2), NEW hi \in 0..((n + 1) \div 2), lo < hi
  PROVE  Subtrees(LevelAbove(L))[<<lo, hi>>] = Subtrees(L)[<<2 * lo, End(n, hi)>>]
<1> DEFINE m == (n + 1) \div 2
           U == LevelAbove(L)
           SU == Subtrees(U)
           SL == Subtrees(L)
           S == {d \in Nat : \A i, j \in 0..m : i < j /\ j - i = d => SU[<<i, j>>] = SL[<<2 * i, End(n, j)>>]}
<1>1. m \in Nat /\ 2 * m >= n /\ 2 * m <= n + 1
  OBVIOUS
<1>2. Nodes(U, m)
  BY AboveIs
<1>3. ASSUME NEW d \in Nat, \A e \in Nat : e < d => e \in S PROVE d \in S
  <2> SUFFICES ASSUME NEW i \in 0..m, NEW j \in 0..m, i < j, j - i = d
               PROVE  SU[<<i, j>>] = SL[<<2 * i, End(n, j)>>]
    OBVIOUS
  <2>1. 2 * i \in 0..n /\ End(n, j) \in 0..n
    BY <1>1 DEF End
  <2>2. CASE d = 1
    <3>1. SU[<<i, j>>] = U[j]
      <4>1. j - i <= 1
        BY <2>2
      <4> HIDE DEF m, U
      <4> QED BY <1>1, <1>2, <4>1, SubtreeOfOne
    <3>2. j \in 1..m
      OBVIOUS
    <3>3. CASE 2 * j > n
      <4>1. U[j] = L[2 * j - 1]
        BY <3>2, <3>3, AboveIs
      <4>2. End(n, j) = n /\ n = 2 * j - 1 /\ n - 2 * i = 1
        BY <1>1, <2>2, <3>3 DEF End
      <4>3. SL[<<2 * i, n>>] = L[n]
        <5>1. PICK lower \in 0..n : lower = 2 * i
          BY <2>1
        <5>2. n \in 0..n /\ n - lower <= 1
          BY <4>2, <5>1
        <5>3. SL[<<lower, n>>] = L[n]
          BY <5>2, SubtreeOfOne
        <5> QED BY <5>1, <5>3
      <4> QED BY <3>1, <4>1, <4>2, <4>3
    <3>4. CASE 2 * j <= n
      <4>1. U[j] = HashChildren(L[2 * j - 1], L[2 * j])
        BY <3>2, <3>4, AboveIs
      <4>2. End(n, j) = 2 * j /\ 2 * j - 2 * i = 2 /\ 2 * i + 1 = 2 * j - 1 /\ 2 * i + 1 \in 0..n /\ 2 * j \in 0..n
        BY <1>1, <2>1, <2>2, <3>4 DEF End
      <4>3. SL[<<2 * i, 2 * j>>] = HashChildren(SL[<<2 * i, 2 * i + 1>>], SL[<<2 * i + 1, 2 * j>>])
        BY <2>1, <4>2, SplitOfTwo, SubtreesAre
      <4>4. SL[<<2 * i, 2 * i + 1>>] = L[2 * i + 1] /\ SL[<<2 * i + 1, 2 * j>>] = L[2 * j]
        BY <2>1, <4>2, SubtreeOfOne
      <4> QED BY <3>1, <4>1, <4>2, <4>3, <4>4
    <3> QED BY <3>3, <3>4
  <2>3. CASE d >= 2
    <3> DEFINE k == Split(d)
    <3>1. k \in 1..(d - 1)
      BY <2>3, SplitFacts
    <3>2. SU[<<i, j>>] = HashChildren(SU[<<i, i + k>>], SU[<<i + k, j>>])
      BY <1>1, <1>2, <2>3, SubtreesAre
    <3> HIDE DEF k
    <3>3. i + k \in 0..m /\ i + k < j /\ k \in Nat /\ d - k \in Nat /\ i + k - i = k /\ j - (i + k) = d - k
      BY <3>1
    <3>4. SU[<<i, i + k>>] = SL[<<2 * i, End(n, i + k)>>] /\ SU[<<i + k, j>>] = SL[<<2 * (i + k), End(n, j)>>]
      <4>1. k \in S /\ d - k \in S
        <5> HIDE DEF S
        <5> QED BY <1>3, <3>1, <3>3
      <4> HIDE DEF SU, SL
      <4> QED BY <3>1, <3>3, <4>1
    <3>5. End(n, i + k) = 2 * (i + k) /\ 2 * (i + k) = 2 * i + 2 * k
      BY <1>1, <3>1, <3>3 DEF End
    <3>6. End(n, j) - 2 * i \in {2 * d, 2 * d - 1}
      BY <1>1 DEF End
    <3>7. Split(End(n, j) - 2 * i) = 2 * k
      BY <2>3, <3>6, SplitHalves DEF k
    <3>8. SL[<<2 * i, End(n, j)>>] =
            HashChildren(SL[<<2 * i, 2 * i + 2 * k>>], SL[<<2 * i + 2 * k, End(n, j)>>])
      <4>1. ~(End(n, j) - 2 * i <= 1)
        BY <2>3, <3>6
      <4> QED BY <2>1, <3>7, <4>1, SubtreesAre
    <3> QED BY <3>2, <3>4, <3>5, <3>8
  <2> QED BY <2>2, <2>3
<1>4. hi - lo \in S
  <2> HIDE DEF S
  <2> QED BY <1>3, ByStrongInduction
<1> HIDE DEF SU, SL
<1>5. SU[<<lo, hi>>] = SL[<<2 * lo, End(n, hi)>>]
  BY <1>4
<1> QED BY <1>5 DEF SU, SL

LEMMA RootOfAbove ==
  ASSUME NEW n \in Nat, n >= 1, NEW L, Nodes(L, n)
  PROVE  Subtrees(LevelAbove(L))[<<0, (n + 1) \div 2>>] = Subtrees(L)[<<0, n>>]
<1>1. (n + 1) \div 2 \in 0..((n + 1) \div 2) /\ 0 < (n + 1) \div 2 /\ 0 \in 0..((n + 1) \div 2)
  OBVIOUS
<1>2. End(n, (n + 1) \div 2) = n
  BY DEF End
<1> QED BY <1>1, <1>2, SubtreesOfAbove

-----------------------------------------------------------------------------
(* MerkleRoot is the tree of RFC 6962. *)

LEMMA LeafHashesAre ==
  ASSUME NEW n \in Nat, NEW leaves
  PROVE  /\ Nodes(LeafHashes(leaves, n), n)
         /\ \A i \in 1..n : LeafHashes(leaves, n)[i] = LeafHash(leaves[i])
BY DEF LeafHashes, Nodes

LEMMA LevelsAre ==
  ASSUME NEW n \in Nat, NEW leaves, Len(leaves) = n
  PROVE  /\ Levels(leaves)[0] = LeafHashes(leaves, n)
         /\ \A h \in 1..n : Levels(leaves)[h] = LevelAbove(Levels(leaves)[h - 1])
<1> DEFINE B == LeafHashes(leaves, n)
           E(f) == [h \in 0..n |-> IF h = 0 THEN B ELSE LevelAbove(f[h - 1])]
           P == {d \in Nat : \E g : \A h \in 0..n : h <= d => g[h] = E(g)[h]}
<1>1. 0 \in P
  <2> DEFINE g == [h \in 0..n |-> B]
  <2>1. \A h \in 0..n : h <= 0 => g[h] = E(g)[h]
    OBVIOUS
  <2>2. \E f : \A h \in 0..n : h <= 0 => f[h] = E(f)[h]
    <3> HIDE DEF g, E
    <3> QED BY <2>1
  <2> QED BY <2>2
<1>2. ASSUME NEW d \in Nat, d \in P PROVE d + 1 \in P
  <2>1. PICK g : \A h \in 0..n : h <= d => g[h] = E(g)[h]
    BY <1>2
  <2> DEFINE f == [h \in 0..n |-> E(g)[h]]
  <2>2. ASSUME NEW h \in 0..n, h <= d + 1 PROVE f[h] = E(f)[h]
    <3>1. CASE h = 0
      BY <3>1
    <3>2. CASE h # 0
      <4>1. h - 1 \in 0..n /\ h - 1 <= d
        BY <2>2, <3>2
      <4>2. f[h - 1] = g[h - 1]
        <5>1. f[h - 1] = E(g)[h - 1]
          BY <4>1
        <5> HIDE DEF f, E
        <5> QED BY <2>1, <4>1, <5>1
      <4>3. f[h] = LevelAbove(g[h - 1]) /\ E(f)[h] = LevelAbove(f[h - 1])
        BY <3>2
      <4> HIDE DEF f, E
      <4> QED BY <4>2, <4>3
    <3> QED BY <3>1, <3>2
  <2>3. \E k : \A h \in 0..n : h <= d + 1 => k[h] = E(k)[h]
    <3> HIDE DEF f, E
    <3> QED BY <2>2
  <2> QED BY <2>3
<1>3. n \in P
  <2> HIDE DEF P
  <2> QED BY <1>1, <1>2, ByInduction
<1>4. \E f : f = E(f)
  <2>1. PICK g : \A h \in 0..n : h <= n => g[h] = E(g)[h]
    BY <1>3
  <2> DEFINE f == [h \in 0..n |-> g[h]]
  <2>2. ASSUME NEW h \in 0..n PROVE f[h] = E(f)[h]
    <3>1. f[h] = g[h] /\ g[h] = E(g)[h]
      BY <2>1
    <3>2. CASE h = 0
      BY <3>1, <3>2
    <3>3. CASE h # 0
      <4>1. f[h - 1] = g[h - 1]
        BY <3>3
      <4>2. E(g)[h] = LevelAbove(g[h - 1]) /\ E(f)[h] = LevelAbove(f[h - 1])
        BY <3>3
      <4> HIDE DEF f, E
      <4> QED BY <3>1, <4>1, <4>2
    <3> QED BY <3>2, <3>3
  <2>3. f = [h \in 0..n |-> f[h]] /\ E(f) = [h \in 0..n |-> E(f)[h]]
    OBVIOUS
  <2>4. f = E(f)
    <3> HIDE DEF f, E
    <3> QED BY <2>2, <2>3
  <2> QED BY <2>4
<1> DEFINE F == Levels(leaves)
<1>5. F = E(F)
  <2>1. F = CHOOSE f : f = E(f)
    BY DEF Levels
  <2> HIDE DEF E, F
  <2> QED BY <1>4, <2>1
<1>6. E(F)[0] = B /\ \A h \in 1..n : E(F)[h] = LevelAbove(F[h - 1])
  <2> HIDE DEF F
  <2> QED OBVIOUS
<1>7. F[0] = B /\ \A h \in 1..n : F[h] = LevelAbove(F[h - 1])
  <2> HIDE DEF E, F
  <2> QED BY <1>5, <1>6
<1> QED BY <1>7

\* The width of each level, and the one root that they all have.
LEMMA LevelFacts ==
  ASSUME NEW n \in Nat, n >= 1, NEW leaves, Len(leaves) = n, NEW h \in 0..n
  PROVE  LET L == Levels(leaves)[h]
         IN /\ Len(L) \in Nat /\ Len(L) >= 1 /\ Nodes(L, Len(L))
            /\ Len(L) = 1 \/ Len(L) <= n - h
            /\ Subtrees(L)[<<0, Len(L)>>] = TreeHash(leaves, n)
<1> DEFINE Good(L, g) == /\ Len(L) \in Nat /\ Len(L) >= 1 /\ Nodes(L, Len(L))
                         /\ Len(L) = 1 \/ Len(L) <= n - g
                         /\ Subtrees(L)[<<0, Len(L)>>] = TreeHash(leaves, n)
           S == {g \in Nat : g <= n => Good(Levels(leaves)[g], g)}
<1>1. 0 \in S
  <2> DEFINE L == Levels(leaves)[0]
  <2>1. L = LeafHashes(leaves, n)
    BY LevelsAre
  <2>2. Len(L) = n /\ Nodes(L, n)
    BY <2>1, LeafHashesAre, NodesAre
  <2> HIDE DEF L
  <2>3. Good(L, 0)
    BY <2>1, <2>2 DEF TreeHash
  <2> QED BY <2>3 DEF L
<1>2. ASSUME NEW g \in Nat, g \in S PROVE g + 1 \in S
  <2> SUFFICES ASSUME g + 1 <= n PROVE Good(Levels(leaves)[g + 1], g + 1)
    OBVIOUS
  <2> DEFINE L == Levels(leaves)[g]
             U == Levels(leaves)[g + 1]
             m == Len(L)
  <2>1. U = LevelAbove(L)
    <3>1. g + 1 \in 1..n /\ g + 1 - 1 = g
      OBVIOUS
    <3> QED BY <3>1, LevelsAre
  <2>2. Good(L, g)
    BY <1>2
  <2> HIDE DEF L, U
  <2>3. m \in Nat /\ m >= 1 /\ Nodes(L, m)
    BY <2>2
  <2>4. Nodes(U, (m + 1) \div 2) /\ (m + 1) \div 2 \in Nat
    BY <2>1, <2>3, AboveIs
  <2>5. Len(U) = (m + 1) \div 2
    BY <2>4, NodesAre
  <2>6. Len(U) >= 1 /\ (Len(U) = 1 \/ Len(U) <= n - (g + 1))
    <3>1. m = 1 \/ m <= n - g
      BY <2>2
    <3> DEFINE w == (m + 1) \div 2
    <3>2. w >= 1 /\ (w = 1 \/ w <= m - 1) /\ w \in Nat
      BY <2>3
    <3>3. w >= 1 /\ (w = 1 \/ w <= n - (g + 1))
      <4> HIDE DEF w, m
      <4> QED BY <2>3, <3>1, <3>2
    <3> QED BY <2>5, <3>3
  <2>7. Subtrees(U)[<<0, Len(U)>>] = TreeHash(leaves, n)
    BY <2>1, <2>2, <2>3, <2>5, RootOfAbove
  <2> QED BY <2>4, <2>5, <2>6, <2>7 DEF U
<1>3. h \in S
  <2> HIDE DEF S
  <2> QED BY <1>1, <1>2, ByInduction
<1> QED BY <1>3

\* The level MerkleRoot's loop stops at.
Height(leaves, n) ==
  CHOOSE h \in 0..n : Len(Levels(leaves)[h]) = 1 /\ \A g \in 0..(h - 1) : Len(Levels(leaves)[g]) > 1

LEMMA HeightIs ==
  ASSUME NEW n \in Nat, n >= 1, NEW leaves, Len(leaves) = n
  PROVE  /\ Height(leaves, n) \in 0..n
         /\ Len(Levels(leaves)[Height(leaves, n)]) = 1
         /\ \A g \in 0..(Height(leaves, n) - 1) : Len(Levels(leaves)[g]) > 1
<1> DEFINE One(h) == Len(Levels(leaves)[h]) = 1
           S == {h \in Nat : h > n \/ ~One(h)}
<1>1. One(n)
  <2>1. n \in 0..n
    OBVIOUS
  <2>2. Len(Levels(leaves)[n]) = 1 \/ Len(Levels(leaves)[n]) <= n - n
    BY <2>1, LevelFacts
  <2>3. Len(Levels(leaves)[n]) >= 1 /\ Len(Levels(leaves)[n]) \in Nat
    BY <2>1, LevelFacts
  <2> QED BY <2>2, <2>3
<1>2. ~(Nat \subseteq S)
  BY <1>1
<1>3. PICK h \in Nat : h \notin S /\ \A g \in Nat : g < h => g \in S
  <2> HIDE DEF S
  <2> QED BY <1>2, ByStrongInduction
<1>4. h \in 0..n /\ One(h)
  BY <1>3
<1>5. ASSUME NEW g \in 0..(h - 1) PROVE Len(Levels(leaves)[g]) > 1
  <2>1. g \in 0..n /\ ~One(g)
    BY <1>3, <1>4
  <2> DEFINE w == Len(Levels(leaves)[g])
  <2>2. w >= 1 /\ w \in Nat
    BY <2>1, LevelFacts
  <2>3. w # 1
    BY <2>1
  <2> HIDE DEF w
  <2>4. w > 1
    BY <2>2, <2>3
  <2> QED BY <2>4 DEF w
<1> HIDE DEF S
<1> QED BY <1>4, <1>5 DEF Height

\* The level by level tree of MerkleRoot is the recursive one of RFC 6962.
THEOREM RootIsTreeHash ==
  ASSUME NEW n \in Nat, n >= 1, NEW leaves, Len(leaves) = n
  PROVE  MerkleRoot(leaves) = TreeHash(leaves, n)
<1> DEFINE h == Height(leaves, n)
           L == Levels(leaves)[h]
<1>1. MerkleRoot(leaves) = L[1]
  BY DEF MerkleRoot, Height
<1>2. h \in 0..n /\ Len(L) = 1
  BY HeightIs
<1> HIDE DEF h
<1>3. Nodes(L, 1) /\ Subtrees(L)[<<0, 1>>] = TreeHash(leaves, n)
  BY <1>2, LevelFacts
<1>4. Subtrees(L)[<<0, 1>>] = L[1]
  <2> HIDE DEF L
  <2> QED BY <1>3, SubtreeOfOne
<1> QED BY <1>1, <1>3, <1>4

-----------------------------------------------------------------------------
(* A root names its leaves. *)

\* The prefixes keep leaves and interior nodes apart.
LEMMA LeafHashIs ==
  ASSUME NEW B, NEW a \in Seq(B)
  PROVE  /\ Len(LeafHash(a)) = Len(a) + 1 /\ LeafHash(a)[1] = 0
         /\ \A i \in 1..Len(a) : LeafHash(a)[i + 1] = a[i]
<1>1. <<0>> \in Seq(B \cup Int) /\ a \in Seq(B \cup Int)
  OBVIOUS
<1> QED BY <1>1 DEF LeafHash

LEMMA ChildrenAreFree ==
  ASSUME NEW a, NEW b, NEW c, NEW d, HashChildren(a, b) = HashChildren(c, d)
  PROVE  a = c /\ b = d
BY DEF HashChildren

LEMMA LeavesAreFree ==
  ASSUME NEW B, NEW a \in Seq(B), NEW b \in Seq(B), LeafHash(a) = LeafHash(b)
  PROVE  a = b
<1>1. Len(a) = Len(b)
  BY LeafHashIs
<1>2. \A i \in 1..Len(a) : a[i] = b[i]
  BY LeafHashIs, <1>1
<1> QED BY <1>1, <1>2

LEMMA LeafIsNoNode ==
  ASSUME NEW B, NEW a \in Seq(B), NEW x, NEW y
  PROVE  LeafHash(a) # HashChildren(x, y)
<1>1. LeafHash(a)[1] = 0
  BY LeafHashIs
<1>2. HashChildren(x, y)[1] = 1
  BY DEF HashChildren
<1> QED BY <1>1, <1>2

\* By induction on the number of leaves under two nodes that are equal.
LEMMA TreesNameLeaves ==
  ASSUME NEW B, NEW n \in Nat, n >= 1, NEW m \in Nat, m >= 1,
         NEW s \in [1..n -> Seq(B)], NEW u \in [1..m -> Seq(B)], TreeHash(s, n) = TreeHash(u, m)
  PROVE  s = u
<1> DEFINE L == LeafHashes(s, n)
           M == LeafHashes(u, m)
           SL == Subtrees(L)
           SM == Subtrees(M)
           Same(v, w, x, y) == w - v = y - x /\ \A c \in 1..(w - v) : s[v + c] = u[x + c]
           S == {d \in Nat : \A i, j \in 0..n : \A k, l \in 0..m :
                   i < j /\ k < l /\ j - i = d /\ SL[<<i, j>>] = SM[<<k, l>>] => Same(i, j, k, l)}
<1>1. Nodes(L, n) /\ Nodes(M, m)
  BY LeafHashesAre
<1>2. (\A i \in 1..n : L[i] = LeafHash(s[i])) /\ (\A i \in 1..m : M[i] = LeafHash(u[i]))
  BY LeafHashesAre
<1>3. ASSUME NEW d \in Nat, \A e \in Nat : e < d => e \in S PROVE d \in S
  <2> HIDE DEF L, M, SL, SM, Same
  <2> SUFFICES ASSUME NEW i \in 0..n, NEW j \in 0..n, NEW k \in 0..m, NEW l \in 0..m,
                      i < j, k < l, j - i = d, SL[<<i, j>>] = SM[<<k, l>>]
               PROVE  Same(i, j, k, l)
    OBVIOUS
  <2> HIDE DEF S
  <2>1. j \in 1..n /\ l \in 1..m /\ l - k \in Nat
    OBVIOUS
  <2>2. j - i <= 1 => SL[<<i, j>>] = LeafHash(s[j])
    BY <1>1, <1>2, <2>1, SubtreeOfOne DEF SL
  <2>3. l - k <= 1 => SM[<<k, l>>] = LeafHash(u[l])
    BY <1>1, <1>2, <2>1, SubtreeOfOne DEF SM
  <2> DEFINE p == Split(j - i)
             q == Split(l - k)
  <2>4. j - i > 1 => SL[<<i, j>>] = HashChildren(SL[<<i, i + p>>], SL[<<i + p, j>>])
    BY ONLY <1>1, SubtreesAre, i \in 0..n, j \in 0..n, i < j DEF SL
  <2>5. l - k > 1 => SM[<<k, l>>] = HashChildren(SM[<<k, k + q>>], SM[<<k + q, l>>])
    BY ONLY <1>1, SubtreesAre, k \in 0..m, l \in 0..m, k < l DEF SM
  <2>6. j - i <= 1 <=> l - k <= 1
    <3>1. s[j] \in Seq(B) /\ u[l] \in Seq(B)
      BY <2>1
    <3>2. j - i <= 1 \/ j - i > 1
      BY <2>1
    <3>3. l - k <= 1 \/ l - k > 1
      BY <2>1
    <3>4. j - i <= 1 => ~(l - k > 1)
      BY <2>2, <2>5, <3>1, LeafIsNoNode
    <3>5. l - k <= 1 => ~(j - i > 1)
      BY <2>3, <2>4, <3>1, LeafIsNoNode
    <3> QED BY <3>2, <3>3, <3>4, <3>5
  <2>7. CASE j - i <= 1
    <3>1. LeafHash(s[j]) = LeafHash(u[l])
      BY <2>2, <2>3, <2>6, <2>7
    <3>2. s[j] = u[l]
      BY <2>1, <3>1, LeavesAreFree
    <3>3. j - i = 1 /\ l - k = 1 /\ j = i + 1 /\ l = k + 1
      BY <2>6, <2>7
    <3>4. ASSUME NEW e \in 1..(j - i) PROVE s[i + e] = u[k + e]
      <4>1. i + e = j /\ k + e = l
        BY <3>3
      <4> QED BY <3>2, <4>1
    <3> QED BY <3>3, <3>4 DEF Same
  <2>8. CASE j - i > 1
    <3>1. l - k > 1
      BY <2>6, <2>8
    <3>2. SL[<<i, i + p>>] = SM[<<k, k + q>>] /\ SL[<<i + p, j>>] = SM[<<k + q, l>>]
      BY <2>4, <2>5, <2>8, <3>1, ChildrenAreFree
    <3>3. p \in 1..(d - 1) /\ q \in 1..(l - k - 1)
      <4>1. j - i \in Nat /\ j - i >= 2 /\ l - k >= 2
        BY <2>1, <2>8, <3>1
      <4> QED BY <2>1, <4>1, SplitFacts
    <3> HIDE DEF p, q
    <3>4. /\ i + p \in 0..n /\ i < i + p /\ i + p < j /\ (i + p) - i = p /\ j - (i + p) = d - p
          /\ k + q \in 0..m /\ k < k + q /\ k + q < l /\ (k + q) - k = q
          /\ p \in Nat /\ p < d /\ d - p \in Nat /\ d - p < d
      BY <3>3
    <3>5. p \in S /\ d - p \in S
      BY <1>3, <3>4
    <3>6. Same(i, i + p, k, k + q)
      BY <3>2, <3>4, <3>5 DEF S
    <3>7. Same(i + p, j, k + q, l)
      BY <3>2, <3>4, <3>5 DEF S
    <3>8. p = q /\ j - i = l - k
      <4>1. (i + p) - i = (k + q) - k
        BY <3>6 DEF Same
      <4>2. p = q
        BY <3>3, <4>1
      <4>3. j - (i + p) = l - (k + q)
        BY <3>7 DEF Same
      <4>4. \A x, y, z, v, w \in Int : x - (y + v) = z - (w + v) => x - y = z - w
        OBVIOUS
      <4>5. i \in Int /\ j \in Int /\ k \in Int /\ l \in Int /\ p \in Int
        BY <3>3
      <4>6. j - i = l - k
        BY <4>2, <4>3, <4>4, <4>5
      <4> QED BY <4>2, <4>6
    <3>9. ASSUME NEW e \in 1..(j - i) PROVE s[i + e] = u[k + e]
      <4>1. CASE e <= p
        <5>1. e \in 1..((i + p) - i)
          BY <3>3, <4>1
        <5> QED BY <3>6, <5>1 DEF Same
      <4>2. CASE e > p
        <5> DEFINE f == e - p
        <5>1. f \in 1..(j - (i + p)) /\ (i + p) + f = i + e /\ (k + q) + f = k + e
          BY <3>3, <3>8, <4>2
        <5> HIDE DEF f
        <5>2. s[(i + p) + f] = u[(k + q) + f]
          BY <3>7, <5>1 DEF Same
        <5> QED BY <5>1, <5>2
      <4>3. e \in Int /\ p \in Int
        BY <3>3
      <4>4. e <= p \/ e > p
        BY <4>3
      <4> QED BY <4>1, <4>2, <4>4
    <3> QED BY <3>8, <3>9 DEF Same
  <2> QED BY <2>7, <2>8
<1>4. n \in S
  <2> HIDE DEF S
  <2> QED BY <1>3, ByStrongInduction
<1>5. Same(0, n, 0, m)
  <2>1. SL[<<0, n>>] = SM[<<0, m>>]
    BY DEF TreeHash
  <2> HIDE DEF Same, SL, SM
  <2> QED BY <1>4, <2>1
<1>6. n - 0 = n /\ m - 0 = m /\ \A c \in 1..n : 0 + c = c
  OBVIOUS
<1>7. n - 0 = m - 0 /\ \A c \in 1..(n - 0) : s[0 + c] = u[0 + c]
  BY <1>5
<1>8. n = m
  BY <1>6, <1>7
<1>9. \A i \in 1..n : s[i] = u[i]
  <2> TAKE i \in 1..n
  <2>1. s[0 + i] = u[0 + i]
    BY <1>6, <1>7
  <2> QED BY <1>6, <2>1
<1> QED BY <1>8, <1>9

\* Two sequences of leaves, of any lengths, with one root are one sequence:
\* promoting the odd node confuses no two bundles.
THEOREM RootNamesLeaves ==
  ASSUME NEW B, NEW n \in Nat, n >= 1, NEW m \in Nat, m >= 1,
         NEW s \in [1..n -> Seq(B)], NEW u \in [1..m -> Seq(B)], MerkleRoot(s) = MerkleRoot(u)
  PROVE  s = u
<1>1. Len(s) = n /\ Len(u) = m
  OBVIOUS
<1>2. TreeHash(s, n) = TreeHash(u, m)
  BY <1>1, RootIsTreeHash
<1> QED BY <1>2, TreesNameLeaves

\* What TLC evaluates up to a number of leaves.
COROLLARY RootsNameLeavesAlways ==
  ASSUME NEW max \in Nat
  PROVE  RootsNameLeaves(max)
<1> DEFINE root == [s \in LeafSequences(max) |-> MerkleRoot(s)]
<1>1. ASSUME NEW s \in LeafSequences(max)
      PROVE  \E n \in 1..max : s \in [1..n -> Seq(Int)] /\ Len(s) = n
  <2>1. PICK n \in 1..max : s \in [1..n -> {<<1>>, <<2>>}]
    BY DEF LeafSequences
  <2>2. {<<1>>, <<2>>} \subseteq Seq(Int)
    OBVIOUS
  <2>3. s \in [1..n -> Seq(Int)]
    BY <2>1, <2>2
  <2> QED BY <2>3
<1>2. ASSUME NEW s \in LeafSequences(max), NEW u \in LeafSequences(max), root[s] = root[u]
      PROVE  s = u
  <2>1. MerkleRoot(s) = MerkleRoot(u)
    BY <1>2
  <2>2. PICK n \in 1..max : s \in [1..n -> Seq(Int)]
    BY <1>1
  <2>3. PICK m \in 1..max : u \in [1..m -> Seq(Int)]
    BY <1>1
  <2>4. n \in Nat /\ n >= 1 /\ m \in Nat /\ m >= 1
    OBVIOUS
  <2> HIDE DEF root
  <2> QED BY <2>1, <2>2, <2>3, <2>4, RootNamesLeaves
<1>3. ASSUME NEW s \in LeafSequences(max)
      PROVE  root[s] = TreeHash(s, Len(s))
  <2>1. PICK n \in 1..max : Len(s) = n
    BY <1>1
  <2> QED BY <2>1, RootIsTreeHash
<1> QED BY <1>2, <1>3 DEF RootsNameLeaves

-----------------------------------------------------------------------------
(* Proofs of inclusion. The two numbers a proof is walked by: x is an       *)
(* index, y the last one.                                                   *)

LEMMA Halves ==
  ASSUME NEW x \in Nat, NEW h \in Nat
  PROVE  x \div 2 ^ h \in Nat /\ (x \div 2 ^ h) \div 2 = x \div 2 ^ (h + 1)
<1> DEFINE a == 2 ^ h
<1>1. a \in Nat /\ a > 0 /\ 2 ^ (h + 1) = 2 * a
  BY PowerOfTwo, PowerDoubles
<1> HIDE DEF a
<1>2. x \div a \in Nat /\ (x \div a) \div 2 = x \div (2 * a)
  BY <1>1
<1> QED BY <1>1, <1>2 DEF a

LEMMA Vanishes ==
  ASSUME NEW x \in Nat, NEW h \in Nat, x <= h
  PROVE  x \div 2 ^ h = 0
<1> DEFINE a == 2 ^ h
<1>1. a \in Nat /\ x < a
  BY PowerOfTwo, PowerExceeds
<1> HIDE DEF a
<1>2. x \div a = 0
  BY <1>1
<1> QED BY <1>2 DEF a

LEMMA HalvesInOrder ==
  ASSUME NEW x \in Nat, NEW y \in Nat, x <= y, NEW h \in Nat
  PROVE  x \div 2 ^ h <= y \div 2 ^ h
<1> DEFINE S == {i \in Nat : x \div 2 ^ i <= y \div 2 ^ i}
<1>1. 0 \in S
  <2>1. x \div 2 ^ 0 = x /\ y \div 2 ^ 0 = y
    OBVIOUS
  <2> QED BY <2>1
<1>2. ASSUME NEW i \in Nat, i \in S PROVE i + 1 \in S
  <2> DEFINE u == x \div 2 ^ i
             v == y \div 2 ^ i
  <2>1. u \in Nat /\ v \in Nat /\ u <= v /\ u \div 2 = x \div 2 ^ (i + 1) /\ v \div 2 = y \div 2 ^ (i + 1)
    BY <1>2, Halves
  <2>2. u \div 2 <= v \div 2
    <3> HIDE DEF u, v
    <3> QED BY <2>1
  <2>3. x \div 2 ^ (i + 1) <= y \div 2 ^ (i + 1)
    BY <2>1, <2>2
  <2> QED BY <2>3
<1>3. h \in S
  <2> HIDE DEF S
  <2> QED BY <1>1, <1>2, ByInduction
<1> QED BY <1>3

\* Above Inner the index and the last index agree, below they do not.
LEMMA InnerIs ==
  ASSUME NEW n \in Nat, n >= 1, NEW m \in 0..(n - 1)
  PROVE  /\ Inner(m, n) \in 0..n
         /\ \A h \in Nat : h < Inner(m, n) => m \div 2 ^ h < (n - 1) \div 2 ^ h
         /\ \A h \in Nat : h >= Inner(m, n) => m \div 2 ^ h = (n - 1) \div 2 ^ h
<1> DEFINE y == n - 1
           Meet(h) == m \div 2 ^ h = y \div 2 ^ h
           S == {h \in Nat : h > n \/ ~Meet(h)}
           I == Inner(m, n)
<1>1. m \in Nat /\ y \in Nat /\ m <= y
  OBVIOUS
<1>2. Meet(n)
  BY <1>1, Vanishes
<1>3. \E i \in 0..n : Meet(i) /\ \A j \in 0..(i - 1) : ~Meet(j)
  <2> SUFFICES ASSUME ~ \E i \in 0..n : Meet(i) /\ \A j \in 0..(i - 1) : ~Meet(j)
               PROVE  FALSE
    OBVIOUS
  <2> HIDE DEF Meet
  <2>1. ASSUME NEW h \in Nat, \A j \in Nat : j < h => j \in S PROVE h \in S
    <3>1. \A j \in 0..(h - 1) : j \in Nat /\ j < h
      OBVIOUS
    <3>2. h <= n => \A j \in 0..(h - 1) : ~Meet(j)
      BY <2>1, <3>1
    <3> QED BY <3>2
  <2>2. n \in S
    <3> HIDE DEF S
    <3> QED BY <2>1, ByStrongInduction
  <2> QED BY <1>2, <2>2
<1>4. I \in 0..n /\ Meet(I) /\ \A j \in 0..(I - 1) : ~Meet(j)
  <2>1. I = CHOOSE i \in 0..n : Meet(i) /\ \A j \in 0..(i - 1) : ~Meet(j)
    BY DEF Inner
  <2> HIDE DEF Meet, I
  <2> QED BY <1>3, <2>1
<1> HIDE DEF I
<1>5. ASSUME NEW h \in Nat, h < I PROVE m \div 2 ^ h < y \div 2 ^ h
  <2>1. ~Meet(h)
    BY <1>4, <1>5
  <2>2. m \div 2 ^ h <= y \div 2 ^ h /\ m \div 2 ^ h \in Nat /\ y \div 2 ^ h \in Nat
    BY <1>1, HalvesInOrder, Halves
  <2> DEFINE u == m \div 2 ^ h
             v == y \div 2 ^ h
  <2>3. u # v /\ u <= v /\ u \in Nat /\ v \in Nat
    BY <2>1, <2>2
  <2> HIDE DEF u, v
  <2>4. u < v
    BY <2>3
  <2> QED BY <2>4 DEF u, v
<1>6. \A h \in Nat : h >= I => Meet(h)
  <2> DEFINE T == {d \in Nat : Meet(I + d)}
  <2>1. 0 \in T
    <3>1. I + 0 = I
      BY <1>4
    <3> HIDE DEF Meet
    <3> QED BY <1>4, <3>1
  <2>2. ASSUME NEW d \in Nat, d \in T PROVE d + 1 \in T
    <3>1. I + d \in Nat /\ I + (d + 1) = (I + d) + 1
      BY <1>4
    <3> DEFINE e == I + d
    <3>2. Meet(e) /\ e \in Nat
      BY <2>2, <3>1
    <3> HIDE DEF e
    <3>3. (m \div 2 ^ e) \div 2 = m \div 2 ^ (e + 1) /\ (y \div 2 ^ e) \div 2 = y \div 2 ^ (e + 1)
      BY <1>1, <3>2, Halves
    <3>4. Meet(e + 1)
      BY <3>2, <3>3
    <3> HIDE DEF Meet
    <3>5. Meet((I + d) + 1)
      BY <3>4 DEF e
    <3> QED BY <3>1, <3>5
  <2>3. ASSUME NEW h \in Nat, h >= I PROVE Meet(h)
    <3>1. h - I \in Nat /\ I + (h - I) = h
      BY <1>4, <2>3
    <3>2. h - I \in T
      <4> HIDE DEF T
      <4> QED BY <2>1, <2>2, <3>1, ByInduction
    <3> HIDE DEF Meet
    <3> QED BY <3>1, <3>2
  <2> QED BY <2>3
<1> QED BY <1>4, <1>5, <1>6 DEF I

\* OnesCount64 does not depend on how far the recursion may reach.
LEMMA OnesAre ==
  ASSUME NEW n \in Nat
  PROVE  Ones(n) = [i \in 0..n |-> IF i = 0 THEN 0 ELSE Ones(n)[i \div 2] + (i % 2)]
<1> DEFINE E(f) == [i \in 0..n |-> IF i = 0 THEN 0 ELSE f[i \div 2] + (i % 2)]
           P == {d \in Nat : \E g : \A i \in 0..n : i <= d => g[i] = E(g)[i]}
<1>1. 0 \in P
  <2> DEFINE g == [i \in 0..n |-> 0]
  <2>1. \A i \in 0..n : i <= 0 => g[i] = E(g)[i]
    OBVIOUS
  <2> QED BY <2>1
<1>2. ASSUME NEW d \in Nat, d \in P PROVE d + 1 \in P
  <2>1. PICK g : \A i \in 0..n : i <= d => g[i] = E(g)[i]
    BY <1>2
  <2> DEFINE h == [i \in 0..n |-> E(g)[i]]
  <2>2. ASSUME NEW i \in 0..n, i <= d + 1 PROVE h[i] = E(h)[i]
    <3>1. i # 0 => i \div 2 \in 0..n /\ i \div 2 <= d
      BY <2>2
    <3>2. i # 0 => h[i \div 2] = g[i \div 2]
      BY <3>1, <2>1
    <3> QED BY <3>2
  <2>3. \E f : \A i \in 0..n : i <= d + 1 => f[i] = E(f)[i]
    <3> HIDE DEF h, E
    <3> QED BY <2>2
  <2> QED BY <2>3
<1>3. n \in P
  <2> HIDE DEF P
  <2> QED BY <1>1, <1>2, ByInduction
<1>4. \E g : g = E(g)
  <2>1. PICK g : \A i \in 0..n : i <= n => g[i] = E(g)[i]
    BY <1>3
  <2> DEFINE h == [i \in 0..n |-> g[i]]
  <2>2. h = E(h)
    <3>1. ASSUME NEW i \in 0..n PROVE i # 0 => g[i \div 2] = h[i \div 2]
      OBVIOUS
    <3> QED BY <2>1, <3>1
  <2> QED BY <2>2
<1> QED BY <1>4 DEF Ones

LEMMA OnesCountIs ==
  ASSUME NEW n \in Nat
  PROVE  /\ OnesCount(n) \in Nat
         /\ n = 0 => OnesCount(n) = 0
         /\ n > 0 => OnesCount(n) = OnesCount(n \div 2) + (n % 2)
<1>1. ASSUME NEW k \in Nat, NEW i \in 0..k
      PROVE  Ones(k)[i] = IF i = 0 THEN 0 ELSE Ones(k)[i \div 2] + (i % 2)
  <2> DEFINE f == Ones(k)
  <2>1. f = [j \in 0..k |-> IF j = 0 THEN 0 ELSE f[j \div 2] + (j % 2)]
    BY OnesAre
  <2> HIDE DEF f
  <2>2. f[i] = IF i = 0 THEN 0 ELSE f[i \div 2] + (i % 2)
    BY <2>1
  <2> QED BY <2>2 DEF f
<1> DEFINE S == {i \in Nat : \A k, l \in Nat : i <= k /\ i <= l => Ones(k)[i] \in Nat /\ Ones(k)[i] = Ones(l)[i]}
<1>2. ASSUME NEW i \in Nat, \A j \in Nat : j < i => j \in S PROVE i \in S
  <2> SUFFICES ASSUME NEW k \in Nat, NEW l \in Nat, i <= k, i <= l
               PROVE  Ones(k)[i] \in Nat /\ Ones(k)[i] = Ones(l)[i]
    OBVIOUS
  <2>1. CASE i = 0
    BY <1>1, <2>1
  <2>2. CASE i # 0
    <3> DEFINE j == i \div 2
    <3>1. j \in Nat /\ j < i /\ j <= k /\ j <= l /\ i % 2 \in Nat
      BY <2>2
    <3>2. i \in 0..k /\ i \in 0..l
      OBVIOUS
    <3>3. Ones(k)[i] = Ones(k)[j] + (i % 2) /\ Ones(l)[i] = Ones(l)[j] + (i % 2)
      BY <1>1, <2>2, <3>2
    <3> HIDE DEF j
    <3>4. Ones(k)[j] \in Nat /\ Ones(k)[j] = Ones(l)[j]
      BY <1>2, <3>1
    <3> QED BY <3>1, <3>3, <3>4
  <2> QED BY <2>1, <2>2
<1>3. ASSUME NEW i \in Nat PROVE i \in S
  <2> HIDE DEF S
  <2> QED BY <1>2, ByStrongInduction
<1>4. OnesCount(n) \in Nat
  BY <1>3 DEF OnesCount
<1>5. n = 0 => OnesCount(n) = 0
  BY <1>1 DEF OnesCount
<1>6. ASSUME n > 0 PROVE OnesCount(n) = OnesCount(n \div 2) + (n % 2)
  <2> DEFINE j == n \div 2
  <2>1. j \in Nat /\ j <= n /\ j <= j /\ n \in 0..n
    BY <1>6
  <2>2. Ones(n)[n] = Ones(n)[j] + (n % 2)
    BY <1>1, <1>6, <2>1
  <2> HIDE DEF j
  <2>3. Ones(n)[j] = Ones(j)[j]
    BY <1>3, <2>1
  <2>4. OnesCount(n) = OnesCount(j) + (n % 2)
    BY <2>2, <2>3 DEF OnesCount
  <2> QED BY <2>4 DEF j
<1> QED BY <1>4, <1>5, <1>6

-----------------------------------------------------------------------------
(* One level up the tree: the node over leaf m, and the one beside it. *)

NodeAt(s, m, h) == Levels(s)[h][(m \div 2 ^ h) + 1]
Beside(s, m, h) == Levels(s)[h][IF Bit(m, h) = 0 THEN (m \div 2 ^ h) + 2 ELSE m \div 2 ^ h]

LEMMA Above ==
  ASSUME NEW n \in Nat, n >= 1, NEW s, Len(s) = n, NEW h \in 0..(n - 1)
  PROVE  Levels(s)[h + 1] = LevelAbove(Levels(s)[h])
<1>1. h + 1 \in 1..n /\ (h + 1) - 1 = h
  OBVIOUS
<1> QED BY <1>1, LevelsAre

LEMMA Widths ==
  ASSUME NEW n \in Nat, n >= 1, NEW s, Len(s) = n, NEW h \in 0..n
  PROVE  Nodes(Levels(s)[h], ((n - 1) \div 2 ^ h) + 1) /\ Len(Levels(s)[h]) = ((n - 1) \div 2 ^ h) + 1
<1> DEFINE Y(g) == (n - 1) \div 2 ^ g
           Good(g) == Nodes(Levels(s)[g], Y(g) + 1)
           S == {g \in Nat : g <= n => Good(g)}
<1>1. 0 \in S
  <2>1. (n - 1) \div 2 ^ 0 = n - 1 /\ (n - 1) + 1 = n
    OBVIOUS
  <2>2. Good(0)
    BY <2>1, LevelsAre, LeafHashesAre
  <2> HIDE DEF Good
  <2> QED BY <2>2
<1>2. ASSUME NEW g \in Nat, g \in S PROVE g + 1 \in S
  <2> SUFFICES ASSUME g + 1 <= n PROVE Good(g + 1)
    OBVIOUS
  <2> DEFINE y == Y(g)
  <2>1. Nodes(Levels(s)[g], y + 1)
    BY <1>2
  <2>2. y \in Nat /\ y \div 2 = Y(g + 1)
    <3>1. n - 1 \in Nat
      OBVIOUS
    <3> QED BY <3>1, Halves
  <2> HIDE DEF y
  <2>3. Nodes(LevelAbove(Levels(s)[g]), ((y + 1) + 1) \div 2)
    BY <2>1, <2>2, AboveIs
  <2>4. ((y + 1) + 1) \div 2 = (y \div 2) + 1
    BY <2>2
  <2>5. Levels(s)[g + 1] = LevelAbove(Levels(s)[g])
    BY Above
  <2> QED BY <2>2, <2>3, <2>4, <2>5
<1>3. Good(h)
  <2>1. h \in S
    <3> HIDE DEF S
    <3> QED BY <1>1, <1>2, ByInduction
  <2> HIDE DEF Good
  <2> QED BY <2>1
<1>4. Y(h) + 1 \in Nat
  <2>1. n - 1 \in Nat /\ h \in Nat
    OBVIOUS
  <2>2. Y(h) \in Nat
    BY <2>1, Halves
  <2> HIDE DEF Y
  <2> QED BY <2>2
<1> QED BY <1>3, <1>4, NodesAre

\* Below Inner every node has a neighbour; above it a node on the right edge of
\* the tree has one on its left or is promoted.
LEMMA Climb ==
  ASSUME NEW n \in Nat, n >= 1, NEW s, Len(s) = n, NEW m \in 0..(n - 1), NEW h \in 0..(n - 1)
  PROVE  /\ Bit(m, h) \in {0, 1}
         /\ Bit(m, h) = 0 /\ h < Inner(m, n) =>
              NodeAt(s, m, h + 1) = HashChildren(NodeAt(s, m, h), Beside(s, m, h))
         /\ Bit(m, h) = 0 /\ h >= Inner(m, n) => NodeAt(s, m, h + 1) = NodeAt(s, m, h)
         /\ Bit(m, h) = 1 => NodeAt(s, m, h + 1) = HashChildren(Beside(s, m, h), NodeAt(s, m, h))
<1> DEFINE x == m \div 2 ^ h
           y == (n - 1) \div 2 ^ h
           L == Levels(s)[h]
           U == Levels(s)[h + 1]
           j == (x \div 2) + 1
<1>1. m \in Nat /\ n - 1 \in Nat /\ m <= n - 1 /\ h \in Nat /\ h \in 0..n
  OBVIOUS
<1>2. x \in Nat /\ y \in Nat /\ x <= y /\ x \div 2 = m \div 2 ^ (h + 1)
  BY <1>1, Halves, HalvesInOrder
<1>3. h < Inner(m, n) => x < y
  BY <1>1, InnerIs
<1>4. h >= Inner(m, n) => x = y
  BY <1>1, InnerIs
<1>5. Bit(m, h) = x % 2 /\ NodeAt(s, m, h) = L[x + 1] /\ NodeAt(s, m, h + 1) = U[j]
      /\ Beside(s, m, h) = L[IF Bit(m, h) = 0 THEN x + 2 ELSE x]
  BY <1>2 DEF Bit, NodeAt, Beside
<1>6. Nodes(L, y + 1) /\ U = LevelAbove(L)
  BY <1>1, Widths, Above
<1> HIDE DEF x, y, L, U
<1>7. j \in 1..(((y + 1) + 1) \div 2)
  BY <1>2
<1>8. U[j] = IF 2 * j > y + 1 THEN L[2 * j - 1] ELSE HashChildren(L[2 * j - 1], L[2 * j])
  <2>1. y + 1 \in Nat
    BY <1>2
  <2> HIDE DEF j
  <2> QED BY <1>6, <1>7, <2>1, AboveIs
<1>9. x % 2 = 0 => 2 * j = x + 2 /\ 2 * j - 1 = x + 1
  BY <1>2
<1>10. x % 2 = 1 => 2 * j = x + 1 /\ 2 * j - 1 = x
  BY <1>2
<1>11. x % 2 \in {0, 1}
  BY <1>2
<1> HIDE DEF j
<1>12. CASE x % 2 = 0
  <2>1. h < Inner(m, n) => ~(2 * j > y + 1)
    BY <1>2, <1>3, <1>9, <1>12
  <2>2. h >= Inner(m, n) => 2 * j > y + 1
    BY <1>2, <1>4, <1>9, <1>12
  <2> QED BY <1>5, <1>8, <1>9, <1>11, <1>12, <2>1, <2>2
<1>13. CASE x % 2 = 1
  <2>1. ~(2 * j > y + 1)
    BY <1>2, <1>10, <1>13
  <2> QED BY <1>5, <1>8, <1>10, <1>11, <1>13, <2>1
<1> QED BY <1>11, <1>12, <1>13

\* At the top there is one node, the root.
LEMMA Top ==
  ASSUME NEW n \in Nat, n >= 1, NEW s, Len(s) = n, NEW m \in 0..(n - 1)
  PROVE  NodeAt(s, m, n) = TreeHash(s, n)
<1> DEFINE L == Levels(s)[n]
<1>1. m \div 2 ^ n = 0 /\ (n - 1) \div 2 ^ n = 0
  BY Vanishes
<1>2. Nodes(L, 1) /\ Len(L) = 1
  <2>1. ((n - 1) \div 2 ^ n) + 1 = 1 /\ n \in 0..n
    BY <1>1
  <2>2. Nodes(L, ((n - 1) \div 2 ^ n) + 1) /\ Len(L) = ((n - 1) \div 2 ^ n) + 1
    BY <2>1, Widths
  <2> HIDE DEF L
  <2> QED BY <2>1, <2>2
<1>3. Subtrees(L)[<<0, Len(L)>>] = TreeHash(s, n)
  BY LevelFacts
<1> HIDE DEF L
<1>4. Subtrees(L)[<<0, 1>>] = L[1]
  BY <1>2, SubtreeOfOne
<1>5. NodeAt(s, m, n) = L[1]
  BY <1>1 DEF NodeAt, L
<1> QED BY <1>2, <1>3, <1>4, <1>5

-----------------------------------------------------------------------------
(* How much of the proof has been folded at each level. *)

Used(m, n, h) ==
  IF h <= Inner(m, n) THEN h
  ELSE Inner(m, n) + OnesCount(m \div 2 ^ Inner(m, n)) - OnesCount(m \div 2 ^ h)

LEMMA UsedIs ==
  ASSUME NEW n \in Nat, n >= 1, NEW m \in 0..(n - 1)
  PROVE  /\ Used(m, n, 0) = 0
         /\ Used(m, n, n) = Inner(m, n) + Border(m, n)
         /\ \A h \in Nat : h <= Inner(m, n) => Used(m, n, h) = h
         /\ \A h \in Nat :
              /\ Used(m, n, h) \in Nat
              /\ h >= Inner(m, n) => Used(m, n, h) >= Inner(m, n)
              /\ Used(m, n, h) <= Inner(m, n) + Border(m, n)
              /\ Used(m, n, h + 1) = Used(m, n, h) + (IF h < Inner(m, n) THEN 1 ELSE Bit(m, h))
<1> DEFINE I == Inner(m, n)
           O(h) == OnesCount(m \div 2 ^ h)
           U(h) == Used(m, n, h)
<1>1. I \in Nat /\ I <= n /\ m \in Nat
  BY InnerIs
<1>2. ASSUME NEW h \in Nat
      PROVE  O(h) \in Nat /\ O(h) = O(h + 1) + Bit(m, h) /\ Bit(m, h) \in {0, 1}
  <2> DEFINE x == m \div 2 ^ h
  <2>1. x \in Nat /\ x \div 2 = m \div 2 ^ (h + 1) /\ Bit(m, h) = x % 2 /\ x % 2 \in {0, 1}
    BY <1>1, Halves DEF Bit
  <2> HIDE DEF x
  <2>2. OnesCount(x) = OnesCount(x \div 2) + (x % 2) /\ OnesCount(x) \in Nat
    <3>1. x = 0 => x \div 2 = 0 /\ x % 2 = 0
      OBVIOUS
    <3>2. x \div 2 \in Nat
      BY <2>1
    <3>3. OnesCount(x) \in Nat /\ OnesCount(x \div 2) \in Nat
      BY <2>1, <3>2, OnesCountIs
    <3>4. CASE x = 0
      <4>1. OnesCount(x) = 0 /\ OnesCount(x \div 2) = 0
        BY <2>1, <3>1, <3>4, OnesCountIs
      <4> QED BY <3>1, <3>4, <4>1
    <3>5. CASE x > 0
      BY <2>1, <3>3, <3>5, OnesCountIs
    <3> QED BY <2>1, <3>4, <3>5
  <2> QED BY <2>1, <2>2 DEF x
<1>3. O(n) = 0
  <2>1. m \div 2 ^ n = 0
    BY <1>1, Vanishes
  <2> QED BY <2>1, OnesCountIs
<1>4. Border(m, n) = O(I) /\ O(I) \in Nat
  BY <1>1, <1>2 DEF Border
<1>5. \A h \in Nat : U(h) = IF h <= I THEN h ELSE I + O(I) - O(h)
  BY DEF Used
<1> HIDE DEF O, U, I
<1>6. ASSUME NEW h \in Nat PROVE h >= I => O(h) <= O(I)
  <2> DEFINE S == {g \in Nat : g >= I => O(g) <= O(I)}
  <2>1. 0 \in S
    <3>1. 0 >= I => I = 0
      BY <1>1
    <3>2. O(0) \in Nat
      BY <1>2
    <3> QED BY <3>1, <3>2
  <2>2. ASSUME NEW g \in Nat, g \in S PROVE g + 1 \in S
    <3>1. O(g) \in Nat /\ O(g + 1) \in Nat /\ O(g + 1) <= O(g) /\ O(I) \in Nat
      <4>1. g + 1 \in Nat /\ O(g) \in Nat /\ O(g) = O(g + 1) + Bit(m, g) /\ Bit(m, g) \in {0, 1}
        BY <1>2
      <4>2. O(g + 1) \in Nat
        BY <1>2, <4>1
      <4> QED BY <1>4, <4>1, <4>2
    <3>2. CASE g + 1 = I
      BY <3>1, <3>2
    <3>3. CASE g + 1 > I
      BY <1>1, <2>2, <3>1, <3>3
    <3> QED BY <1>1, <3>2, <3>3
  <2>3. h \in S
    <3> HIDE DEF S
    <3> QED BY <2>1, <2>2, ByInduction
  <2> QED BY <2>3
<1>7. U(0) = 0
  BY <1>1, <1>5
<1>8. U(n) = I + O(I)
  <2>1. CASE n <= I
    <3>1. n = I
      BY <1>1, <2>1
    <3> QED BY <1>1, <1>3, <1>5, <3>1
  <2>2. CASE ~(n <= I)
    BY <1>1, <1>3, <1>4, <1>5, <2>2
  <2> QED BY <2>1, <2>2
<1>9. \A h \in Nat : h <= I => U(h) = h
  BY <1>5
<1>10. ASSUME NEW h \in Nat
       PROVE  /\ U(h) \in Nat
              /\ h >= I => U(h) >= I
              /\ U(h) <= I + O(I)
              /\ U(h + 1) = U(h) + (IF h < I THEN 1 ELSE Bit(m, h))
  <2>1. /\ O(h) \in Nat /\ O(h + 1) \in Nat /\ O(h) = O(h + 1) + Bit(m, h)
        /\ Bit(m, h) \in Int /\ O(I) \in Nat
    BY <1>2, <1>4
  <2>2. h >= I => O(h) <= O(I)
    BY <1>6
  <2>3. U(h) = (IF h <= I THEN h ELSE I + O(I) - O(h))
    BY <1>5
  <2>4. U(h + 1) = (IF h + 1 <= I THEN h + 1 ELSE I + O(I) - O(h + 1))
    BY <1>5
  <2>5. CASE h < I
    BY <1>1, <2>1, <2>3, <2>4, <2>5
  <2>6. CASE h = I
    BY <1>1, <2>1, <2>3, <2>4, <2>6
  <2>7. CASE h > I
    BY <1>1, <2>1, <2>2, <2>3, <2>4, <2>7
  <2> QED BY <1>1, <2>5, <2>6, <2>7
<1> QED BY <1>4, <1>7, <1>8, <1>9, <1>10 DEF U, I

-----------------------------------------------------------------------------
(* The fold of rootFromInclusionProof, as an equation. *)

LEMMA FoldIs ==
  ASSUME NEW leaf, NEW p, Len(p.hashes) \in Nat
  PROVE  /\ Folded(leaf, p)[0] = leaf
         /\ \A i \in 1..Len(p.hashes) :
              Folded(leaf, p)[i] =
                IF i <= Inner(p.index, p.size) /\ Bit(p.index, i - 1) = 0
                THEN HashChildren(Folded(leaf, p)[i - 1], p.hashes[i])
                ELSE HashChildren(p.hashes[i], Folded(leaf, p)[i - 1])
<1> DEFINE n == Len(p.hashes)
           Left(i) == i <= Inner(p.index, p.size) /\ Bit(p.index, i - 1) = 0
           Up(i, below) == IF Left(i) THEN HashChildren(below, p.hashes[i]) ELSE HashChildren(p.hashes[i], below)
           E(f) == [i \in 0..n |-> IF i = 0 THEN leaf ELSE Up(i, f[i - 1])]
           P == {d \in Nat : \E g : \A i \in 0..n : i <= d => g[i] = E(g)[i]}
           F == Folded(leaf, p)
<1>1. F = CHOOSE f : f = E(f)
  BY DEF Folded
<1> HIDE DEF Up, F
<1>2. 0 \in P
  <2> DEFINE g == [i \in 0..n |-> leaf]
  <2>1. \A i \in 0..n : i <= 0 => g[i] = E(g)[i]
    OBVIOUS
  <2>2. \E f : \A i \in 0..n : i <= 0 => f[i] = E(f)[i]
    <3> HIDE DEF g, E
    <3> QED BY <2>1
  <2> QED BY <2>2
<1>3. ASSUME NEW d \in Nat, d \in P PROVE d + 1 \in P
  <2>1. PICK g : \A i \in 0..n : i <= d => g[i] = E(g)[i]
    BY <1>3
  <2> DEFINE f == [i \in 0..n |-> E(g)[i]]
  <2>2. ASSUME NEW i \in 0..n, i <= d + 1 PROVE f[i] = E(f)[i]
    <3>1. CASE i = 0
      BY <3>1
    <3>2. CASE i # 0
      <4>1. i - 1 \in 0..n /\ i - 1 <= d
        BY <2>2, <3>2
      <4>2. f[i - 1] = g[i - 1]
        <5>1. f[i - 1] = E(g)[i - 1]
          BY <4>1
        <5> HIDE DEF f, E
        <5> QED BY <2>1, <4>1, <5>1
      <4>3. f[i] = Up(i, g[i - 1]) /\ E(f)[i] = Up(i, f[i - 1])
        BY <3>2
      <4> HIDE DEF f, E
      <4> QED BY <4>2, <4>3
    <3> QED BY <3>1, <3>2
  <2>3. \E k : \A i \in 0..n : i <= d + 1 => k[i] = E(k)[i]
    <3> HIDE DEF f, E
    <3> QED BY <2>2
  <2> HIDE DEF E
  <2> QED BY <2>3
<1>4. n \in P
  <2> HIDE DEF P
  <2> QED BY <1>2, <1>3, ByInduction
<1>5. \E f : f = E(f)
  <2>1. PICK g : \A i \in 0..n : i <= n => g[i] = E(g)[i]
    BY <1>4
  <2> DEFINE f == [i \in 0..n |-> g[i]]
  <2>2. ASSUME NEW i \in 0..n PROVE f[i] = E(f)[i]
    <3>1. f[i] = g[i] /\ g[i] = E(g)[i]
      <4>1. f[i] = g[i] /\ i <= n
        OBVIOUS
      <4> HIDE DEF f, E
      <4> QED BY <2>1, <4>1
    <3>2. CASE i = 0
      BY <3>1, <3>2
    <3>3. CASE i # 0
      <4>1. f[i - 1] = g[i - 1]
        BY <3>3
      <4>2. E(g)[i] = Up(i, g[i - 1]) /\ E(f)[i] = Up(i, f[i - 1])
        BY <3>3
      <4> HIDE DEF f, E
      <4> QED BY <3>1, <4>1, <4>2
    <3> QED BY <3>2, <3>3
  <2>3. f = [i \in 0..n |-> f[i]] /\ E(f) = [i \in 0..n |-> E(f)[i]]
    OBVIOUS
  <2>4. f = E(f)
    <3> HIDE DEF f, E
    <3> QED BY <2>2, <2>3
  <2> QED BY <2>4
<1>6. F = E(F)
  <2> HIDE DEF E
  <2> QED BY <1>1, <1>5
<1>7. E(F)[0] = leaf /\ \A i \in 1..n : E(F)[i] = Up(i, F[i - 1])
  OBVIOUS
<1>8. F[0] = leaf /\ \A i \in 1..n : F[i] = Up(i, F[i - 1])
  <2> HIDE DEF E
  <2> QED BY <1>6, <1>7
<1> QED BY <1>8 DEF F, Up

\* Fold and tree climb side by side: a step of the fold for each level at which
\* the node is not promoted, and on the side where the node is.
LEMMA StepOfFold ==
  ASSUME NEW n \in Nat, n >= 1, NEW s, Len(s) = n, NEW leaf, NEW p, p.size = n, WellFormedProof(p),
         NEW h \in 0..(n - 1)
  PROVE  LET m == p.index
             u == Used(m, n, h)
             w == Used(m, n, h + 1)
             F == Folded(leaf, p)
         IN \/ w = u /\ NodeAt(s, m, h + 1) = NodeAt(s, m, h)
            \/ /\ w = u + 1 /\ w \in 1..Len(p.hashes)
               /\ \/ /\ F[w] = HashChildren(F[u], p.hashes[w])
                     /\ NodeAt(s, m, h + 1) = HashChildren(NodeAt(s, m, h), Beside(s, m, h))
                  \/ /\ F[w] = HashChildren(p.hashes[w], F[u])
                     /\ NodeAt(s, m, h + 1) = HashChildren(Beside(s, m, h), NodeAt(s, m, h))
<1> DEFINE m == p.index
           u == Used(m, n, h)
           w == Used(m, n, h + 1)
           F == Folded(leaf, p)
           I == Inner(m, n)
           Left(i) == i <= I /\ Bit(m, i - 1) = 0
<1>1. m \in 0..(n - 1) /\ Len(p.hashes) = I + Border(m, n)
  BY DEF WellFormedProof
<1>2. /\ u \in Nat /\ w \in Nat /\ w <= I + Border(m, n) /\ I \in Nat
      /\ h <= I => u = h
      /\ h >= I => u >= I
      /\ w = u + (IF h < I THEN 1 ELSE Bit(m, h))
  <2>1. h \in Nat /\ h + 1 \in Nat
    OBVIOUS
  <2>2. I \in Nat
    BY <1>1, InnerIs
  <2> QED BY <1>1, <2>1, <2>2, UsedIs
<1>3. Len(p.hashes) \in Nat
  <2>1. Border(m, n) \in Nat
    <3>1. m \in Nat /\ I \in Nat
      BY <1>1, <1>2
    <3>2. m \div 2 ^ I \in Nat
      BY <3>1, Halves
    <3> QED BY <3>2, OnesCountIs DEF Border
  <2> QED BY <1>1, <1>2, <2>1
<1>4. \A i \in 1..Len(p.hashes) :
        F[i] = IF Left(i) THEN HashChildren(F[i - 1], p.hashes[i]) ELSE HashChildren(p.hashes[i], F[i - 1])
  BY <1>3, FoldIs
<1>5. /\ Bit(m, h) \in {0, 1}
      /\ Bit(m, h) = 0 /\ h < I => NodeAt(s, m, h + 1) = HashChildren(NodeAt(s, m, h), Beside(s, m, h))
      /\ Bit(m, h) = 0 /\ h >= I => NodeAt(s, m, h + 1) = NodeAt(s, m, h)
      /\ Bit(m, h) = 1 => NodeAt(s, m, h + 1) = HashChildren(Beside(s, m, h), NodeAt(s, m, h))
  BY <1>1, Climb
<1> HIDE DEF m, u, w, F, I
<1>6. CASE h < I
  <2>1. w = u + 1 /\ u = h /\ w \in 1..Len(p.hashes) /\ w <= I /\ w - 1 = h
    BY <1>1, <1>2, <1>6
  <2>2. F[w] = IF Bit(m, h) = 0 THEN HashChildren(F[u], p.hashes[w]) ELSE HashChildren(p.hashes[w], F[u])
    BY <1>4, <2>1
  <2> QED BY <1>5, <1>6, <2>1, <2>2 DEF m, u, w, F
<1>7. CASE h >= I /\ Bit(m, h) = 0
  <2>1. w = u
    BY <1>2, <1>7
  <2> QED BY <1>5, <1>7, <2>1 DEF m, u, w
<1>8. CASE h >= I /\ Bit(m, h) = 1
  <2>1. w = u + 1 /\ w > I /\ w \in 1..Len(p.hashes) /\ w - 1 = u
    BY <1>1, <1>2, <1>8
  <2>2. F[w] = HashChildren(p.hashes[w], F[u])
    BY <1>2, <1>4, <2>1
  <2> QED BY <1>5, <1>8, <2>1, <2>2 DEF m, u, w, F
<1> QED BY <1>2, <1>5, <1>6, <1>7, <1>8

-----------------------------------------------------------------------------
(* What is accepted is what the log holds. *)

\* An inclusion proof that is accepted against the root and the size of a log
\* is about the leaf the log has at that index, whatever its hashes.
THEOREM InclusionNamesLeaf ==
  ASSUME NEW B, NEW n \in Nat, n >= 1, NEW s \in [1..n -> Seq(B)], NEW body \in Seq(B),
         NEW p, p.size = n, p.root = TreeHash(s, n), VerifyInclusion(body, p)
  PROVE  p.index \in 0..(n - 1) /\ body = s[p.index + 1]
<1> DEFINE m == p.index
           F == Folded(LeafHash(body), p)
           S == {d \in Nat : d <= n => F[Used(m, n, n - d)] = NodeAt(s, m, n - d)}
<1>1. WellFormedProof(p) /\ F[Len(p.hashes)] = TreeHash(s, n)
  BY DEF VerifyInclusion, RootFromInclusionProof
<1>2. m \in 0..(n - 1) /\ Len(p.hashes) = Inner(m, n) + Border(m, n) /\ Len(s) = n
  BY <1>1 DEF WellFormedProof
<1>3. 0 \in S
  <2>1. Used(m, n, n) = Len(p.hashes)
    BY <1>2, UsedIs
  <2>2. NodeAt(s, m, n) = TreeHash(s, n)
    BY <1>2, Top
  <2>3. n - 0 = n
    OBVIOUS
  <2> HIDE DEF F
  <2> QED BY <1>1, <2>1, <2>2, <2>3
<1>4. ASSUME NEW d \in Nat, d \in S PROVE d + 1 \in S
  <2> SUFFICES ASSUME d + 1 <= n
               PROVE  F[Used(m, n, n - (d + 1))] = NodeAt(s, m, n - (d + 1))
    OBVIOUS
  <2> DEFINE h == n - (d + 1)
  <2>1. h \in 0..(n - 1) /\ n - d = h + 1
    OBVIOUS
  <2>2. F[Used(m, n, n - d)] = NodeAt(s, m, n - d)
    BY <1>4
  <2> HIDE DEF h, F
  <2>3. F[Used(m, n, h + 1)] = NodeAt(s, m, h + 1)
    BY <2>1, <2>2
  <2>4. F[Used(m, n, h)] = NodeAt(s, m, h)
    <3> DEFINE u == Used(m, n, h)
               w == Used(m, n, h + 1)
    <3>1. \/ w = u /\ NodeAt(s, m, h + 1) = NodeAt(s, m, h)
          \/ \/ /\ F[w] = HashChildren(F[u], p.hashes[w])
                /\ NodeAt(s, m, h + 1) = HashChildren(NodeAt(s, m, h), Beside(s, m, h))
             \/ /\ F[w] = HashChildren(p.hashes[w], F[u])
                /\ NodeAt(s, m, h + 1) = HashChildren(Beside(s, m, h), NodeAt(s, m, h))
      BY <1>1, <1>2, <2>1, StepOfFold DEF F
    <3> HIDE DEF u, w
    <3>2. F[w] = NodeAt(s, m, h + 1)
      BY <2>3 DEF w
    <3>3. F[u] = NodeAt(s, m, h)
      BY <3>1, <3>2, ChildrenAreFree
    <3> QED BY <3>3 DEF u
  <2> QED BY <2>4 DEF h
<1>5. n \in S
  <2> HIDE DEF S
  <2> QED BY <1>3, <1>4, ByInduction
<1>6. F[Used(m, n, n - n)] = NodeAt(s, m, n - n) /\ n - n = 0
  BY <1>5
<1>7. Used(m, n, 0) = 0
  BY <1>2, UsedIs
<1>8. F[0] = LeafHash(body)
  <2>1. Len(p.hashes) \in Nat
    <3>1. Used(m, n, n) = Len(p.hashes) /\ Used(m, n, n) \in Nat
      BY <1>2, UsedIs
    <3> QED BY <3>1
  <2> QED BY <2>1, FoldIs
<1>9. NodeAt(s, m, 0) = LeafHash(s[m + 1])
  <2>1. m \div 2 ^ 0 = m /\ m + 1 \in 1..n
    BY <1>2
  <2>2. Levels(s)[0] = LeafHashes(s, n)
    BY <1>2, LevelsAre
  <2>3. LeafHashes(s, n)[m + 1] = LeafHash(s[m + 1])
    BY <2>1, LeafHashesAre
  <2> QED BY <2>1, <2>2, <2>3 DEF NodeAt
<1>10. LeafHash(body) = LeafHash(s[m + 1])
  <2> HIDE DEF F
  <2> QED BY <1>6, <1>7, <1>8, <1>9
<1>11. s[m + 1] \in Seq(B)
  BY <1>2
<1> QED BY <1>2, <1>10, <1>11, LeavesAreFree

-----------------------------------------------------------------------------
(* The audit path an honest log gives, level by level. *)

\* Names the provers leave alone.
Snoc(s, e) == Append(s, e)
Join(a, b) == a \o b

\* The recursion of RFC 6962's audit path, as an equation.
LEMMA PathsAre ==
  ASSUME NEW n \in Nat, NEW L, Nodes(L, n), NEW m, NEW lo \in 0..n, NEW hi \in 0..n, NEW k, k = Split(hi - lo)
  PROVE  /\ hi - lo <= 1 => PathsUp(L, m)[<<lo, hi>>] = << >>
         /\ hi - lo > 1 /\ m < lo + k =>
              PathsUp(L, m)[<<lo, hi>>] = Snoc(PathsUp(L, m)[<<lo, lo + k>>], Subtrees(L)[<<lo + k, hi>>])
         /\ hi - lo > 1 /\ ~(m < lo + k) =>
              PathsUp(L, m)[<<lo, hi>>] = Snoc(PathsUp(L, m)[<<lo + k, hi>>], Subtrees(L)[<<lo, lo + k>>])
<1> DEFINE D == (0..n) \X (0..n)
           None == << >>
           Up(r, x, y) ==
             IF m < r[1] + Split(r[2] - r[1])
             THEN Snoc(x, Subtrees(L)[<<r[1] + Split(r[2] - r[1]), r[2]>>])
             ELSE Snoc(y, Subtrees(L)[<<r[1], r[1] + Split(r[2] - r[1])>>])
           E(f) == [r \in D |-> IF r[2] - r[1] <= 1 THEN None
                                 ELSE Up(r, f[<<r[1], r[1] + Split(r[2] - r[1])>>],
                                            f[<<r[1] + Split(r[2] - r[1]), r[2]>>])]
           P == {d \in Nat : \E g : \A r \in D : r[2] - r[1] <= d => g[r] = E(g)[r]}
           F == PathsUp(L, m)
<1>0. F = CHOOSE f : f = E(f)
  <2>1. Len(L) = n
    BY NodesAre
  <2> QED BY <2>1 DEF PathsUp, Snoc
<1> HIDE DEF Up, F, None
<1>1. 0 \in P
  <2> DEFINE g == [r \in D |-> None]
  <2>1. \A r \in D : r[2] - r[1] <= 0 => g[r] = E(g)[r]
    OBVIOUS
  <2>2. \E h : \A r \in D : r[2] - r[1] <= 0 => h[r] = E(h)[r]
    <3> HIDE DEF D, E, g
    <3> QED BY <2>1
  <2> QED BY <2>2
<1>2. ASSUME NEW r \in D, r[2] - r[1] > 1
      PROVE  LET c == Split(r[2] - r[1])
             IN /\ <<r[1], r[1] + c>> \in D /\ <<r[1] + c, r[2]>> \in D
                /\ r[1] + c - r[1] < r[2] - r[1] /\ r[2] - (r[1] + c) < r[2] - r[1] /\ c \in Int
  <2>1. r[1] \in 0..n /\ r[2] \in 0..n
    OBVIOUS
  <2>2. r[2] - r[1] \in Nat /\ r[2] - r[1] >= 2
    BY <1>2, <2>1
  <2>3. Split(r[2] - r[1]) \in 1..(r[2] - r[1] - 1)
    BY <2>2, SplitFacts
  <2> QED BY <2>1, <2>3
<1>3. ASSUME NEW d \in Nat, d \in P PROVE d + 1 \in P
  <2>1. PICK g : \A r \in D : r[2] - r[1] <= d => g[r] = E(g)[r]
    BY <1>3
  <2> DEFINE h == [r \in D |-> E(g)[r]]
  <2>2. \A r \in D : h[r] = E(g)[r]
    OBVIOUS
  <2>3. ASSUME NEW r \in D, r[2] - r[1] <= d + 1 PROVE h[r] = E(h)[r]
    <3>1. CASE r[2] - r[1] <= 1
      BY <3>1
    <3>2. CASE r[2] - r[1] > 1
      <4> DEFINE c == Split(r[2] - r[1])
                 a == <<r[1], r[1] + c>>
                 b == <<r[1] + c, r[2]>>
      <4>1. a \in D /\ b \in D /\ a[2] - a[1] <= d /\ b[2] - b[1] <= d
        <5>1. r[1] \in 0..n /\ r[2] \in 0..n
          OBVIOUS
        <5>2. a \in D /\ b \in D /\ r[1] + c - r[1] < r[2] - r[1] /\ r[2] - (r[1] + c) < r[2] - r[1] /\ c \in Int
          BY <1>2, <3>2
        <5>3. r[1] + c - r[1] <= d /\ r[2] - (r[1] + c) <= d
          <6> HIDE DEF c
          <6> QED BY <2>3, <5>1, <5>2
        <5> QED BY <5>2, <5>3
      <4>2. h[a] = g[a] /\ h[b] = g[b]
        <5> HIDE DEF h, a, b, E, D
        <5> QED BY <2>1, <2>2, <4>1
      <4>3. E(h)[r] = Up(r, h[a], h[b]) /\ E(g)[r] = Up(r, g[a], g[b])
        BY <3>2
      <4> HIDE DEF h, a, b, E, D
      <4> QED BY <2>2, <4>2, <4>3
    <3> QED BY <3>1, <3>2
  <2>4. \E f : \A r \in D : r[2] - r[1] <= d + 1 => f[r] = E(f)[r]
    <3> HIDE DEF h, E, D
    <3> QED BY <2>3
  <2> HIDE DEF E, D
  <2> QED BY <2>4
<1>4. n \in P
  <2> HIDE DEF P
  <2> QED BY <1>1, <1>3, ByInduction
<1>5. \E f : f = E(f)
  <2>1. PICK g : \A r \in D : r[2] - r[1] <= n => g[r] = E(g)[r]
    BY <1>4
  <2>2. \A r \in D : g[r] = E(g)[r]
    BY <2>1
  <2> DEFINE h == [r \in D |-> g[r]]
  <2>3. \A r \in D : h[r] = g[r]
    OBVIOUS
  <2>4. ASSUME NEW r \in D PROVE E(h)[r] = E(g)[r]
    <3>1. CASE r[2] - r[1] > 1
      <4> DEFINE c == Split(r[2] - r[1])
                 a == <<r[1], r[1] + c>>
                 b == <<r[1] + c, r[2]>>
      <4>1. a \in D /\ b \in D
        BY <1>2, <3>1
      <4>2. h[a] = g[a] /\ h[b] = g[b]
        <5> HIDE DEF a, b, D
        <5> QED BY <4>1
      <4>3. E(h)[r] = Up(r, h[a], h[b]) /\ E(g)[r] = Up(r, g[a], g[b])
        BY <3>1
      <4> HIDE DEF h, a, b, E, D
      <4> QED BY <4>2, <4>3
    <3>2. CASE ~(r[2] - r[1] > 1)
      <4>1. r[2] - r[1] <= 1
        BY <3>2
      <4> QED BY <4>1
    <3> QED BY <3>1, <3>2
  <2>5. h = E(h)
    <3>1. E(h) = [r \in D |-> E(h)[r]]
      OBVIOUS
    <3>2. \A r \in D : h[r] = E(h)[r]
      <4> HIDE DEF h, E, D
      <4> QED BY <2>2, <2>3, <2>4
    <3>3. h = [r \in D |-> h[r]]
      OBVIOUS
    <3> HIDE DEF h, E, D
    <3> QED BY <3>1, <3>2, <3>3
  <2> QED BY <2>5
<1>6. F = E(F)
  <2> HIDE DEF E
  <2> QED BY <1>0, <1>5
<1>7. <<lo, hi>> \in D
  OBVIOUS
<1>8. E(F)[<<lo, hi>>] = IF hi - lo <= 1 THEN None
                         ELSE Up(<<lo, hi>>, F[<<lo, lo + Split(hi - lo)>>], F[<<lo + Split(hi - lo), hi>>])
  BY <1>7
<1>9. F[<<lo, hi>>] = E(F)[<<lo, hi>>]
  <2> HIDE DEF E
  <2> QED BY <1>6
<1> HIDE DEF E
<1>10. F[<<lo, hi>>] = IF hi - lo <= 1 THEN None
                       ELSE Up(<<lo, hi>>, F[<<lo, lo + Split(hi - lo)>>], F[<<lo + Split(hi - lo), hi>>])
  BY <1>8, <1>9
<1>11. hi - lo <= 1 => F[<<lo, hi>>] = None
  BY <1>10
<1>12. hi - lo > 1 => F[<<lo, hi>>] = Up(<<lo, hi>>, F[<<lo, lo + k>>], F[<<lo + k, hi>>])
  <2>1. hi - lo > 1 => ~(hi - lo <= 1)
    OBVIOUS
  <2> QED BY <1>10, <2>1
<1>13. m < lo + k => Up(<<lo, hi>>, F[<<lo, lo + k>>], F[<<lo + k, hi>>])
                     = Snoc(F[<<lo, lo + k>>], Subtrees(L)[<<lo + k, hi>>])
  BY DEF Up
<1>14. ~(m < lo + k) => Up(<<lo, hi>>, F[<<lo, lo + k>>], F[<<lo + k, hi>>])
                        = Snoc(F[<<lo + k, hi>>], Subtrees(L)[<<lo, lo + k>>])
  BY DEF Up
<1> QED BY <1>11, <1>12, <1>13, <1>14 DEF F, None

LEMMA PathOfOne ==
  ASSUME NEW n \in Nat, NEW L, Nodes(L, n), NEW m, NEW lo \in 0..n, NEW hi \in 0..n, hi - lo <= 1
  PROVE  PathsUp(L, m)[<<lo, hi>>] = << >>
<1> DEFINE k == Split(hi - lo)
<1> HIDE DEF k
<1>1. k = Split(hi - lo)
  BY DEF k
<1> QED BY <1>1, PathsAre

LEMMA PathOfLeft ==
  ASSUME NEW n \in Nat, NEW L, Nodes(L, n), NEW m, NEW lo \in 0..n, NEW hi \in 0..n, hi - lo > 1,
         m < lo + Split(hi - lo)
  PROVE  PathsUp(L, m)[<<lo, hi>>] =
           Snoc(PathsUp(L, m)[<<lo, lo + Split(hi - lo)>>], Subtrees(L)[<<lo + Split(hi - lo), hi>>])
<1> DEFINE k == Split(hi - lo)
<1> HIDE DEF k
<1>1. k = Split(hi - lo)
  BY DEF k
<1>2. PathsUp(L, m)[<<lo, hi>>] = Snoc(PathsUp(L, m)[<<lo, lo + k>>], Subtrees(L)[<<lo + k, hi>>])
  BY <1>1, PathsAre
<1> QED BY <1>1, <1>2

LEMMA PathOfRight ==
  ASSUME NEW n \in Nat, NEW L, Nodes(L, n), NEW m, NEW lo \in 0..n, NEW hi \in 0..n, hi - lo > 1,
         ~(m < lo + Split(hi - lo))
  PROVE  PathsUp(L, m)[<<lo, hi>>] =
           Snoc(PathsUp(L, m)[<<lo + Split(hi - lo), hi>>], Subtrees(L)[<<lo, lo + Split(hi - lo)>>])
<1> DEFINE k == Split(hi - lo)
<1> HIDE DEF k
<1>1. k = Split(hi - lo)
  BY DEF k
<1>2. PathsUp(L, m)[<<lo, hi>>] = Snoc(PathsUp(L, m)[<<lo + k, hi>>], Subtrees(L)[<<lo, lo + k>>])
  BY <1>1, PathsAre
<1> QED BY <1>1, <1>2

LEMMA SnocTyped ==
  ASSUME NEW V, NEW a \in Seq(V), NEW e \in V
  PROVE  Snoc(a, e) \in Seq(V)
BY DEF Snoc

LEMMA SnocLast ==
  ASSUME NEW V, NEW a \in Seq(V), NEW b \in Seq(V), NEW e \in V
  PROVE  Snoc(Join(a, b), e) = Join(a, Snoc(b, e))
BY DEF Snoc, Join

\* The hashes of the nodes over a level.
Hashes(L, n) == {Subtrees(L)[r] : r \in {x \in (0..n) \X (0..n) : x[1] < x[2]}}

LEMMA PathsTyped ==
  ASSUME NEW n \in Nat, NEW L, Nodes(L, n), NEW m \in Nat, NEW lo \in 0..n, NEW hi \in 0..n, lo < hi
  PROVE  PathsUp(L, m)[<<lo, hi>>] \in Seq(Hashes(L, n))
<1> DEFINE V == Hashes(L, n)
           PL == PathsUp(L, m)
           SL == Subtrees(L)
           S == {d \in Nat : \A i, j \in 0..n : i < j /\ j - i = d => PL[<<i, j>>] \in Seq(V)}
<1>1. ASSUME NEW i \in 0..n, NEW j \in 0..n, i < j PROVE SL[<<i, j>>] \in V
  <2>1. <<i, j>> \in {x \in (0..n) \X (0..n) : x[1] < x[2]}
    BY <1>1
  <2> QED BY <2>1 DEF Hashes
<1>2. ASSUME NEW d \in Nat, \A e \in Nat : e < d => e \in S PROVE d \in S
  <2> SUFFICES ASSUME NEW i \in 0..n, NEW j \in 0..n, i < j, j - i = d PROVE PL[<<i, j>>] \in Seq(V)
    OBVIOUS
  <2>1. CASE d <= 1
    <3>1. PL[<<i, j>>] = << >>
      BY <2>1, PathOfOne
    <3> HIDE DEF PL, V
    <3> QED BY <3>1
  <2>2. CASE d > 1
    <3> DEFINE k == Split(j - i)
    <3>1. k \in 1..(d - 1)
      <4>1. j - i \in Nat /\ j - i >= 2
        BY <2>2
      <4> QED BY <4>1, SplitFacts
    <3>2. \/ PL[<<i, j>>] = Snoc(PL[<<i, i + k>>], SL[<<i + k, j>>])
          \/ PL[<<i, j>>] = Snoc(PL[<<i + k, j>>], SL[<<i, i + k>>])
      <4>1. j - i > 1
        BY <2>2
      <4>2. CASE m < i + k
        BY <4>1, <4>2, PathOfLeft
      <4>3. CASE ~(m < i + k)
        BY <4>1, <4>3, PathOfRight
      <4> HIDE DEF PL, SL, k
      <4> QED BY <4>2, <4>3
    <3> HIDE DEF k
    <3>3. i + k \in 0..n /\ i < i + k /\ i + k < j /\ (i + k) - i = k /\ j - (i + k) = d - k
          /\ k \in Nat /\ k < d /\ d - k \in Nat /\ d - k < d
      BY <3>1
    <3>4. SL[<<i, i + k>>] \in V /\ SL[<<i + k, j>>] \in V
      BY <1>1, <3>3
    <3>5. k \in S /\ d - k \in S
      <4> HIDE DEF S
      <4> QED BY <1>2, <3>3
    <3> HIDE DEF PL, SL, V
    <3>6. PL[<<i, i + k>>] \in Seq(V) /\ PL[<<i + k, j>>] \in Seq(V)
      BY <3>3, <3>5
    <3> QED BY <3>2, <3>4, <3>6, SnocTyped
  <2> QED BY <2>1, <2>2
<1>3. hi - lo \in S
  <2> HIDE DEF S
  <2> QED BY <1>2, ByStrongInduction
<1>4. hi - lo \in Nat
  OBVIOUS
<1> HIDE DEF PL, V
<1>5. PL[<<lo, hi>>] \in Seq(V)
  BY <1>3
<1> QED BY <1>5 DEF PL, V

\* What the path of node m + 1 of a level of n begins with: its neighbour, if it
\* has one.
Aside(L, n, m) == IF m % 2 = 0 /\ m = n - 1 THEN << >> ELSE <<L[IF m % 2 = 0 THEN m + 2 ELSE m]>>

LEMMA PathsOfAbove ==
  ASSUME NEW n \in Nat, n >= 1, NEW L, Nodes(L, n), NEW m \in 0..(n - 1),
         NEW lo \in 0..((n + 1) \div 2), NEW hi \in 0..((n + 1) \div 2), lo <= m \div 2, m \div 2 < hi
  PROVE  PathsUp(L, m)[<<2 * lo, End(n, hi)>>] =
           Join(Aside(L, n, m), PathsUp(LevelAbove(L), m \div 2)[<<lo, hi>>])
<1> DEFINE w == (n + 1) \div 2
           x == m \div 2
           U == LevelAbove(L)
           SL == Subtrees(L)
           SU == Subtrees(U)
           PL == PathsUp(L, m)
           PU == PathsUp(U, x)
           A == Aside(L, n, m)
           S == {d \in Nat : \A i, j \in 0..w : i <= x /\ x < j /\ j - i = d
                               => PL[<<2 * i, End(n, j)>>] = Join(A, PU[<<i, j>>])}
<1>1. w \in Nat /\ 2 * w >= n /\ 2 * w <= n + 1 /\ x \in Nat /\ (m = 2 * x \/ m = 2 * x + 1) /\ m \in Nat
  OBVIOUS
<1>2. Nodes(U, w)
  BY AboveIs
<1>3. (m % 2 = 0 <=> m = 2 * x) /\ (m % 2 = 0 \/ m % 2 = 1)
  BY <1>1
<1>4. ASSUME NEW i \in 0..w, NEW j \in 0..w, i <= x, x < j, j - i = 1
      PROVE  PL[<<2 * i, End(n, j)>>] = Join(A, PU[<<i, j>>])
  <2>1. i = x /\ j = x + 1
    BY <1>1, <1>4
  <2>2. PU[<<i, j>>] = << >>
    BY <1>1, <1>2, <1>4, PathOfOne
  <2>3. PL[<<2 * i, End(n, j)>>] = A
    <3>1. 2 * i \in 0..n /\ End(n, j) \in 0..n
      BY <1>1, <1>4 DEF End
    <3>5. ASSUME NEW lower \in 0..n, NEW upper \in 0..n, upper - lower <= 1
          PROVE  SL[<<lower, upper>>] = L[upper] /\ PL[<<lower, upper>>] = << >>
      <4>1. SL[<<lower, upper>>] = L[upper]
        BY <3>5, SubtreeOfOne
      <4>2. PL[<<lower, upper>>] = << >>
        BY <3>5, <1>1, PathOfOne
      <4> QED BY <4>1, <4>2
    <3>2. CASE 2 * j > n
      <4>1. End(n, j) = n /\ n - 2 * i = 1 /\ m = n - 1 /\ m % 2 = 0
        BY <1>1, <2>1, <3>2 DEF End
      <4>2. PL[<<2 * i, n>>] = << >>
        <5>1. n \in 0..n /\ n - 2 * i <= 1
          BY <4>1
        <5> HIDE DEF PL, SL
        <5> QED BY <3>1, <3>5, <5>1
      <4>3. A = << >>
        BY <4>1 DEF Aside
      <4> HIDE DEF PL, A
      <4> QED BY <4>1, <4>2, <4>3
    <3>3. CASE 2 * j <= n
      <4>1. End(n, j) = 2 * j /\ 2 * j = 2 * i + 2 /\ 2 * i + 1 \in 0..n /\ 2 * j \in 0..n /\ ~(2 * j - 2 * i <= 1)
            /\ 2 * j - 2 * i = 2 /\ 2 * j - (2 * i + 1) = 1 /\ (2 * i + 1) - 2 * i = 1
        BY <1>1, <2>1, <3>1, <3>3 DEF End
      <4>2. /\ m < 2 * i + 1 =>
                 PL[<<2 * i, 2 * j>>] = Snoc(PL[<<2 * i, 2 * i + 1>>], SL[<<2 * i + 1, 2 * j>>])
            /\ ~(m < 2 * i + 1) =>
                 PL[<<2 * i, 2 * j>>] = Snoc(PL[<<2 * i + 1, 2 * j>>], SL[<<2 * i, 2 * i + 1>>])
        <5>1. Split(2 * j - 2 * i) = 1 /\ 2 * j - 2 * i > 1
          BY <4>1, SplitOfTwo
        <5>2. CASE m < 2 * i + 1
          BY <1>1, <3>1, <4>1, <5>1, <5>2, PathOfLeft
        <5>3. CASE ~(m < 2 * i + 1)
          BY <1>1, <3>1, <4>1, <5>1, <5>3, PathOfRight
        <5> HIDE DEF PL, SL
        <5> QED BY <5>2, <5>3
      <4>3. PL[<<2 * i, 2 * i + 1>>] = << >> /\ PL[<<2 * i + 1, 2 * j>>] = << >>
        <5>1. 2 * j - (2 * i + 1) <= 1 /\ (2 * i + 1) - 2 * i <= 1
          BY <4>1
        <5> HIDE DEF PL, SL
        <5> QED BY <3>1, <3>5, <4>1, <5>1
      <4>4. SL[<<2 * i, 2 * i + 1>>] = L[2 * i + 1] /\ SL[<<2 * i + 1, 2 * j>>] = L[2 * j]
        <5>1. 2 * j - (2 * i + 1) <= 1 /\ (2 * i + 1) - 2 * i <= 1
          BY <4>1
        <5> HIDE DEF PL, SL
        <5> QED BY <3>1, <3>5, <4>1, <5>1
      <4>5. CASE m % 2 = 0
        <5>1. m < 2 * i + 1 /\ m # n - 1 /\ m + 2 = 2 * j
          BY <1>1, <1>3, <2>1, <3>3, <4>5
        <5>2. PL[<<2 * i, 2 * j>>] = Snoc(<< >>, L[2 * j])
          BY <4>2, <4>3, <4>4, <5>1
        <5>3. A = <<L[2 * j]>>
          BY <4>5, <5>1 DEF Aside
        <5>4. Snoc(<< >>, L[2 * j]) = <<L[2 * j]>>
          BY DEF Snoc
        <5> HIDE DEF PL, A
        <5> QED BY <4>1, <5>2, <5>3, <5>4
      <4>6. CASE m % 2 = 1
        <5>1. ~(m < 2 * i + 1) /\ m = 2 * i + 1
          BY <1>1, <1>3, <2>1, <4>6
        <5>2. PL[<<2 * i, 2 * j>>] = Snoc(<< >>, L[2 * i + 1])
          BY <4>2, <4>3, <4>4, <5>1
        <5>3. A = <<L[m]>>
          BY <4>6 DEF Aside
        <5>4. Snoc(<< >>, L[m]) = <<L[m]>>
          BY DEF Snoc
        <5> HIDE DEF PL, A
        <5> QED BY <4>1, <5>1, <5>2, <5>3, <5>4
      <4> HIDE DEF PL, A
      <4> QED BY <1>3, <4>5, <4>6
    <3>4. 2 * j > n \/ 2 * j <= n
      OBVIOUS
    <3> HIDE DEF PL, A
    <3> QED BY <3>2, <3>3, <3>4
  <2>4. Join(A, << >>) = A
    <3> DEFINE V == {L[m], L[m + 2]}
    <3>1. L[m] \in V /\ L[m + 2] \in V
      OBVIOUS
    <3> HIDE DEF V
    <3>2. A \in Seq(V)
      BY <3>1 DEF Aside
    <3> HIDE DEF A
    <3> QED BY <3>2 DEF Join
  <2> HIDE DEF PL, PU, A
  <2> QED BY <2>2, <2>3, <2>4
<1>5. ASSUME NEW d \in Nat, \A e \in Nat : e < d => e \in S PROVE d \in S
  <2> SUFFICES ASSUME NEW i \in 0..w, NEW j \in 0..w, i <= x, x < j, j - i = d
               PROVE  PL[<<2 * i, End(n, j)>>] = Join(A, PU[<<i, j>>])
    OBVIOUS
  <2>1. CASE d = 1
    BY <1>4, <2>1
  <2>2. CASE d >= 2
    <3> DEFINE k == Split(d)
    <3>1. k \in 1..(d - 1)
      BY <2>2, SplitFacts
    <3>2. /\ x < i + k => PU[<<i, j>>] = Snoc(PU[<<i, i + k>>], SU[<<i + k, j>>])
          /\ ~(x < i + k) => PU[<<i, j>>] = Snoc(PU[<<i + k, j>>], SU[<<i, i + k>>])
      <4>1. j - i > 1 /\ k = Split(j - i)
        BY <2>2
      <4>2. CASE x < i + k
        BY <1>1, <1>2, <4>1, <4>2, PathOfLeft
      <4>3. CASE ~(x < i + k)
        BY <1>1, <1>2, <4>1, <4>3, PathOfRight
      <4> HIDE DEF PU, SU, x, k
      <4> QED BY <4>2, <4>3
    <3> HIDE DEF k
    <3>3. i + k \in 0..w /\ i < i + k /\ i + k < j /\ (i + k) - i = k /\ j - (i + k) = d - k
          /\ k \in Nat /\ k < d /\ d - k \in Nat /\ d - k < d
      BY <3>1
    <3>4. 2 * i \in 0..n /\ End(n, j) \in 0..n /\ 2 * i + 2 * k = 2 * (i + k) /\ End(n, i + k) = 2 * (i + k)
      BY <1>1, <3>1, <3>3 DEF End
    <3>5. End(n, j) - 2 * i \in {2 * d, 2 * d - 1}
      BY <1>1 DEF End
    <3>6. Split(End(n, j) - 2 * i) = 2 * k
      BY <2>2, <3>5, SplitHalves DEF k
    <3>7. /\ m < 2 * (i + k) =>
               PL[<<2 * i, End(n, j)>>] = Snoc(PL[<<2 * i, 2 * (i + k)>>], SL[<<2 * (i + k), End(n, j)>>])
          /\ ~(m < 2 * (i + k)) =>
               PL[<<2 * i, End(n, j)>>] = Snoc(PL[<<2 * (i + k), End(n, j)>>], SL[<<2 * i, 2 * (i + k)>>])
      <4>1. End(n, j) - 2 * i > 1
        BY <2>2, <3>5
      <4>2. 2 * i + Split(End(n, j) - 2 * i) = 2 * (i + k)
        BY <3>4, <3>6
      <4>3. CASE m < 2 * (i + k)
        BY <1>1, <3>4, <4>1, <4>2, <4>3, PathOfLeft
      <4>4. CASE ~(m < 2 * (i + k))
        BY <1>1, <3>4, <4>1, <4>2, <4>4, PathOfRight
      <4> HIDE DEF PL, SL
      <4> QED BY <4>3, <4>4
    <3>8. SU[<<i, i + k>>] = SL[<<2 * i, 2 * (i + k)>>] /\ SU[<<i + k, j>>] = SL[<<2 * (i + k), End(n, j)>>]
      <4>1. SU[<<i, i + k>>] = SL[<<2 * i, End(n, i + k)>>]
        BY <3>3, SubtreesOfAbove
      <4>2. SU[<<i + k, j>>] = SL[<<2 * (i + k), End(n, j)>>]
        BY <3>3, SubtreesOfAbove
      <4> QED BY <3>4, <4>1, <4>2
    <3>9. m < 2 * (i + k) <=> x < i + k
      BY <1>1, <3>3
    <3>10. k \in S /\ d - k \in S
      <4> HIDE DEF S
      <4> QED BY <1>5, <3>3
    <3> DEFINE V == Hashes(U, w) \cup {L[m], L[m + 2]}
    <3>11. A \in Seq(V)
      <4>1. L[m] \in V /\ L[m + 2] \in V
        OBVIOUS
      <4> HIDE DEF V
      <4> QED BY <4>1 DEF Aside
    <3>12. /\ SU[<<i, i + k>>] \in V /\ SU[<<i + k, j>>] \in V
           /\ PU[<<i, i + k>>] \in Seq(V) /\ PU[<<i + k, j>>] \in Seq(V)
      <4>1. PU[<<i, i + k>>] \in Seq(Hashes(U, w)) /\ PU[<<i + k, j>>] \in Seq(Hashes(U, w))
        BY <1>1, <1>2, <3>3, PathsTyped
      <4>2. /\ <<i, i + k>> \in {r \in (0..w) \X (0..w) : r[1] < r[2]}
            /\ <<i + k, j>> \in {r \in (0..w) \X (0..w) : r[1] < r[2]}
        BY <3>3
      <4>3. SU[<<i, i + k>>] \in Hashes(U, w) /\ SU[<<i + k, j>>] \in Hashes(U, w)
        BY <4>2 DEF Hashes
      <4>4. Hashes(U, w) \subseteq V
        OBVIOUS
      <4> DEFINE H == Hashes(U, w)
      <4>5. PICK G : G = H
        OBVIOUS
      <4> HIDE DEF V, PU, SU, U, w, H
      <4>6. G \subseteq V /\ PU[<<i, i + k>>] \in Seq(G) /\ PU[<<i + k, j>>] \in Seq(G)
        BY <4>1, <4>4, <4>5 DEF H
      <4>7. PU[<<i, i + k>>] \in Seq(V) /\ PU[<<i + k, j>>] \in Seq(V)
        BY ONLY <4>6
      <4> QED BY <4>3, <4>4, <4>7
    <3>13. CASE x < i + k
      <4>1. PL[<<2 * i, 2 * (i + k)>>] = Join(A, PU[<<i, i + k>>])
        <5> HIDE DEF PL, PU, A
        <5> QED BY <3>3, <3>4, <3>10, <3>13
      <4> HIDE DEF PL, PU, SL, SU, A, V
      <4>2. PL[<<2 * i, End(n, j)>>] = Snoc(Join(A, PU[<<i, i + k>>]), SU[<<i + k, j>>])
        BY <3>7, <3>8, <3>9, <3>13, <4>1
      <4>3. PU[<<i, j>>] = Snoc(PU[<<i, i + k>>], SU[<<i + k, j>>])
        BY <3>2, <3>13
      <4> QED BY <3>11, <3>12, <4>2, <4>3, SnocLast
    <3>14. CASE ~(x < i + k)
      <4>1. i + k <= x
        BY <1>1, <3>3, <3>14
      <4>2. PL[<<2 * (i + k), End(n, j)>>] = Join(A, PU[<<i + k, j>>])
        <5> HIDE DEF PL, PU, A
        <5> QED BY <3>3, <3>10, <4>1
      <4> HIDE DEF PL, PU, SL, SU, A, V
      <4>3. PL[<<2 * i, End(n, j)>>] = Snoc(Join(A, PU[<<i + k, j>>]), SU[<<i, i + k>>])
        BY <3>7, <3>8, <3>9, <3>14, <4>2
      <4>4. PU[<<i, j>>] = Snoc(PU[<<i + k, j>>], SU[<<i, i + k>>])
        BY <3>2, <3>14
      <4> QED BY <3>11, <3>12, <4>3, <4>4, SnocLast
    <3> HIDE DEF PL, PU, A
    <3> QED BY <3>13, <3>14
  <2>3. d >= 1
    BY <1>1
  <2> QED BY <2>1, <2>2, <2>3
<1>6. hi - lo \in S /\ hi - lo \in Nat
  <2>1. hi - lo \in Nat
    BY <1>1
  <2> HIDE DEF S
  <2> QED BY <1>5, <2>1, ByStrongInduction
<1> HIDE DEF PL, PU, A
<1>7. PL[<<2 * lo, End(n, hi)>>] = Join(A, PU[<<lo, hi>>])
  BY <1>6
<1> QED BY <1>7 DEF PL, PU, A

-----------------------------------------------------------------------------
(* The path of leaf m above level h. *)

PathAt(s, n, m, h) == PathsUp(Levels(s)[h], m \div 2 ^ h)[<<0, ((n - 1) \div 2 ^ h) + 1>>]

LEMMA JoinEmpty ==
  ASSUME NEW V, NEW a \in Seq(V)
  PROVE  Join(<< >>, a) = a
BY DEF Join

LEMMA JoinOne ==
  ASSUME NEW V, NEW a \in Seq(V), NEW e \in V
  PROVE  /\ Join(<<e>>, a) \in Seq(V) /\ Len(Join(<<e>>, a)) = Len(a) + 1
         /\ Join(<<e>>, a)[1] = e /\ \A i \in 1..Len(a) : Join(<<e>>, a)[i + 1] = a[i]
BY DEF Join

LEMMA PathTyped ==
  ASSUME NEW n \in Nat, n >= 1, NEW s, Len(s) = n, NEW m \in 0..(n - 1), NEW h \in 0..n
  PROVE  PathAt(s, n, m, h) \in Seq(Hashes(Levels(s)[h], ((n - 1) \div 2 ^ h) + 1))
<1> DEFINE w == ((n - 1) \div 2 ^ h) + 1
           x == m \div 2 ^ h
<1>1. w \in Nat /\ w >= 1 /\ x \in Nat
  <2>1. n - 1 \in Nat /\ m \in Nat /\ h \in Nat
    OBVIOUS
  <2>2. (n - 1) \div 2 ^ h \in Nat /\ x \in Nat
    BY <2>1, Halves
  <2> QED BY <2>2
<1>2. Nodes(Levels(s)[h], w)
  BY Widths
<1> HIDE DEF w, x
<1>3. 0 \in 0..w /\ w \in 0..w /\ 0 < w
  BY <1>1
<1>4. PathsUp(Levels(s)[h], x)[<<0, w>>] \in Seq(Hashes(Levels(s)[h], w))
  BY <1>1, <1>2, <1>3, PathsTyped
<1> QED BY <1>4 DEF PathAt, w, x

\* A level adds to the path the node beside, where there is one.
LEMMA PathStep ==
  ASSUME NEW n \in Nat, n >= 1, NEW s, Len(s) = n, NEW m \in 0..(n - 1), NEW h \in 0..(n - 1)
  PROVE  \/ /\ Used(m, n, h + 1) = Used(m, n, h)
            /\ PathAt(s, n, m, h) = PathAt(s, n, m, h + 1)
         \/ /\ Used(m, n, h + 1) = Used(m, n, h) + 1
            /\ PathAt(s, n, m, h) = Join(<<Beside(s, m, h)>>, PathAt(s, n, m, h + 1))
<1> DEFINE x == m \div 2 ^ h
           y == (n - 1) \div 2 ^ h
           L == Levels(s)[h]
           U == Levels(s)[h + 1]
           q == PathAt(s, n, m, h + 1)
<1>1. m \in Nat /\ n - 1 \in Nat /\ m <= n - 1 /\ h \in Nat /\ h \in 0..n /\ h + 1 \in 0..n
  OBVIOUS
<1>2. /\ x \in Nat /\ y \in Nat /\ x <= y
      /\ x \div 2 = m \div 2 ^ (h + 1) /\ y \div 2 = (n - 1) \div 2 ^ (h + 1)
  BY <1>1, Halves, HalvesInOrder
<1>3. h < Inner(m, n) => x < y
  BY <1>1, InnerIs
<1>4. h >= Inner(m, n) => x = y
  BY <1>1, InnerIs
<1>5. Bit(m, h) = x % 2 /\ Beside(s, m, h) = L[IF x % 2 = 0 THEN x + 2 ELSE x]
  BY <1>2 DEF Bit, Beside
<1>6. Nodes(L, y + 1) /\ U = LevelAbove(L)
  BY <1>1, Widths, Above
<1>7. PathAt(s, n, m, h) = PathsUp(L, x)[<<0, y + 1>>] /\ q = PathsUp(U, x \div 2)[<<0, (y \div 2) + 1>>]
  BY <1>2 DEF PathAt
<1>8. q \in Seq(Hashes(U, (y \div 2) + 1))
  <2>1. q \in Seq(Hashes(U, ((n - 1) \div 2 ^ (h + 1)) + 1))
    BY <1>1, PathTyped
  <2> HIDE DEF q, U
  <2> QED BY <1>2, <2>1
<1>9. /\ Used(m, n, h + 1) = Used(m, n, h) + (IF h < Inner(m, n) THEN 1 ELSE Bit(m, h))
      /\ Used(m, n, h) \in Nat /\ Inner(m, n) \in Nat
  <2>1. Inner(m, n) \in Nat
    BY InnerIs
  <2>2. \A g \in Nat : Used(m, n, g) \in Nat
    BY UsedIs
  <2>3. \A g \in Nat : Used(m, n, g + 1) = Used(m, n, g) + (IF g < Inner(m, n) THEN 1 ELSE Bit(m, g))
    BY UsedIs
  <2> HIDE DEF x, y, L, U, q
  <2> QED BY ONLY h \in 0..(n - 1), n \in Nat, <2>1, <2>2, <2>3
<1> HIDE DEF x, y, L, U, q
<1>10. PathsUp(L, x)[<<0, y + 1>>] = Join(Aside(L, y + 1, x), q)
  <2> DEFINE w == y + 1
             hi == (w + 1) \div 2
  <2>1. w \in Nat /\ w >= 1 /\ x \in 0..(w - 1) /\ 0 \in 0..hi /\ hi \in 0..hi /\ 0 <= x \div 2 /\ x \div 2 < hi
        /\ hi = (y \div 2) + 1 /\ 2 * 0 = 0
    BY <1>2
  <2>6. 0 \in 0..((w + 1) \div 2) /\ hi \in 0..((w + 1) \div 2)
    BY <2>1
  <2>2. End(w, hi) = w
    BY <2>1 DEF End
  <2>3. Nodes(L, w)
    BY <1>6
  <2> HIDE DEF w, hi
  <2>4. PathsUp(L, x)[<<2 * 0, End(w, hi)>>] = Join(Aside(L, w, x), PathsUp(LevelAbove(L), x \div 2)[<<0, hi>>])
    <3>1. w \in Nat /\ w >= 1 /\ x \in 0..(w - 1) /\ 0 <= x \div 2 /\ x \div 2 < hi
      BY <2>1
    <3> QED BY ONLY <3>1, <2>3, <2>6, PathsOfAbove
  <2>5. PathsUp(L, x)[<<0, w>>] = Join(Aside(L, w, x), q)
    BY <1>6, <1>7, <2>1, <2>2, <2>4
  <2> QED BY <2>5 DEF w
<1>11. x % 2 \in {0, 1} /\ (y + 1) - 1 = y
  BY <1>2
<1>12. CASE h >= Inner(m, n) /\ x % 2 = 0
  <2>1. Aside(L, y + 1, x) = << >>
    BY <1>4, <1>11, <1>12 DEF Aside
  <2>2. Used(m, n, h + 1) = Used(m, n, h)
    BY <1>5, <1>9, <1>12
  <2> QED BY <1>7, <1>8, <1>10, <2>1, <2>2, JoinEmpty DEF q
<1>13. CASE ~(h >= Inner(m, n) /\ x % 2 = 0)
  <2>1. ~(x % 2 = 0 /\ x = y)
    <3>1. h >= Inner(m, n) \/ h < Inner(m, n)
      BY <1>9
    <3> QED BY <1>2, <1>3, <1>13, <3>1
  <2>2. Aside(L, y + 1, x) = <<Beside(s, m, h)>>
    BY <1>5, <1>11, <2>1 DEF Aside
  <2>3. Used(m, n, h + 1) = Used(m, n, h) + 1
    BY <1>5, <1>9, <1>11, <1>13
  <2> QED BY <1>7, <1>10, <2>2, <2>3 DEF q
<1> QED BY <1>12, <1>13

LEMMA PathEnds ==
  ASSUME NEW n \in Nat, n >= 1, NEW s, Len(s) = n, NEW m \in 0..(n - 1)
  PROVE  PathAt(s, n, m, n) = << >>
<1> DEFINE L == Levels(s)[n]
<1>1. m \div 2 ^ n = 0 /\ (n - 1) \div 2 ^ n = 0
  BY Vanishes
<1>2. Nodes(L, 1)
  <2>1. ((n - 1) \div 2 ^ n) + 1 = 1 /\ n \in 0..n
    BY <1>1
  <2>2. Nodes(L, ((n - 1) \div 2 ^ n) + 1)
    BY <2>1, Widths
  <2> HIDE DEF L
  <2> QED BY <2>1, <2>2
<1> HIDE DEF L
<1>3. PathsUp(L, 0)[<<0, 1>>] = << >>
  BY <1>2, PathOfOne
<1>4. PathAt(s, n, m, n) = PathsUp(L, m \div 2 ^ n)[<<0, ((n - 1) \div 2 ^ n) + 1>>]
  BY DEF PathAt, L
<1>5. 0 + 1 = 1
  OBVIOUS
<1> QED BY <1>1, <1>3, <1>4, <1>5

\* Every hash of a level below is where the fold uses it.
LEMMA PathHolds ==
  ASSUME NEW n \in Nat, n >= 1, NEW s, Len(s) = n, NEW m \in 0..(n - 1)
  PROVE  LET p == PathAt(s, n, m, 0)
         IN /\ Len(p) = Inner(m, n) + Border(m, n)
            /\ \A h \in 0..(n - 1) : Used(m, n, h + 1) # Used(m, n, h) => p[Used(m, n, h + 1)] = Beside(s, m, h)
<1> DEFINE P(h) == PathAt(s, n, m, h)
           W(h) == Used(m, n, h)
           k == Inner(m, n) + Border(m, n)
           Next1(h) == \/ W(h + 1) = W(h) /\ P(h) = P(h + 1)
                       \/ W(h + 1) = W(h) + 1 /\ P(h) = Join(<<Beside(s, m, h)>>, P(h + 1))
           Typed(h) == \E V : P(h) \in Seq(V)
<1>1. \A h \in 0..(n - 1) : Next1(h)
  BY PathStep
<1>2. \A h \in 0..n : Typed(h)
  BY PathTyped
<1>3. W(0) = 0 /\ W(n) = k /\ k \in Nat /\ \A h \in Nat : W(h) \in Nat
  <2>1. W(0) = 0 /\ W(n) = k /\ \A h \in Nat : W(h) \in Nat
    BY UsedIs
  <2> HIDE DEF W, k
  <2> QED BY <2>1
<1>4. P(n) = << >>
  BY PathEnds
<1> HIDE DEF P, W, k
\* Appending in front: the rest moves up by one.
<1>5. ASSUME NEW h \in 0..(n - 1), W(h + 1) = W(h) + 1, P(h) = Join(<<Beside(s, m, h)>>, P(h + 1))
      PROVE  /\ Len(P(h + 1)) \in Nat /\ Len(P(h)) = Len(P(h + 1)) + 1
             /\ P(h)[1] = Beside(s, m, h) /\ \A i \in 1..Len(P(h + 1)) : P(h)[i + 1] = P(h + 1)[i]
  <2> DEFINE a == P(h + 1)
             e == Beside(s, m, h)
  <2>1. h + 1 \in 0..n
    OBVIOUS
  <2>2. PICK V : a \in Seq(V)
    BY <1>2, <2>1
  <2> DEFINE Z == V \cup {e}
  <2>3. V \subseteq Z /\ e \in Z
    OBVIOUS
  <2> HIDE DEF Z, a, e
  <2>4. a \in Seq(Z) /\ Len(a) \in Nat
    BY <2>2, <2>3
  <2>5. /\ Len(Join(<<e>>, a)) = Len(a) + 1
        /\ Join(<<e>>, a)[1] = e /\ \A i \in 1..Len(a) : Join(<<e>>, a)[i + 1] = a[i]
    BY <2>3, <2>4, JoinOne
  <2>6. P(h) = Join(<<e>>, a)
    BY <1>5 DEF e, a
  <2> QED BY <2>4, <2>5, <2>6 DEF e, a
\* How long the rest of the path is.
<1>6. \A h \in 0..n : Len(P(h)) = k - W(h)
  <2> DEFINE S == {d \in Nat : d <= n => Len(P(n - d)) = k - W(n - d)}
  <2>1. 0 \in S
    <3>1. n - 0 = n /\ Len(<< >>) = 0
      OBVIOUS
    <3> QED BY <1>3, <1>4, <3>1
  <2>2. ASSUME NEW d \in Nat, d \in S PROVE d + 1 \in S
    <3> SUFFICES ASSUME d + 1 <= n PROVE Len(P(n - (d + 1))) = k - W(n - (d + 1))
      OBVIOUS
    <3> DEFINE h == n - (d + 1)
    <3>1. h \in 0..(n - 1) /\ n - d = h + 1 /\ h \in Nat /\ h + 1 \in Nat
      OBVIOUS
    <3>2. Len(P(n - d)) = k - W(n - d)
      BY <2>2
    <3> HIDE DEF h
    <3>3. Len(P(h + 1)) = k - W(h + 1)
      BY <3>1, <3>2
    <3>4. Len(P(h)) = k - W(h)
      <4>1. Next1(h)
        BY <1>1, <3>1
      <4>2. W(h) \in Nat /\ W(h + 1) \in Nat
        BY <1>3, <3>1
      <4>3. CASE W(h + 1) = W(h) /\ P(h) = P(h + 1)
        <5>1. W(h) = W(h + 1) /\ Len(P(h)) = Len(P(h + 1))
          BY <4>3
        <5> QED BY <3>3, <5>1
      <4>4. CASE W(h + 1) = W(h) + 1 /\ P(h) = Join(<<Beside(s, m, h)>>, P(h + 1))
        <5>1. Len(P(h)) = Len(P(h + 1)) + 1
          BY <1>5, <3>1, <4>4
        <5>2. W(h + 1) = W(h) + 1 /\ k \in Nat
          BY <1>3, <4>4
        <5>3. Len(P(h + 1)) + 1 = k - W(h)
          BY ONLY <3>3, <4>2, <5>2
        <5> QED BY <5>1, <5>3
      <4> QED BY <4>1, <4>3, <4>4
    <3> QED BY <3>4 DEF h
  <2>3. ASSUME NEW h \in 0..n PROVE Len(P(h)) = k - W(h)
    <3>1. n - h \in Nat /\ n - h <= n /\ n - (n - h) = h
      OBVIOUS
    <3>2. n - h \in S
      <4> HIDE DEF S
      <4> QED BY <2>1, <2>2, <3>1, ByInduction
    <3> QED BY <3>1, <3>2
  <2> QED BY <2>3
\* Where it is in the whole path.
<1>7. ASSUME NEW h \in 0..n PROVE \A j \in 1..Len(P(h)) : P(0)[W(h) + j] = P(h)[j]
  <2> DEFINE Holds(g) == \A j \in 1..Len(P(g)) : P(0)[W(g) + j] = P(g)[j]
             S == {g \in Nat : g <= n => Holds(g)}
  <2>1. 0 \in S
    <3>1. ASSUME NEW j \in 1..Len(P(0)) PROVE P(0)[W(0) + j] = P(0)[j]
      <4>1. j \in Int
        OBVIOUS
      <4>2. W(0) + j = j
        BY <1>3, <4>1
      <4> QED BY <4>2
    <3>2. Holds(0)
      BY <3>1
    <3> HIDE DEF Holds
    <3> QED BY <3>2
  <2>2. ASSUME NEW g \in Nat, g \in S PROVE g + 1 \in S
    <3> SUFFICES ASSUME g + 1 <= n PROVE Holds(g + 1)
      OBVIOUS
    <3>1. g \in 0..(n - 1) /\ g \in 0..n /\ g + 1 \in 0..n
      OBVIOUS
    <3>2. Holds(g)
      BY <2>2
    <3>3. Next1(g)
      BY <1>1, <3>1
    <3>4. CASE W(g + 1) = W(g) /\ P(g) = P(g + 1)
      BY <3>2, <3>4
    <3>5. CASE W(g + 1) = W(g) + 1 /\ P(g) = Join(<<Beside(s, m, g)>>, P(g + 1))
      <4>1. /\ Len(P(g + 1)) \in Nat /\ Len(P(g)) = Len(P(g + 1)) + 1
            /\ \A i \in 1..Len(P(g + 1)) : P(g)[i + 1] = P(g + 1)[i]
        BY <1>5, <3>1, <3>5
      <4>2. ASSUME NEW j \in 1..Len(P(g + 1)) PROVE P(0)[W(g + 1) + j] = P(g + 1)[j]
        <5>1. j + 1 \in 1..Len(P(g)) /\ W(g) + (j + 1) = W(g + 1) + j
          <6>1. W(g) \in Nat
            BY <1>3
          <6>2. j + 1 \in 1..Len(P(g)) /\ j \in Int
            BY <4>1
          <6>3. W(g) + (j + 1) = (W(g) + 1) + j
            BY <6>1, <6>2
          <6> QED BY <3>5, <6>2, <6>3
        <5>2. P(0)[W(g) + (j + 1)] = P(g)[j + 1]
          BY <3>2, <5>1
        <5>3. P(g)[j + 1] = P(g + 1)[j]
          BY <4>1
        <5> QED BY <5>1, <5>2, <5>3
      <4> QED BY <4>2
    <3> HIDE DEF Holds
    <3> QED BY <3>3, <3>4, <3>5
  <2>3. h \in S
    <3> HIDE DEF S
    <3> QED BY <2>1, <2>2, ByInduction
  <2> QED BY <2>3
<1>8. Len(P(0)) = k
  <2>1. 0 \in 0..n
    OBVIOUS
  <2>2. Len(P(0)) = k - W(0)
    BY <1>6, <2>1
  <2> QED BY <1>3, <2>2
<1>9. ASSUME NEW h \in 0..(n - 1), W(h + 1) # W(h) PROVE P(0)[W(h + 1)] = Beside(s, m, h)
  <2>1. h \in 0..n /\ h \in Nat
    OBVIOUS
  <2>2. W(h + 1) = W(h) + 1 /\ P(h) = Join(<<Beside(s, m, h)>>, P(h + 1))
    BY <1>1, <1>9
  <2>3. Len(P(h + 1)) \in Nat /\ Len(P(h)) = Len(P(h + 1)) + 1 /\ P(h)[1] = Beside(s, m, h)
    BY <1>5, <2>2
  <2>4. 1 \in 1..Len(P(h))
    BY <2>3
  <2>5. P(0)[W(h) + 1] = P(h)[1]
    BY <1>7, <2>1, <2>4
  <2> QED BY <2>2, <2>3, <2>5
<1> QED BY <1>8, <1>9 DEF P, W, k

\* A hash of the tree is a leaf's or an interior node's.
LEMMA HashesAre ==
  ASSUME NEW n \in Nat, n >= 1, NEW s, NEW x \in Hashes(LeafHashes(s, n), n)
  PROVE  \E j \in 1..n : \/ x = LeafHash(s[j])
                         \/ (x[1] = 1 /\ Len(x) = 3 /\ \E B : x \in Seq(B))
<1> DEFINE L == LeafHashes(s, n)
<1>1. PICK i \in 0..n, j \in 0..n : i < j /\ x = Subtrees(L)[<<i, j>>]
  BY DEF Hashes
<1>2. Nodes(L, n) /\ j \in 1..n
  BY <1>1, LeafHashesAre
<1> HIDE DEF L
<1>3. CASE j - i <= 1
  <2>1. x = L[j]
    BY <1>1, <1>2, <1>3, SubtreeOfOne
  <2>2. x = LeafHash(s[j])
    BY <1>2, <2>1, LeafHashesAre DEF L
  <2> QED BY <1>2, <2>2
<1>4. CASE ~(j - i <= 1)
  <2> DEFINE k == Split(j - i)
             a == Subtrees(L)[<<i, i + k>>]
             b == Subtrees(L)[<<i + k, j>>]
  <2>1. x = HashChildren(a, b)
    BY <1>1, <1>2, <1>4, SubtreesAre
  <2> HIDE DEF a, b
  <2>2. <<1, a, b>> \in Seq({1, a, b}) /\ <<1, a, b>>[1] = 1 /\ Len(<<1, a, b>>) = 3
    OBVIOUS
  <2>3. x \in Seq({1, a, b}) /\ x[1] = 1 /\ Len(x) = 3
    BY <2>1, <2>2 DEF HashChildren
  <2> QED BY <1>2, <2>3
<1> QED BY <1>3, <1>4

\* With those hashes the fold climbs from the leaf's node to the root.
LEMMA FoldClimbs ==
  ASSUME NEW n \in Nat, n >= 1, NEW s, Len(s) = n, NEW leaf, NEW p, p.size = n, WellFormedProof(p),
         leaf = NodeAt(s, p.index, 0),
         \A h \in 0..(n - 1) : Used(p.index, n, h + 1) # Used(p.index, n, h)
                                => p.hashes[Used(p.index, n, h + 1)] = Beside(s, p.index, h)
  PROVE  Folded(leaf, p)[Used(p.index, n, n)] = NodeAt(s, p.index, n)
<1> DEFINE m == p.index
           F == Folded(leaf, p)
           S == {h \in Nat : h <= n => F[Used(m, n, h)] = NodeAt(s, m, h)}
<1>1. m \in 0..(n - 1) /\ Len(p.hashes) = Inner(m, n) + Border(m, n)
  BY DEF WellFormedProof
<1>2. 0 \in S
  <2>1. Used(m, n, 0) = 0 /\ Len(p.hashes) \in Nat
    <3>1. Used(m, n, n) = Len(p.hashes) /\ Used(m, n, n) \in Nat /\ Used(m, n, 0) = 0
      BY <1>1, UsedIs
    <3> QED BY <3>1
  <2>2. F[0] = leaf
    BY <2>1, FoldIs
  <2> HIDE DEF F
  <2> QED BY <2>1, <2>2
<1>3. ASSUME NEW h \in Nat, h \in S PROVE h + 1 \in S
  <2> SUFFICES ASSUME h + 1 <= n PROVE F[Used(m, n, h + 1)] = NodeAt(s, m, h + 1)
    OBVIOUS
  <2> DEFINE u == Used(m, n, h)
             w == Used(m, n, h + 1)
  <2>1. h \in 0..(n - 1)
    OBVIOUS
  <2>2. F[u] = NodeAt(s, m, h)
    BY <1>3
  <2>3. w # u => p.hashes[w] = Beside(s, m, h)
    BY <2>1
  <2>4. u \in Nat
    <3>1. \A g \in Nat : Used(m, n, g) \in Nat
      BY <1>1, UsedIs
    <3> QED BY <3>1
  <2>5. \/ w = u /\ NodeAt(s, m, h + 1) = NodeAt(s, m, h)
        \/ /\ w = u + 1
           /\ \/ /\ F[w] = HashChildren(F[u], p.hashes[w])
                 /\ NodeAt(s, m, h + 1) = HashChildren(NodeAt(s, m, h), Beside(s, m, h))
              \/ /\ F[w] = HashChildren(p.hashes[w], F[u])
                 /\ NodeAt(s, m, h + 1) = HashChildren(Beside(s, m, h), NodeAt(s, m, h))
    <3> HIDE DEF S
    <3> QED BY <2>1, StepOfFold DEF F
  <2> HIDE DEF F, u, w
  <2>6. F[w] = NodeAt(s, m, h + 1)
    <3>1. u + 1 # u
      BY <2>4
    <3> QED BY <2>2, <2>3, <2>5, <3>1
  <2> QED BY <2>6 DEF w
<1>4. n \in S
  <2> HIDE DEF S
  <2> QED BY <1>2, <1>3, ByInduction
<1> QED BY <1>4

\* The path of an honest log is as long as the tree is high over its leaf, and
\* folds to its root.
THEOREM HonestProofHolds ==
  ASSUME NEW B, NEW n \in Nat, n >= 1, NEW s \in [1..n -> Seq(B)], NEW m \in 0..(n - 1)
  PROVE  VerifyInclusion(s[m + 1], HonestProof(s, m, n))
<1> DEFINE p == HonestProof(s, m, n)
           q == PathAt(s, n, m, 0)
           F == Folded(LeafHash(s[m + 1]), p)
           L == LeafHashes(s, n)
<1>1. Len(s) = n
  OBVIOUS
<1>2. m \div 2 ^ 0 = m /\ ((n - 1) \div 2 ^ 0) + 1 = n
  OBVIOUS
<1>3. Levels(s)[0] = L /\ Nodes(L, n)
  BY <1>1, LevelsAre, LeafHashesAre
<1>4. q = AuditPath(s, m, n)
  BY <1>2, <1>3 DEF PathAt, AuditPath
<1>5. p.index = m /\ p.size = n /\ p.root = TreeHash(s, n) /\ p.hashes = q
  BY <1>4 DEF HonestProof
<1>6. /\ Len(q) = Inner(m, n) + Border(m, n)
      /\ \A h \in 0..(n - 1) : Used(m, n, h + 1) # Used(m, n, h) => q[Used(m, n, h + 1)] = Beside(s, m, h)
  BY <1>1, PathHolds
<1>7. q \in Seq(Hashes(L, n))
  <2>1. 0 \in 0..n
    OBVIOUS
  <2>2. q \in Seq(Hashes(Levels(s)[0], ((n - 1) \div 2 ^ 0) + 1))
    BY <1>1, <2>1, PathTyped
  <2> HIDE DEF q, L
  <2> QED BY <1>2, <1>3, <2>2
<1>8. ASSUME NEW x \in Hashes(L, n) PROVE x # NoDigest
  <2>1. PICK j \in 1..n : x = LeafHash(s[j]) \/ (x[1] = 1 /\ Len(x) = 3)
    BY <1>1, HashesAre
  <2>2. s[j] \in Seq(B)
    OBVIOUS
  <2>3. Len(LeafHash(s[j])) = Len(s[j]) + 1 /\ Len(s[j]) \in Nat /\ Len(NoDigest) = 0
    BY <2>2, LeafHashIs DEF NoDigest
  <2> QED BY <2>1, <2>3
<1> HIDE DEF q, p, L
<1>9. WellFormedProof(p)
  <2>1. \A i \in DOMAIN q : q[i] # NoDigest
    BY <1>7, <1>8
  <2> QED BY <1>5, <1>6, <2>1 DEF WellFormedProof
<1>10. NodeAt(s, m, 0) = LeafHash(s[m + 1])
  <2>1. m + 1 \in 1..n
    OBVIOUS
  <2>2. L[m + 1] = LeafHash(s[m + 1])
    BY <2>1, LeafHashesAre DEF L
  <2> QED BY <1>2, <1>3, <2>2 DEF NodeAt
<1>11. \A h \in 0..(n - 1) : Used(m, n, h + 1) # Used(m, n, h) => p.hashes[Used(m, n, h + 1)] = Beside(s, m, h)
  BY <1>5, <1>6
<1>12. F[Used(m, n, n)] = NodeAt(s, m, n)
  <2> DEFINE leaf == LeafHash(s[m + 1])
  <2>1. leaf = NodeAt(s, m, 0) /\ F = Folded(leaf, p)
    BY <1>10
  <2> HIDE DEF F, leaf
  <2>2. PICK x : x = p
    OBVIOUS
  <2>3. x.size = n /\ x.index = m /\ WellFormedProof(x) /\ F = Folded(leaf, x) /\ leaf = NodeAt(s, x.index, 0)
    BY <1>5, <1>9, <2>1, <2>2
  <2>4. \A h \in 0..(n - 1) : Used(x.index, n, h + 1) # Used(x.index, n, h)
                                => x.hashes[Used(x.index, n, h + 1)] = Beside(s, x.index, h)
    BY <1>11, <2>2, <2>3
  <2>5. Folded(leaf, x)[Used(x.index, n, n)] = NodeAt(s, x.index, n)
    BY <1>1, <2>3, <2>4, FoldClimbs
  <2> QED BY <2>3, <2>5
<1>13. F[Len(p.hashes)] = p.root
  <2>1. Used(m, n, n) = Len(p.hashes)
    BY <1>5, <1>6, UsedIs
  <2>2. NodeAt(s, m, n) = TreeHash(s, n)
    BY <1>1, Top
  <2> HIDE DEF F
  <2> QED BY <1>5, <1>12, <2>1, <2>2
<1> QED BY <1>9, <1>13 DEF VerifyInclusion, RootFromInclusionProof, p

\* What TLC evaluates up to a number of leaves: an honest log's proofs are
\* accepted, and what else is accepted, on whichever path and with a body that
\* may read like an interior node, names a leaf.
COROLLARY ProofsHoldAlways ==
  ASSUME NEW max \in Nat
  PROVE  ProofsHold(max)
<1> SUFFICES ASSUME NEW n \in 1..max
             PROVE  LET log == SampleLog(n)  root == TreeHash(log, n)
                    IN /\ \A m \in 0..(n - 1) : VerifyInclusion(log[m + 1], HonestProof(log, m, n))
                       /\ \A m \in 0..n, hashes \in OfferedPaths(n), body \in OfferedBodies(n) :
                            VerifyInclusion(body, [index |-> m, size |-> n, root |-> root, hashes |-> hashes])
                              => m < n /\ body = log[m + 1]
  BY DEF ProofsHold
<1> DEFINE log == SampleLog(n)
           root == TreeHash(log, n)
<1>1. n \in Nat /\ n >= 1
  OBVIOUS
<1>2. log \in [1..n -> Seq(Int)] /\ Len(log) = n /\ \A i \in 1..n : log[i] = <<i + 1>>
  BY DEF SampleLog
<1> HIDE DEF log
<1>3. ASSUME NEW m \in 0..(n - 1) PROVE VerifyInclusion(log[m + 1], HonestProof(log, m, n))
  BY <1>1, <1>2, HonestProofHolds
<1>4. ASSUME NEW p \in Paths(n), NEW i \in DOMAIN p, p[i][1] = 1 PROVE \E B : p[i] \in Seq(B)
  <2>1. PICK m \in 0..(n - 1), k \in 1..n : m < k /\ p = AuditPath(log, m, k)
    BY DEF Paths, log
  <2> DEFINE L == LeafHashes(log, k)
  <2>2. k \in Nat /\ k >= 1 /\ m \in Nat /\ 0 \in 0..k /\ k \in 0..k /\ 0 < k /\ Nodes(L, k)
    BY LeafHashesAre
  <2>3. p \in Seq(Hashes(L, k))
    BY <2>1, <2>2, PathsTyped DEF AuditPath
  <2>4. p[i] \in Hashes(L, k)
    BY <2>3
  <2>5. PICK j \in 1..k : p[i] = LeafHash(log[j]) \/ \E B : p[i] \in Seq(B)
    BY <2>2, <2>4, HashesAre
  <2>6. log[j] \in Seq(Int)
    BY <1>2
  <2>7. LeafHash(log[j])[1] = 0
    BY <2>6, LeafHashIs
  <2> QED BY <1>4, <2>5, <2>7
<1>5. ASSUME NEW body \in OfferedBodies(n) PROVE \E B : body \in Seq(B)
  <2>1. CASE body \in {<<i + 1>> : i \in 1..(n + 1)}
    <3>1. PICK i \in 1..(n + 1) : body = <<i + 1>>
      BY <2>1
    <3>2. <<i + 1>> \in Seq(Int)
      OBVIOUS
    <3>3. body \in Seq(Int)
      BY <3>1, <3>2
    <3> QED BY <3>3
  <2>2. CASE body \in {h \in UNION {{p[i] : i \in DOMAIN p} : p \in Paths(n)} : h[1] = 1}
    <3>1. PICK p \in Paths(n) : \E i \in DOMAIN p : body = p[i] /\ body[1] = 1
      BY <2>2
    <3> QED BY <1>4, <3>1
  <2> QED BY <2>1, <2>2 DEF OfferedBodies
<1>6. ASSUME NEW m \in 0..n, NEW hashes, NEW body \in OfferedBodies(n),
             VerifyInclusion(body, [index |-> m, size |-> n, root |-> root, hashes |-> hashes])
      PROVE  m < n /\ body = log[m + 1]
  <2>1. PICK A : body \in Seq(A)
    BY <1>5
  <2> DEFINE B == A \cup Int
  <2>2. A \subseteq B /\ Int \subseteq B
    OBVIOUS
  <2> HIDE DEF B
  <2>3. body \in Seq(B) /\ Seq(Int) \subseteq Seq(B)
    BY <2>1, <2>2
  <2>4. log \in [1..n -> Seq(B)]
    BY <1>2, <2>3
  <2> DEFINE p == [index |-> m, size |-> n, root |-> root, hashes |-> hashes]
  <2>5. p.index = m /\ p.size = n /\ p.root = TreeHash(log, n) /\ VerifyInclusion(body, p)
    BY <1>6
  <2> HIDE DEF p, root
  <2>6. p.index \in 0..(n - 1) /\ body = log[p.index + 1]
    BY ONLY <1>1, <2>3, <2>4, <2>5, InclusionNamesLeaf
  <2> QED BY <2>5, <2>6
<1> QED BY <1>3, <1>6 DEF log

-----------------------------------------------------------------------------
(* The verifiers.                                                           *)

\* The earliest of a set of times is one of them and precedes the others:
\* what "the earliest proven time" (verifyTransparency) and "the earliest
\* instant" (validUntil) rely on.
LEMMA EarliestIsLeast ==
  ASSUME NEW S, S \subseteq Nat, S # {}
  PROVE  Earliest(S) \in S /\ \A x \in S : Earliest(S) <= x
<1> DEFINE Less == {ss \in Nat \X Nat : ss[1] < ss[2]}
<1>1. IsWellFoundedOn(Less, Nat)
  BY NatLessThanWellFounded DEF OpToRel
<1>2. \E x \in S : \A y \in S : <<y, x>> \notin Less
  BY <1>1, WFMin
<1>3. \A x, y \in S : <<y, x>> \notin Less => x <= y
  OBVIOUS
<1>4. \E m \in S : \A x \in S : m <= x
  <2> HIDE DEF Less
  <2> QED BY <1>2, <1>3
<1> QED BY <1>4 DEF Earliest

-----------------------------------------------------------------------------
(* The two verifiers, seen from their callers: flags and gating findings. *)

\* Verify of an envelope whose statement decodes.
LEMMA Sgmt1Facts ==
  ASSUME NEW b, NEW env, NEW t, NEW expired \in BOOLEAN, env # Absent, env.payloadOk
  PROVE  LET r == Sgmt1ResultGiven(b, env, t, expired)
             S == EnvelopeStandings(t, env)
         IN /\ r.present = TRUE
            /\ r.valid = (S # {})
            /\ r.trusted = ("trusted" \in S)
            /\ r.revoked = ("revoked" \in S)
            /\ r.expired = expired
            /\ "SG-PRV-002" \in r.findings <=>
                 \/ S = {} /\ t.keys # {}
                 \/ S # {} /\ "trusted" \notin S /\ "revoked" \notin S /\ "rejected" \notin S
            /\ "SG-PRV-003" \in r.findings <=> b.root = NoRoot \/ b.root # env.root
            /\ "SG-PRV-004" \in r.findings <=>
                 expired \/ (S # {} /\ "trusted" \notin S /\ "revoked" \in S)
<1> DEFINE r == Sgmt1ResultGiven(b, env, t, expired)
           S == EnvelopeStandings(t, env)
<1>1. /\ r.present = TRUE
      /\ r.valid = (S # {})
      /\ r.trusted = ("trusted" \in S)
      /\ r.revoked = ("revoked" \in S)
      /\ r.expired = expired
  BY DEF Sgmt1ResultGiven, Flagged, Blank
<1>2. "SG-PRV-002" \in r.findings <=>
        \/ S = {} /\ t.keys # {}
        \/ S # {} /\ "trusted" \notin S /\ "revoked" \notin S /\ "rejected" \notin S
  BY DEF Sgmt1ResultGiven, Flagged, Blank, SignatureFindings, When
<1>3. "SG-PRV-003" \in r.findings <=> b.root = NoRoot \/ b.root # env.root
  BY DEF Sgmt1ResultGiven, Flagged, Blank, SignatureFindings, When
<1>4. "SG-PRV-004" \in r.findings <=>
        expired \/ (S # {} /\ "trusted" \notin S /\ "revoked" \in S)
  BY DEF Sgmt1ResultGiven, Flagged, Blank, SignatureFindings, When
<1> QED BY <1>1, <1>2, <1>3, <1>4

\* The standings of an OMS signature that verifies, and whether one does: a
\* certificate without an identity verifies and stands for nobody.
OmsStandings(t, o, pool) ==
  IF SigningMethod(o) = "key" THEN OmsKeyStandings(t, o) ELSE CertStandings(t, o, pool)
OmsValid(t, o, pool) ==
  IF SigningMethod(o) = "key" THEN OmsKeyStandings(t, o) # {} ELSE CertSignatureValid(t, o, pool)

\* VerifyOMSAt of a bundle that parses.
LEMMA OmsFacts ==
  ASSUME NEW b, NEW o, NEW t, NEW pool, o # Absent, Parses(o)
  PROVE  LET r == OmsResult(b, o, t, pool)
             S == OmsStandings(t, o, pool)
             valid == OmsValid(t, o, pool)
         IN /\ r.present = TRUE
            /\ r.valid = valid
            /\ r.trusted = ("trusted" \in S)
            /\ r.revoked = ("revoked" \in S)
            /\ r.expired = FALSE
            /\ "SG-PRV-002" \in r.findings <=>
                 \/ SigningMethod(o) = "key" /\ ~valid /\ t.keys # {}
                 \/ valid /\ "trusted" \notin S /\ "revoked" \notin S /\ "rejected" \notin S
            /\ "SG-PRV-003" \in r.findings <=> ~(o.consistent /\ b.raw = o.raw)
            /\ "SG-PRV-004" \in r.findings <=>
                 valid /\ "trusted" \notin S /\ "revoked" \in S
<1> DEFINE r == OmsResult(b, o, t, pool)
<1>1. "SG-PRV-003" \in r.findings <=> ~(o.consistent /\ b.raw = o.raw)
  BY DEF OmsResult, OmsFlags, Flagged, Blank, SignatureFindings, When
<1>2. CASE SigningMethod(o) = "key"
  <2> DEFINE S == OmsKeyStandings(t, o)
  <2>1. /\ r.present = TRUE /\ r.valid = (S # {}) /\ r.trusted = ("trusted" \in S)
        /\ r.revoked = ("revoked" \in S) /\ r.expired = FALSE
    BY <1>2 DEF OmsResult, OmsFlags, Flagged, Blank
  <2>2. "SG-PRV-002" \in r.findings <=>
          \/ S = {} /\ t.keys # {}
          \/ S # {} /\ "trusted" \notin S /\ "revoked" \notin S /\ "rejected" \notin S
    BY <1>2 DEF OmsResult, OmsFlags, Flagged, Blank, SignatureFindings, When
  <2>3. "SG-PRV-004" \in r.findings <=> S # {} /\ "trusted" \notin S /\ "revoked" \in S
    BY <1>2 DEF OmsResult, OmsFlags, Flagged, Blank, SignatureFindings, When
  <2>4. OmsStandings(t, o, pool) = S /\ OmsValid(t, o, pool) = (S # {})
    BY <1>2 DEF OmsStandings, OmsValid
  <2> HIDE DEF r, S
  <2> QED BY <1>1, <1>2, <2>1, <2>2, <2>3, <2>4 DEF r
<1>3. CASE SigningMethod(o) # "key"
  <2> DEFINE S == CertStandings(t, o, pool)
             valid == CertSignatureValid(t, o, pool)
  <2>1. /\ r.present = TRUE /\ r.valid = valid /\ r.trusted = ("trusted" \in S)
        /\ r.revoked = ("revoked" \in S) /\ r.expired = FALSE
    BY <1>3 DEF OmsResult, OmsFlags, Flagged, Blank
  <2>2. "SG-PRV-002" \in r.findings <=>
          \/ ~valid /\ S # {} /\ t.keys # {}
          \/ valid /\ "trusted" \notin S /\ "revoked" \notin S /\ "rejected" \notin S
    BY <1>3 DEF OmsResult, OmsFlags, Flagged, Blank, SignatureFindings, When
  <2>3. "SG-PRV-004" \in r.findings <=> valid /\ "trusted" \notin S /\ "revoked" \in S
    BY <1>3 DEF OmsResult, OmsFlags, Flagged, Blank, SignatureFindings, When
  <2>4. OmsStandings(t, o, pool) = S /\ OmsValid(t, o, pool) = valid
    BY <1>3 DEF OmsStandings, OmsValid
  <2>5. S # {} => valid
    BY DEF CertStandings
  <2> HIDE DEF r, S, valid
  <2> QED BY <1>1, <1>3, <2>1, <2>2, <2>3, <2>4, <2>5 DEF r
<1> QED BY <1>2, <1>3

=============================================================================
