---------------------------- MODULE AuditProofs -----------------------------
(***************************************************************************)
(* Audit for every file system, registry and command line: what the walk   *)
(* has seen and still has to see, what a search of several roots leads to, *)
(* and that exit code 0 and the rows of a report mean what they say.       *)
(***************************************************************************)
EXTENDS Audit, SequenceTheorems, FiniteSetTheorems, WellFoundedInduction, TLAPS

-----------------------------------------------------------------------------
(* Induction, and the least of a set of numbers. *)

LEMMA ByInduction ==
  ASSUME NEW S, 0 \in S, \A n \in Nat : n \in S => n + 1 \in S
  PROVE  Nat \subseteq S
<1> DEFINE Lower == {ss \in Nat \X Nat : ss[1] < ss[2]}
           Bad == Nat \ S
<1>1. IsWellFoundedOn(Lower, Nat)
  BY NatLessThanWellFounded DEF OpToRel
<1>2. ASSUME Bad # {} PROVE FALSE
  <2>1. PICK x \in Bad : \A y \in Bad : <<y, x>> \notin Lower
    BY <1>1, <1>2, WFMin
  <2>2. x # 0 /\ x - 1 \in Nat
    BY <2>1
  <2>3. x - 1 \notin Bad
    <3>1. x \in Nat /\ <<x - 1, x>> \in Lower
      BY <2>2
    <3> HIDE DEF Lower
    <3> QED BY <2>1, <3>1
  <2> QED BY <2>2, <2>3, <2>1
<1> QED BY <1>2

LEMMA LeastExists ==
  ASSUME NEW S, S \subseteq Nat, S # {}
  PROVE  \E m \in S : \A x \in S : m <= x
<1> DEFINE Lower == {ss \in Nat \X Nat : ss[1] < ss[2]}
<1>1. IsWellFoundedOn(Lower, Nat)
  BY NatLessThanWellFounded DEF OpToRel
<1>2. \E x \in S : \A y \in S : <<y, x>> \notin Lower
  BY <1>1, WFMin
<1>3. \A x, y \in S : <<y, x>> \notin Lower => x <= y
  OBVIOUS
<1> HIDE DEF Lower
<1> QED BY <1>2, <1>3

-----------------------------------------------------------------------------
(* Sequences, place by place. *)

LEMMA SeqIs ==
  ASSUME NEW S, NEW s \in Seq(S)
  PROVE  /\ Len(s) \in Nat /\ DOMAIN s = 1..Len(s)
         /\ \A i \in 1..Len(s) : s[i] \in S
         /\ s = <<>> <=> Len(s) = 0
OBVIOUS

LEMMA SameSeq ==
  ASSUME NEW S, NEW s \in Seq(S), NEW t \in Seq(S), Len(s) = Len(t),
         \A i \in 1..Len(s) : s[i] = t[i]
  PROVE  s = t
BY SeqEqual

LEMMA PrefixIs ==
  ASSUME NEW S, NEW s \in Seq(S), NEW t \in Seq(S)
  PROVE  IsPrefix(s, t) <=> Len(s) <= Len(t) /\ \A i \in 1..Len(s) : s[i] = t[i]
<1>1. Len(s) \in Nat /\ Len(t) \in Nat
  OBVIOUS
<1>2. CASE Len(s) <= Len(t)
  <2> DEFINE u == SubSeq(s, 1, Len(s))
             v == SubSeq(t, 1, Len(s))
  <2>1. u \in Seq(S) /\ Len(u) = Len(s) /\ \A i \in 1..Len(s) : u[i] = s[i]
    BY <1>1, SubSeqProperties
  <2>2. v \in Seq(S) /\ Len(v) = Len(s) /\ \A i \in 1..Len(s) : v[i] = t[i]
    <3>1. \A i \in 1..Len(s) : t[i] \in S
      BY <1>2, <1>1
    <3>2. \A i \in 1..Len(s) : 1 + i - 1 = i
      BY <1>1
    <3> QED BY <1>1, <3>1, <3>2, SubSeqProperties
  <2> HIDE DEF u, v
  <2>3. u = v <=> \A i \in 1..Len(s) : s[i] = t[i]
    BY <2>1, <2>2, SameSeq
  <2> QED BY <1>2, <2>3 DEF IsPrefix, u, v
<1>3. CASE ~(Len(s) <= Len(t))
  BY <1>3 DEF IsPrefix
<1> QED BY <1>2, <1>3

LEMMA IntPrefixIs ==
  ASSUME NEW s \in Seq(Int), NEW t \in Seq(Int)
  PROVE  IsPrefix(s, t) <=> Len(s) <= Len(t) /\ \A i \in 1..Len(s) : s[i] = t[i]
BY PrefixIs

LEMMA AppendIs ==
  ASSUME NEW S, NEW s \in Seq(S), NEW x \in S
  PROVE  /\ Append(s, x) \in Seq(S) /\ Len(Append(s, x)) = Len(s) + 1
         /\ \A i \in 1..Len(s) : Append(s, x)[i] = s[i]
         /\ Append(s, x)[Len(s) + 1] = x
         /\ Append(s, x) # <<>> /\ Last(Append(s, x)) = x /\ Front(Append(s, x)) = s
<1>1. /\ Append(s, x) \in Seq(S) /\ Len(Append(s, x)) = Len(s) + 1
      /\ \A i \in 1..Len(s) : Append(s, x)[i] = s[i]
      /\ Append(s, x)[Len(s) + 1] = x
      /\ Append(s, x) # <<>>
  BY AppendProperties
<1> DEFINE a == Append(s, x)
           f == SubSeq(a, 1, Len(s))
<1>2. Len(s) \in Nat
  OBVIOUS
<1>3. f \in Seq(S) /\ Len(f) = Len(s) /\ \A i \in 1..Len(s) : f[i] = a[i]
  <2> HIDE DEF a
  <2>1. a \in Seq(S) /\ Len(a) = Len(s) + 1
    BY <1>1 DEF a
  <2>2. \A i \in 1..Len(s) : a[i] \in S /\ 1 + i - 1 = i
    BY <2>1, <1>2
  <2> QED BY <1>2, <2>2, SubSeqProperties
<1>4. f = s
  <2> HIDE DEF f
  <2> QED BY <1>1, <1>3, SameSeq
<1>5. Len(s) + 1 - 1 = Len(s)
  BY <1>2
<1> QED BY <1>1, <1>4, <1>5 DEF Last, Front

LEMMA FrontIs ==
  ASSUME NEW S, NEW s \in Seq(S), s # <<>>
  PROVE  /\ Front(s) \in Seq(S) /\ Len(Front(s)) = Len(s) - 1 /\ Len(s) >= 1
         /\ \A i \in 1..(Len(s) - 1) : Front(s)[i] = s[i]
         /\ Last(s) \in S /\ s = Append(Front(s), Last(s))
<1>1. PICK r \in Seq(S), x \in S : s = Append(r, x)
  BY SequenceEmptyOrAppend
<1>2. Front(s) = r /\ Last(s) = x
  BY <1>1, AppendIs
<1>3. Len(s) = Len(r) + 1 /\ Len(r) \in Nat
  BY <1>1, AppendIs
<1>4. \A i \in 1..Len(r) : s[i] = r[i]
  BY <1>1, AppendIs
<1> QED BY <1>1, <1>2, <1>3, <1>4

LEMMA PrefixOrder ==
  ASSUME NEW S, NEW s \in Seq(S), NEW t \in Seq(S)
  PROVE  /\ IsPrefix(s, s) /\ IsPrefix(<<>>, s)
         /\ IsPrefix(s, t) /\ Len(s) = Len(t) => s = t
         /\ \A u \in Seq(S) : IsPrefix(s, t) /\ IsPrefix(t, u) => IsPrefix(s, u)
         /\ \A u \in Seq(S) : IsPrefix(s, u) /\ IsPrefix(t, u) /\ Len(s) <= Len(t) => IsPrefix(s, t)
         /\ t # <<>> /\ IsPrefix(s, Front(t)) => IsPrefix(s, t)
         /\ t # <<>> /\ IsPrefix(s, t) /\ s # t => IsPrefix(s, Front(t))
<1>0. <<>> \in Seq(S) /\ Len(<<>>) = 0 /\ Len(<<>>) <= Len(s)
  OBVIOUS
<1>1. IsPrefix(s, s) /\ IsPrefix(<<>>, s)
  <2>1. \A i \in 1..Len(<<>>) : <<>>[i] = s[i]
    OBVIOUS
  <2>2. IsPrefix(<<>>, s)
    BY ONLY <1>0, <2>1, PrefixIs, s \in Seq(S)
  <2>3. IsPrefix(s, s)
    BY PrefixIs
  <2> QED BY <2>2, <2>3
<1>2. IsPrefix(s, t) /\ Len(s) = Len(t) => s = t
  BY PrefixIs, SameSeq
<1>3. ASSUME NEW u \in Seq(S), IsPrefix(s, t), IsPrefix(t, u) PROVE IsPrefix(s, u)
  <2>1. Len(s) <= Len(t) /\ \A i \in 1..Len(s) : s[i] = t[i]
    BY <1>3, PrefixIs
  <2>2. Len(t) <= Len(u) /\ \A i \in 1..Len(t) : t[i] = u[i]
    BY <1>3, PrefixIs
  <2>3. Len(s) <= Len(u) /\ \A i \in 1..Len(s) : s[i] = u[i]
    BY <2>1, <2>2, SeqIs
  <2> QED BY <2>3, PrefixIs
<1>4. ASSUME NEW u \in Seq(S), IsPrefix(s, u), IsPrefix(t, u), Len(s) <= Len(t) PROVE IsPrefix(s, t)
  <2>1. \A i \in 1..Len(s) : s[i] = u[i]
    BY <1>4, PrefixIs
  <2>2. \A i \in 1..Len(t) : t[i] = u[i]
    BY <1>4, PrefixIs
  <2>3. \A i \in 1..Len(s) : s[i] = t[i]
    BY <2>1, <2>2, <1>4, SeqIs
  <2> QED BY <2>3, <1>4, PrefixIs
<1>5. ASSUME t # <<>> PROVE /\ IsPrefix(s, Front(t)) => IsPrefix(s, t)
                            /\ IsPrefix(s, t) /\ s # t => IsPrefix(s, Front(t))
  <2>1. /\ Front(t) \in Seq(S) /\ Len(Front(t)) = Len(t) - 1 /\ Len(t) >= 1
        /\ \A i \in 1..(Len(t) - 1) : Front(t)[i] = t[i]
    BY <1>5, FrontIs
  <2>2. IsPrefix(Front(t), t)
    BY <2>1, PrefixIs
  <2>3. IsPrefix(s, t) /\ s # t => Len(s) <= Len(Front(t))
    <3>1. Len(s) \in Nat /\ Len(t) \in Nat
      OBVIOUS
    <3>2. IsPrefix(s, t) /\ s # t => Len(s) <= Len(t) /\ Len(s) # Len(t)
      BY <1>2, PrefixIs
    <3> QED BY <2>1, <3>1, <3>2
  <2>4. IsPrefix(s, t) /\ s # t => IsPrefix(s, Front(t))
    <3> SUFFICES ASSUME IsPrefix(s, t), s # t PROVE IsPrefix(s, Front(t))
      OBVIOUS
    <3>1. \A i \in 1..Len(s) : s[i] = t[i]
      BY PrefixIs
    <3>2. Len(s) <= Len(t) - 1
      BY <2>1, <2>3
    <3>3. \A i \in 1..Len(s) : s[i] = Front(t)[i]
      BY <2>1, <3>1, <3>2, SeqIs
    <3> QED BY <2>1, <3>2, <3>3, PrefixIs
  <2>5. IsPrefix(s, Front(t)) => IsPrefix(s, t)
    <3> SUFFICES ASSUME IsPrefix(s, Front(t)) PROVE IsPrefix(s, t)
      OBVIOUS
    <3>1. Len(s) <= Len(t) - 1 /\ \A i \in 1..Len(s) : s[i] = Front(t)[i]
      BY <2>1, PrefixIs
    <3>2. Len(s) <= Len(t) /\ \A i \in 1..Len(s) : s[i] = t[i]
      BY <2>1, <3>1, SeqIs
    <3> QED BY <3>2, PrefixIs
  <2> QED BY <2>4, <2>5
<1> QED BY <1>1, <1>2, <1>3, <1>4, <1>5

-----------------------------------------------------------------------------
(* The order of paths. *)

\* Where two paths part: at a place of both, or where one of them ends.
Parts(p, q, i) == i \in 1..Len(p) /\ i \in 1..Len(q) /\ p[i] # q[i] /\ \A j \in 1..(i - 1) : p[j] = q[j]

LEMMA LessIs ==
  ASSUME NEW p \in Seq(Int), NEW q \in Seq(Int)
  PROVE  Less(p, q) <=> \/ Len(p) < Len(q) /\ \A j \in 1..Len(p) : p[j] = q[j]
                        \/ \E i : Parts(p, q, i) /\ p[i] < q[i]
<1>1. IsStrictPrefix(p, q) <=> Len(p) < Len(q) /\ \A j \in 1..Len(p) : p[j] = q[j]
  <2>1. IsPrefix(p, q) <=> Len(p) <= Len(q) /\ \A j \in 1..Len(p) : p[j] = q[j]
    BY PrefixIs
  <2>2. Len(p) = Len(q) /\ (\A j \in 1..Len(p) : p[j] = q[j]) => p = q
    BY SameSeq
  <2>3. Len(p) \in Nat /\ Len(q) \in Nat
    OBVIOUS
  <2> QED BY <2>1, <2>2, <2>3 DEF IsStrictPrefix
<1>2. (\E i \in DOMAIN p \cap DOMAIN q : p[i] < q[i] /\ \A j \in 1..(i - 1) : p[j] = q[j])
        <=> \E i : Parts(p, q, i) /\ p[i] < q[i]
  <2>1. DOMAIN p = 1..Len(p) /\ DOMAIN q = 1..Len(q)
    OBVIOUS
  <2>2. \A i \in 1..Len(p) : \A j \in 1..Len(q) : p[i] \in Int /\ q[j] \in Int
    OBVIOUS
  <2> QED BY <2>1, <2>2 DEF Parts
<1> QED BY <1>1, <1>2 DEF Less

LEMMA PathsPart ==
  ASSUME NEW p \in Seq(Int), NEW q \in Seq(Int), p # q
  PROVE  \/ Len(p) < Len(q) /\ \A j \in 1..Len(p) : p[j] = q[j]
         \/ Len(q) < Len(p) /\ \A j \in 1..Len(q) : p[j] = q[j]
         \/ \E i : Parts(p, q, i)
<1> DEFINE D == {i \in Nat : i \in 1..Len(p) /\ i \in 1..Len(q) /\ p[i] # q[i]}
<1>0. Len(p) \in Nat /\ Len(q) \in Nat
  OBVIOUS
<1>1. CASE D = {}
  <2>1. \A i \in 1..Len(p) : i \in 1..Len(q) => p[i] = q[i]
    BY <1>0, <1>1
  <2>2. CASE Len(p) < Len(q)
    BY <1>0, <2>1, <2>2
  <2>3. CASE Len(q) < Len(p)
    BY <1>0, <2>1, <2>3
  <2>4. CASE Len(p) = Len(q)
    BY <1>0, <2>1, <2>4, SameSeq
  <2> QED BY <1>0, <2>2, <2>3, <2>4
<1>2. CASE D # {}
  <2>1. PICK m \in D : \A x \in D : m <= x
    BY <1>2, LeastExists
  <2>2. \A j \in 1..(m - 1) : p[j] = q[j]
    <3> TAKE j \in 1..(m - 1)
    <3>1. j \in Nat /\ j \in 1..Len(p) /\ j \in 1..Len(q) /\ ~(m <= j)
      BY <1>0, <2>1
    <3> QED BY <2>1, <3>1
  <2> QED BY <2>1, <2>2 DEF Parts
<1> QED BY <1>1, <1>2

LEMMA LessIsOrder ==
  /\ \A p \in Seq(Int) : ~Less(p, p)
  /\ \A p, q, r \in Seq(Int) : Less(p, q) /\ Less(q, r) => Less(p, r)
  /\ \A p, q \in Seq(Int) : p # q => Less(p, q) \/ Less(q, p)
<1>1. ASSUME NEW p \in Seq(Int) PROVE ~Less(p, p)
  <2>1. Len(p) \in Nat
    OBVIOUS
  <2> QED BY <2>1, LessIs DEF Parts
<1>2. ASSUME NEW p \in Seq(Int), NEW q \in Seq(Int), NEW r \in Seq(Int), Less(p, q), Less(q, r)
      PROVE  Less(p, r)
  <2>0. /\ Len(p) \in Nat /\ Len(q) \in Nat /\ Len(r) \in Nat
        /\ \A i \in 1..Len(p) : p[i] \in Int
        /\ \A i \in 1..Len(q) : q[i] \in Int
        /\ \A i \in 1..Len(r) : r[i] \in Int
    OBVIOUS
  <2> DEFINE PreP == Len(p) < Len(q) /\ \A j \in 1..Len(p) : p[j] = q[j]
             PreQ == Len(q) < Len(r) /\ \A j \in 1..Len(q) : q[j] = r[j]
  <2>1. PreP \/ \E i : Parts(p, q, i) /\ p[i] < q[i]
    BY <1>2, LessIs
  <2>2. PreQ \/ \E i : Parts(q, r, i) /\ q[i] < r[i]
    BY <1>2, LessIs
  <2>3. CASE PreP /\ PreQ
    <3>1. Len(p) < Len(r) /\ \A j \in 1..Len(p) : p[j] = r[j]
      BY <2>0, <2>3
    <3> QED BY <3>1, LessIs
  <2>4. ASSUME PreP, NEW k, Parts(q, r, k), q[k] < r[k] PROVE Less(p, r)
    <3>1. CASE k <= Len(p)
      <4>1. Parts(p, r, k) /\ p[k] < r[k]
        BY <2>0, <2>4, <3>1 DEF Parts
      <4> QED BY <4>1, LessIs
    <3>2. CASE k > Len(p)
      <4>1. Len(p) < Len(r) /\ \A j \in 1..Len(p) : p[j] = r[j]
        BY <2>0, <2>4, <3>2 DEF Parts
      <4> QED BY <4>1, LessIs
    <3> QED BY <2>0, <2>4, <3>1, <3>2 DEF Parts
  <2>5. ASSUME PreQ, NEW i, Parts(p, q, i), p[i] < q[i] PROVE Less(p, r)
    <3>1. Parts(p, r, i) /\ p[i] < r[i]
      BY <2>0, <2>5 DEF Parts
    <3> QED BY <3>1, LessIs
  <2>6. ASSUME NEW i, Parts(p, q, i), p[i] < q[i], NEW k, Parts(q, r, k), q[k] < r[k] PROVE Less(p, r)
    <3>1. i \in Nat /\ k \in Nat
      BY <2>0, <2>6 DEF Parts
    <3>2. CASE i <= k
      <4>1. Parts(p, r, i) /\ p[i] < r[i]
        <5>1. i \in 1..Len(p) /\ i \in 1..Len(q) /\ i \in 1..Len(r)
          BY <2>0, <2>6, <3>1, <3>2 DEF Parts
        <5>2. ASSUME NEW j \in 1..(i - 1) PROVE p[j] = q[j] /\ q[j] = r[j]
          <6>1. j \in 1..(k - 1)
            BY <3>1, <3>2
          <6>2. p[j] = q[j]
            BY <2>6, <6>1 DEF Parts
          <6>3. q[j] = r[j]
            BY <2>6, <6>1 DEF Parts
          <6> QED BY <6>2, <6>3
        <5>3. p[i] < q[i] /\ (q[i] = r[i] \/ q[i] < r[i])
          BY <2>6, <3>1, <3>2, <5>1 DEF Parts
        <5>4. p[i] < r[i] /\ p[i] # r[i]
          BY <2>0, <5>1, <5>3
        <5> QED BY <5>1, <5>2, <5>4 DEF Parts
      <4> QED BY <4>1, LessIs
    <3>3. CASE k < i
      <4>1. Parts(p, r, k) /\ p[k] < r[k]
        <5>1. k \in 1..Len(p) /\ k \in 1..Len(r) /\ p[k] = q[k]
          BY <2>0, <2>6, <3>1, <3>3 DEF Parts
        <5>2. ASSUME NEW j \in 1..(k - 1) PROVE p[j] = q[j] /\ q[j] = r[j]
          <6>1. j \in 1..(i - 1)
            BY <3>1, <3>3
          <6>2. p[j] = q[j]
            BY <2>6, <6>1 DEF Parts
          <6>3. q[j] = r[j]
            BY <2>6, <6>1 DEF Parts
          <6> QED BY <6>2, <6>3
        <5> QED BY <2>6, <5>1, <5>2 DEF Parts
      <4> QED BY <4>1, LessIs
    <3> QED BY <3>1, <3>2, <3>3
  <2> QED BY <2>1, <2>2, <2>3, <2>4, <2>5, <2>6
<1>3. ASSUME NEW p \in Seq(Int), NEW q \in Seq(Int), p # q PROVE Less(p, q) \/ Less(q, p)
  <2>1. CASE \E i : Parts(p, q, i)
    <3>1. PICK i : Parts(p, q, i)
      BY <2>1
    <3>2. p[i] \in Int /\ q[i] \in Int /\ Parts(q, p, i)
      BY <3>1 DEF Parts
    <3>3. p[i] < q[i] \/ q[i] < p[i]
      BY <3>1, <3>2 DEF Parts
    <3> QED BY <3>1, <3>2, <3>3, LessIs
  <2>2. CASE ~\E i : Parts(p, q, i)
    <3>1. \/ Len(p) < Len(q) /\ \A j \in 1..Len(p) : p[j] = q[j]
          \/ Len(q) < Len(p) /\ \A j \in 1..Len(q) : p[j] = q[j]
      BY <1>3, <2>2, PathsPart
    <3>2. CASE Len(p) < Len(q) /\ \A j \in 1..Len(p) : p[j] = q[j]
      BY <3>2, LessIs
    <3>3. CASE Len(q) < Len(p) /\ \A j \in 1..Len(q) : p[j] = q[j]
      <4>1. \A j \in 1..Len(q) : q[j] = p[j]
        BY <3>3
      <4> QED BY <3>3, <4>1, LessIs
    <3> QED BY <3>1, <3>2, <3>3
  <2> QED BY <2>1, <2>2
<1> QED BY <1>1, <1>2, <1>3

-----------------------------------------------------------------------------
(* Sorting. *)

\* A strict order on a set, as a set of pairs.
StrictOrder(S, before) ==
  /\ \A x \in S : <<x, x>> \notin before
  /\ \A x, y, z \in S : <<x, y>> \in before /\ <<y, z>> \in before => <<x, z>> \in before
  /\ \A x, y \in S : x # y => <<x, y>> \in before \/ <<y, x>> \in before

\* How many elements come before each.
LEMMA RanksDiffer ==
  ASSUME NEW S, IsFiniteSet(S), NEW before, StrictOrder(S, before),
         NEW rank, rank = [x \in S |-> Cardinality({y \in S : <<y, x>> \in before})]
  PROVE  /\ Cardinality(S) \in Nat
         /\ \A x \in S : rank[x] \in 0..(Cardinality(S) - 1)
         /\ \A x, y \in S : <<x, y>> \in before => rank[x] < rank[y]
         /\ \A k \in 0..(Cardinality(S) - 1) : \E x \in S : rank[x] = k
<1> DEFINE n == Cardinality(S)
           Ahead(x) == {y \in S : <<y, x>> \in before}
<1>1. n \in Nat
  BY FS_CardinalityType
<1>2. \A x \in S : rank[x] = Cardinality(Ahead(x))
  OBVIOUS
<1>3. ASSUME NEW x \in S PROVE IsFiniteSet(Ahead(x)) /\ rank[x] \in 0..(n - 1)
  <2>1. Ahead(x) \subseteq S /\ x \notin Ahead(x)
    BY DEF StrictOrder
  <2> HIDE DEF Ahead
  <2>2. IsFiniteSet(Ahead(x)) /\ Cardinality(Ahead(x)) <= n /\ Cardinality(Ahead(x)) # n
    BY <2>1, FS_Subset
  <2>3. Cardinality(Ahead(x)) \in Nat
    BY <2>2, FS_CardinalityType
  <2>4. Cardinality(Ahead(x)) \in 0..(n - 1)
    BY <1>1, <2>2, <2>3
  <2> QED BY <1>2, <2>2, <2>4
<1> DEFINE Low == 0..(n - 1)
<1>6. \A x \in S : IsFiniteSet(Ahead(x)) /\ rank[x] \in Low
  BY <1>3
<1>7. \A k \in Low : k \in Int
  BY <1>1
<1> HIDE DEF Ahead, Low
<1>4. ASSUME NEW x \in S, NEW y \in S, <<x, y>> \in before PROVE rank[x] < rank[y]
  <2>1. Ahead(x) \subseteq Ahead(y) /\ x \in Ahead(y) /\ x \notin Ahead(x)
    BY <1>4 DEF StrictOrder, Ahead
  <2>2. IsFiniteSet(Ahead(y)) /\ rank[x] \in Int /\ rank[y] \in Int
    BY <1>6, <1>7
  <2>3. rank[x] <= rank[y] /\ rank[x] # rank[y]
    BY <1>2, <2>1, <2>2, FS_Subset
  <2> QED BY <2>2, <2>3
<1>5. \A k \in Low : \E x \in S : rank[x] = k
  <2>1. rank \in [S -> Low]
    BY <1>6
  <2>2. ASSUME NEW x \in S, NEW y \in S, rank[x] = rank[y] PROVE x = y
    <3>1. rank[x] \in Int /\ rank[y] \in Int
      BY <1>6, <1>7
    <3>2. <<x, y>> \notin before /\ <<y, x>> \notin before
      BY <1>4, <2>2, <3>1
    <3> QED BY <3>2 DEF StrictOrder
  <2>3. rank \in Injection(S, Low)
    BY <2>1, <2>2 DEF Injection, IsInjective
  <2>4. IsFiniteSet(Low) /\ Cardinality(Low) = n
    <3>1. 0 \in Int /\ n - 1 \in Int /\ n = IF 0 > n - 1 THEN 0 ELSE n - 1 - 0 + 1
      BY <1>1
    <3> QED BY ONLY <3>1, FS_Interval DEF Low
  <2>5. rank \in Surjection(S, Low)
    BY <2>3, <2>4, FS_Injection
  <2> QED BY <2>5 DEF Surjection
<1> QED BY <1>1, <1>4, <1>5, <1>6 DEF Low

\* InOrder lists every element once, each after those that come before it.
LEMMA InOrderSorts ==
  ASSUME NEW S, IsFiniteSet(S), NEW before, StrictOrder(S, before)
  PROVE  LET s == InOrder(S, before)
         IN /\ Cardinality(S) \in Nat
            /\ s \in Seq(S) /\ Len(s) = Cardinality(S)
            /\ \A x \in S : \E i \in 1..Len(s) : s[i] = x
            /\ \A i, j \in 1..Len(s) : i < j => s[i] # s[j] /\ <<s[i], s[j]>> \in before
<1>1. PICK rank : rank = [x \in S |-> Cardinality({y \in S : <<y, x>> \in before})]
  OBVIOUS
<1>2. PICK n : n = Cardinality(S)
  OBVIOUS
<1>3. PICK s : s = InOrder(S, before)
  OBVIOUS
<1>4. /\ n \in Nat
      /\ \A x \in S : rank[x] \in 0..(n - 1)
      /\ \A x, y \in S : <<x, y>> \in before => rank[x] < rank[y]
      /\ \A k \in 0..(n - 1) : \E x \in S : rank[x] = k
  BY <1>1, <1>2, RanksDiffer
<1> DEFINE Ahead(x) == {y \in S : <<y, x>> \in before}
<1>5. s = [k \in 1..n |-> CHOOSE x \in S : Cardinality(Ahead(x)) = k - 1]
  BY <1>2, <1>3 DEF InOrder
<1>11. \A x \in S : rank[x] = Cardinality(Ahead(x))
  BY <1>1
<1> HIDE DEF Ahead
<1>6. ASSUME NEW k \in 1..n PROVE s[k] \in S /\ rank[s[k]] = k - 1
  <2>1. s[k] = CHOOSE x \in S : Cardinality(Ahead(x)) = k - 1
    BY <1>5
  <2>2. k - 1 \in 0..(n - 1)
    BY <1>4
  <2>3. \E x \in S : Cardinality(Ahead(x)) = k - 1
    BY <1>4, <1>11, <2>2
  <2> QED BY <1>11, <2>1, <2>3
<1>7. s \in Seq(S) /\ Len(s) = n
  <2>1. s = [k \in 1..n |-> s[k]]
    BY <1>5
  <2>2. s \in [1..n -> S]
    BY <1>6, <2>1
  <2> QED BY <1>4, <2>2
<1>8. ASSUME NEW x \in S, NEW y \in S, rank[x] = rank[y] PROVE x = y
  <2>1. rank[x] \in Int /\ rank[y] \in Int
    BY <1>4
  <2>2. <<x, y>> \notin before /\ <<y, x>> \notin before
    BY <1>4, <1>8, <2>1
  <2> QED BY <2>2 DEF StrictOrder
<1>9. ASSUME NEW x \in S PROVE \E i \in 1..n : s[i] = x
  <2>1. PICK i : i = rank[x] + 1
    OBVIOUS
  <2>2. i \in 1..n /\ i - 1 = rank[x]
    BY <1>4, <2>1
  <2> QED BY <1>6, <1>8, <2>2
<1>10. ASSUME NEW i \in 1..n, NEW j \in 1..n, i < j PROVE s[i] # s[j] /\ <<s[i], s[j]>> \in before
  <2>1. s[i] \in S /\ s[j] \in S /\ rank[s[i]] = i - 1 /\ rank[s[j]] = j - 1
    BY <1>6
  <2>2. ~(rank[s[j]] < rank[s[i]]) /\ rank[s[i]] # rank[s[j]]
    BY <1>10, <2>1
  <2> QED BY <1>4, <2>1, <2>2 DEF StrictOrder
<1> QED BY <1>2, <1>3, <1>4, <1>7, <1>9, <1>10

-----------------------------------------------------------------------------
(* Recursion over the places of a sequence. *)

\* A value carried from place to place: what each place makes of it.
Steps(step, n, D) == \A h \in 1..n : \A s \in D : step[h][s] \in D
Carries(f, n, D, b, step) == f \in [0..n -> D] /\ f[0] = b /\ \A h \in 1..n : f[h] = step[h][f[h - 1]]

LEMMA Carried ==
  ASSUME NEW n \in Nat, NEW D, NEW b \in D, NEW step, Steps(step, n, D)
  PROVE  \E f : Carries(f, n, D, b, step)
<1> DEFINE Upto(f, m) == f \in [0..m -> D] /\ f[0] = b /\ \A h \in 1..m : f[h] = step[h][f[h - 1]]
           P == {m \in Nat : m <= n => \E f : Upto(f, m)}
<1>1. 0 \in P
  <2> DEFINE f == [h \in 0..0 |-> b]
  <2>1. Upto(f, 0)
    OBVIOUS
  <2> HIDE DEF Upto, f
  <2> QED BY <2>1
<1>2. ASSUME NEW m \in Nat, m \in P PROVE m + 1 \in P
  <2> SUFFICES ASSUME m + 1 <= n PROVE \E f : Upto(f, m + 1)
    OBVIOUS
  <2>1. PICK g : Upto(g, m)
    BY <1>2
  <2>2. g[m] \in D /\ step[m + 1][g[m]] \in D
    BY <2>1 DEF Steps
  <2> DEFINE f == [h \in 0..(m + 1) |-> IF h = m + 1 THEN step[m + 1][g[m]] ELSE g[h]]
  <2>3. f \in [0..(m + 1) -> D]
    BY <2>1, <2>2
  <2>4. f[0] = b
    BY <2>1
  <2>5. ASSUME NEW h \in 1..(m + 1) PROVE f[h] = step[h][f[h - 1]]
    <3>1. CASE h = m + 1
      <4>1. f[h] = step[m + 1][g[m]] /\ f[h - 1] = g[m]
        BY <3>1
      <4> QED BY <3>1, <4>1
    <3>2. CASE h # m + 1
      <4>1. h \in 1..m /\ f[h] = g[h] /\ f[h - 1] = g[h - 1]
        BY <3>2
      <4> QED BY <2>1, <4>1
    <3> QED BY <3>1, <3>2
  <2>6. Upto(f, m + 1)
    BY <2>3, <2>4, <2>5
  <2> HIDE DEF Upto, f
  <2> QED BY <2>6
<1>3. n \in P
  <2> HIDE DEF P
  <2> QED BY <1>1, <1>2, ByInduction
<1> QED BY <1>3 DEF Carries

\* Where one more name leads.
Onward(s, x) == LET q == Append(s, x) IN IF q \in DOMAIN fs.links THEN fs.links[q] ELSE q

LEMMA ResolvingIs ==
  ASSUME fs \in FileSystems, NEW p \in Seq(Int)
  PROVE  /\ Resolving(p) \in [0..Len(p) -> Seq(Int)]
         /\ Resolving(p)[0] = <<>>
         /\ \A n \in 1..Len(p) : Resolving(p)[n] = Onward(Resolving(p)[n - 1], p[n])
<1> DEFINE E(f) == [n \in 0..Len(p) |->
                      IF n = 0 THEN <<>>
                      ELSE LET q == Append(f[n - 1], p[n]) IN IF q \in DOMAIN fs.links THEN fs.links[q] ELSE q]
<1>0. PICK step : step = [n \in 1..Len(p) |-> [s \in Seq(Int) |-> Onward(s, p[n])]]
  OBVIOUS
<1>1. Len(p) \in Nat /\ \A n \in 1..Len(p) : p[n] \in Int
  OBVIOUS
<1>2. ASSUME NEW s \in Seq(Int), NEW x \in Int PROVE Onward(s, x) \in Seq(Int)
  <2>1. Append(s, x) \in Seq(Int)
    BY AppendIs
  <2>2. \A l \in DOMAIN fs.links : fs.links[l] \in Seq(Int)
    BY FileSystemsAreTrees
  <2> QED BY <2>1, <2>2 DEF Onward
<1>3. Steps(step, Len(p), Seq(Int))
  BY <1>0, <1>1, <1>2 DEF Steps
<1>4. <<>> \in Seq(Int)
  OBVIOUS
<1>5. PICK f \in [0..Len(p) -> Seq(Int)] : f[0] = <<>> /\ \A h \in 1..Len(p) : f[h] = step[h][f[h - 1]]
  <2>1. PICK b \in Seq(Int) : b = <<>>
    BY <1>4
  <2>2. PICK D : D = Seq(Int)
    OBVIOUS
  <2>3. b \in D /\ Len(p) \in Nat /\ Steps(step, Len(p), D)
    BY <1>1, <1>3, <2>1, <2>2
  <2>4. \E f : Carries(f, Len(p), D, b, step)
    BY ONLY <2>3, Carried
  <2> QED BY <2>1, <2>2, <2>4 DEF Carries
<1>6. \A h \in 1..Len(p) : f[h] = Onward(f[h - 1], p[h])
  <2> TAKE h \in 1..Len(p)
  <2>0. h - 1 \in 0..Len(p)
    OBVIOUS
  <2>1. f[h - 1] \in Seq(Int)
    BY <1>1, <2>0
  <2> QED BY <1>0, <1>5, <2>1
<1>7. f = E(f)
  <2>1. ASSUME NEW h \in 0..Len(p) PROVE f[h] = E(f)[h]
    <3>1. CASE h = 0
      BY <1>5, <3>1
    <3>2. CASE h # 0
      <4>1. h \in 1..Len(p)
        BY <1>1, <3>2
      <4>2. E(f)[h] = Onward(f[h - 1], p[h])
        BY <3>2 DEF Onward
      <4> QED BY <1>6, <4>1, <4>2
    <3> QED BY <3>1, <3>2
  <2>2. f = [h \in 0..Len(p) |-> f[h]] /\ E(f) = [h \in 0..Len(p) |-> E(f)[h]]
    OBVIOUS
  <2> HIDE DEF E
  <2> QED BY <2>1, <2>2
<1> DEFINE F == Resolving(p)
<1>8. F = E(F)
  <2>1. F = CHOOSE g : g = E(g)
    BY DEF Resolving
  <2> HIDE DEF E, F
  <2> QED BY <1>7, <2>1
<1>9. /\ E(F)[0] = <<>> /\ DOMAIN E(F) = 0..Len(p) /\ E(F) = [h \in 0..Len(p) |-> E(F)[h]]
      /\ \A h \in 1..Len(p) : E(F)[h] = Onward(F[h - 1], p[h])
  <2> HIDE DEF F
  <2> QED BY <1>1 DEF Onward
<1>10. /\ F[0] = <<>> /\ F = [h \in 0..Len(p) |-> F[h]]
       /\ \A h \in 1..Len(p) : F[h] = Onward(F[h - 1], p[h])
  <2> HIDE DEF E, F
  <2> QED BY <1>8, <1>9
<1>12. \A h \in 1..Len(p) : F[h] = Onward(F[h - 1], p[h])
  BY <1>10
<1> HIDE DEF F
<1>11. \A h \in 0..Len(p) : F[h] \in Seq(Int)
  <2> DEFINE P == {m \in Nat : m <= Len(p) => F[m] \in Seq(Int)}
  <2>1. 0 \in P
    BY <1>4, <1>10
  <2>2. ASSUME NEW m \in Nat, m \in P PROVE m + 1 \in P
    <3> SUFFICES ASSUME m + 1 <= Len(p) PROVE F[m + 1] \in Seq(Int)
      OBVIOUS
    <3>1. m + 1 \in 1..Len(p) /\ m + 1 - 1 = m /\ F[m] \in Seq(Int) /\ p[m + 1] \in Int
      BY <1>1, <2>2
    <3>2. F[m + 1] = Onward(F[m + 1 - 1], p[m + 1])
      BY <1>12, <3>1
    <3> QED BY <1>2, <3>1, <3>2
  <2>3. Nat \subseteq P
    <3> HIDE DEF P
    <3> QED BY <2>1, <2>2, ByInduction
  <2> QED BY <1>1, <2>3
<1> QED BY <1>10, <1>11 DEF F

-----------------------------------------------------------------------------
(* The file system. *)

LEMMA TreeFacts ==
  ASSUME fs \in FileSystems
  PROVE  /\ fs.dirs \subseteq Seq(Int) /\ \A u \in fs.dirs : u # <<>> => Front(u) \in fs.dirs
         /\ \A u \in fs.dirs : u # <<>> => Last(u) \in Nat
         /\ fs.skills \subseteq fs.dirs /\ \A s \in fs.skills : Append(s, SkillFile) \notin fs.dirs
         /\ fs.closed \subseteq Seq(Int)
         /\ \A l \in DOMAIN fs.links :
              /\ l \in Seq(Int) /\ l # <<>> /\ Last(l) \in Nat /\ Front(l) \in fs.dirs
              /\ l \notin fs.dirs /\ fs.links[l] \in Seq(Int)
<1>1. Seq(Nat) \subseteq Seq(Int)
  OBVIOUS
<1>2. \A s \in Seq(Nat) : s # <<>> => Last(s) \in Nat
  BY FrontIs
<1> QED BY <1>1, <1>2, FileSystemsAreTrees

LEMMA EvalIs ==
  ASSUME fs \in FileSystems, NEW p \in Seq(Int)
  PROVE  /\ EvalSymlinks(p) \in Seq(Int)
         /\ p = <<>> => EvalSymlinks(p) = <<>>
         /\ \A x \in Int : EvalSymlinks(Append(p, x)) = Onward(EvalSymlinks(p), x)
<1>1. Len(p) \in Nat
  OBVIOUS
<1>2. EvalSymlinks(p) \in Seq(Int) /\ (p = <<>> => EvalSymlinks(p) = <<>>)
  BY <1>1, ResolvingIs DEF EvalSymlinks
<1>3. ASSUME NEW x \in Int PROVE EvalSymlinks(Append(p, x)) = Onward(EvalSymlinks(p), x)
  <2>1. PICK q : q = Append(p, x)
    OBVIOUS
  <2>2. /\ q \in Seq(Int) /\ Len(q) = Len(p) + 1 /\ q[Len(p) + 1] = x
        /\ \A i \in 1..Len(p) : q[i] = p[i]
    BY <2>1, AppendIs
  <2>9. \A n \in 1..Len(q) : Resolving(q)[n] = Onward(Resolving(q)[n - 1], q[n])
    <3>1. q \in Seq(Int)
      BY <2>2
    <3> QED BY ONLY <3>1, fs \in FileSystems, ResolvingIs
  <2> DEFINE P == {m \in Nat : m <= Len(p) => Resolving(q)[m] = Resolving(p)[m]}
  <2>3. 0 \in P
    BY <2>2, ResolvingIs
  <2>4. ASSUME NEW m \in Nat, m \in P PROVE m + 1 \in P
    <3> SUFFICES ASSUME m + 1 <= Len(p) PROVE Resolving(q)[m + 1] = Resolving(p)[m + 1]
      OBVIOUS
    <3>1. m + 1 \in 1..Len(p) /\ m + 1 \in 1..Len(q) /\ m + 1 - 1 = m
      BY <1>1, <2>2
    <3>2. Resolving(q)[m] = Resolving(p)[m]
      BY <1>1, <2>4
    <3>3. Resolving(q)[m + 1] = Onward(Resolving(q)[m + 1 - 1], q[m + 1])
      BY <2>9, <3>1
    <3>4. Resolving(p)[m + 1] = Onward(Resolving(p)[m + 1 - 1], p[m + 1])
      BY <3>1, ResolvingIs
    <3>5. q[m + 1] = p[m + 1]
      BY <2>2, <3>1
    <3> QED BY <3>1, <3>2, <3>3, <3>4, <3>5
  <2>5. Nat \subseteq P
    <3> HIDE DEF P
    <3> QED BY <2>3, <2>4, ByInduction
  <2>6. Resolving(q)[Len(p)] = Resolving(p)[Len(p)]
    BY <1>1, <2>5
  <2>7. Len(q) \in 1..Len(q) /\ Len(q) - 1 = Len(p)
    BY <1>1, <2>2
  <2>8. Resolving(q)[Len(q)] = Onward(Resolving(q)[Len(q) - 1], q[Len(q)])
    BY <2>2, <2>7, ResolvingIs
  <2> QED BY <2>1, <2>2, <2>6, <2>7, <2>8 DEF EvalSymlinks
<1> QED BY <1>2, <1>3

\* A directory's own path leads to it.
LEMMA DirsAreReal ==
  ASSUME fs \in FileSystems
  PROVE  \A u \in fs.dirs : EvalSymlinks(u) = u
<1> DEFINE P == {m \in Nat : \A u \in fs.dirs : Len(u) = m => EvalSymlinks(u) = u}
<1>1. 0 \in P
  BY TreeFacts, EvalIs, SeqIs
<1>2. ASSUME NEW m \in Nat, m \in P PROVE m + 1 \in P
  <2> SUFFICES ASSUME NEW u \in fs.dirs, Len(u) = m + 1 PROVE EvalSymlinks(u) = u
    OBVIOUS
  <2>1. u \in Seq(Int) /\ u # <<>>
    BY TreeFacts
  <2>2. PICK f, x : f = Front(u) /\ x = Last(u)
    OBVIOUS
  <2>3. f \in Seq(Int) /\ Len(f) = m /\ x \in Int /\ u = Append(f, x)
    BY <2>1, <2>2, FrontIs
  <2>4. f \in fs.dirs
    BY <2>1, <2>2, TreeFacts
  <2>5. EvalSymlinks(f) = f
    BY <1>2, <2>3, <2>4
  <2>6. EvalSymlinks(u) = Onward(f, x)
    BY <2>3, <2>5, EvalIs
  <2>7. u \notin DOMAIN fs.links
    BY TreeFacts
  <2> QED BY <2>3, <2>6, <2>7 DEF Onward
<1>3. Nat \subseteq P
  <2> HIDE DEF P
  <2> QED BY <1>1, <1>2, ByInduction
<1> QED BY <1>3, TreeFacts, SeqIs

\* What is above a directory is one.
LEMMA DirsAbove ==
  ASSUME fs \in FileSystems, NEW v \in Seq(Int)
  PROVE  \A u \in fs.dirs : IsPrefix(v, u) => v \in fs.dirs
<1> DEFINE P == {m \in Nat : \A u \in fs.dirs : Len(u) = m /\ IsPrefix(v, u) => v \in fs.dirs}
<1>1. 0 \in P
  <2> SUFFICES ASSUME NEW u \in fs.dirs, Len(u) = 0, IsPrefix(v, u) PROVE v \in fs.dirs
    OBVIOUS
  <2>1. u \in Seq(Int) /\ Len(v) \in Nat
    BY TreeFacts
  <2>2. Len(v) <= Len(u)
    BY <2>1, PrefixIs
  <2>3. v = u
    BY <2>1, <2>2, PrefixOrder
  <2> QED BY <2>3
<1>2. ASSUME NEW m \in Nat, m \in P PROVE m + 1 \in P
  <2> SUFFICES ASSUME NEW u \in fs.dirs, Len(u) = m + 1, IsPrefix(v, u), v # u PROVE v \in fs.dirs
    OBVIOUS
  <2>1. u \in Seq(Int) /\ u # <<>>
    BY TreeFacts
  <2>2. Len(Front(u)) = m /\ Front(u) \in fs.dirs
    BY <2>1, FrontIs, TreeFacts
  <2>3. IsPrefix(v, Front(u))
    BY <2>1, PrefixOrder
  <2> QED BY <1>2, <2>2, <2>3
<1>3. Nat \subseteq P
  <2> HIDE DEF P
  <2> QED BY <1>1, <1>2, ByInduction
<1> QED BY <1>3, TreeFacts, SeqIs

LEMMA SearchableAbove ==
  ASSUME fs \in FileSystems, NEW u \in Seq(Int), NEW v \in Seq(Int), IsPrefix(v, u), Searchable(u)
  PROVE  Searchable(v)
<1> SUFFICES ASSUME NEW c \in fs.closed, IsPrefix(c, v) PROVE FALSE
  BY DEF Searchable
<1>1. c \in Seq(Int)
  BY TreeFacts
<1>2. IsPrefix(c, u)
  BY <1>1, PrefixOrder
<1> QED BY <1>2 DEF Searchable

\* The entries of a directory are what is there below its name.
LEMMA EntriesAre ==
  ASSUME fs \in FileSystems, NEW u \in Seq(Int)
  PROVE  /\ Entries(u) \subseteq Nat
         /\ \A x \in Entries(u) : Append(u, x) \in fs.dirs \cup DOMAIN fs.links
         /\ \A c \in fs.dirs \cup DOMAIN fs.links : c # <<>> /\ Front(c) = u => Last(c) \in Entries(u) /\ c = Append(u, Last(c))
<1>1. \A c \in fs.dirs \cup DOMAIN fs.links : c # <<>> => c \in Seq(Int) /\ Last(c) \in Nat /\ c = Append(Front(c), Last(c))
  BY TreeFacts, FrontIs
<1> QED BY <1>1 DEF Entries

-----------------------------------------------------------------------------
(* What a folder holds, directory by directory. *)

LEMMA BelowIs ==
  ASSUME fs \in FileSystems, NEW l \in Seq(Int), NEW u \in Below(l)
  PROVE  /\ u \in fs.dirs /\ u \in Seq(Int) /\ EvalSymlinks(l) \in Seq(Int)
         /\ IsPrefix(EvalSymlinks(l), u)
         /\ \A i \in (Len(EvalSymlinks(l)) + 1)..Len(u) : u[i] \notin Skipped
         /\ \A v \in fs.skills : ~(IsPrefix(EvalSymlinks(l), v) /\ IsStrictPrefix(v, u))
BY TreeFacts, EvalIs DEF Below

LEMMA BelowStarts ==
  ASSUME fs \in FileSystems, NEW l \in Seq(Int), EvalSymlinks(l) \in fs.dirs
  PROVE  EvalSymlinks(l) \in Below(l)
<1>1. PICK u : u = EvalSymlinks(l)
  OBVIOUS
<1>2. u \in Seq(Int) /\ u \in fs.dirs /\ Len(u) \in Nat
  BY <1>1, EvalIs
<1>3. IsPrefix(u, u)
  BY <1>2, PrefixOrder
<1>4. \A i \in (Len(u) + 1)..Len(u) : u[i] \notin Skipped
  BY <1>2
<1>5. \A v \in fs.skills : ~(IsPrefix(u, v) /\ IsStrictPrefix(v, u))
  <2> SUFFICES ASSUME NEW v \in fs.skills, IsPrefix(u, v), IsPrefix(v, u) PROVE v = u
    BY DEF IsStrictPrefix
  <2>1. v \in Seq(Int)
    BY TreeFacts
  <2>2. Len(u) <= Len(v) /\ Len(v) <= Len(u) /\ Len(v) \in Nat
    BY <1>2, <2>1, PrefixIs
  <2> QED BY <1>2, <2>1, <2>2, PrefixOrder
<1> QED BY <1>1, <1>2, <1>3, <1>4, <1>5 DEF Below

\* A directory of a folder that is no skill's leads on to those in it.
LEMMA BelowGoesOn ==
  ASSUME fs \in FileSystems, NEW l \in Seq(Int), NEW u \in Below(l), u \notin fs.skills,
         NEW x \in Int, x \notin Skipped, Append(u, x) \in fs.dirs
  PROVE  Append(u, x) \in Below(l)
<1>1. PICK top, c : top = EvalSymlinks(l) /\ c = Append(u, x)
  OBVIOUS
<1>2. /\ u \in fs.dirs /\ u \in Seq(Int) /\ top \in Seq(Int) /\ IsPrefix(top, u)
      /\ \A i \in (Len(top) + 1)..Len(u) : u[i] \notin Skipped
      /\ \A v \in fs.skills : ~(IsPrefix(top, v) /\ IsStrictPrefix(v, u))
  BY <1>1, BelowIs
<1>3. /\ c \in Seq(Int) /\ c # <<>> /\ Len(c) = Len(u) + 1 /\ Front(c) = u /\ c[Len(u) + 1] = x
      /\ \A i \in 1..Len(u) : c[i] = u[i]
  BY <1>1, <1>2, AppendIs
<1>4. IsPrefix(top, c)
  BY <1>2, <1>3, PrefixOrder
<1>5. \A i \in (Len(top) + 1)..Len(c) : c[i] \notin Skipped
  <2> TAKE i \in (Len(top) + 1)..Len(c)
  <2>1. Len(top) \in Nat /\ Len(u) \in Nat
    BY <1>2
  <2>2. CASE i = Len(u) + 1
    BY <1>3, <2>2
  <2>3. CASE i # Len(u) + 1
    <3>1. i \in 1..Len(u) /\ i \in (Len(top) + 1)..Len(u)
      BY <1>3, <2>1, <2>3
    <3> QED BY <1>2, <1>3, <3>1
  <2> QED BY <2>2, <2>3
<1>6. ASSUME NEW v \in fs.skills, IsPrefix(top, v), IsStrictPrefix(v, c) PROVE FALSE
  <2>1. v \in Seq(Int) /\ IsPrefix(v, c) /\ v # c
    BY <1>6, TreeFacts DEF IsStrictPrefix
  <2>2. IsPrefix(v, u)
    BY <1>3, <2>1, PrefixOrder
  <2>3. v # u
    OBVIOUS
  <2> QED BY <1>2, <1>6, <2>2, <2>3 DEF IsStrictPrefix
<1> QED BY <1>1, <1>2, <1>3, <1>4, <1>5, <1>6 DEF Below

\* And is reached from the one it is in.
LEMMA BelowComesFrom ==
  ASSUME fs \in FileSystems, NEW l \in Seq(Int), NEW u \in Below(l), u # EvalSymlinks(l)
  PROVE  /\ u # <<>> /\ Front(u) \in Below(l) /\ Front(u) \notin fs.skills
         /\ Last(u) \notin Skipped /\ Last(u) \in Entries(Front(u)) /\ u = Append(Front(u), Last(u))
<1>1. PICK top : top = EvalSymlinks(l)
  OBVIOUS
<1>2. /\ u \in fs.dirs /\ u \in Seq(Int) /\ top \in Seq(Int) /\ IsPrefix(top, u) /\ u # top
      /\ \A i \in (Len(top) + 1)..Len(u) : u[i] \notin Skipped
      /\ \A v \in fs.skills : ~(IsPrefix(top, v) /\ IsStrictPrefix(v, u))
  BY <1>1, BelowIs
<1>3. u # <<>> /\ Len(top) \in Nat /\ Len(u) \in Nat
  <2>1. Len(top) <= Len(u) /\ Len(top) \in Nat /\ Len(u) \in Nat
    BY <1>2, PrefixIs
  <2>2. Len(top) # Len(u)
    BY <1>2, PrefixOrder
  <2> QED BY <2>1, <2>2, <1>2
<1>4. PICK f, x : f = Front(u) /\ x = Last(u)
  OBVIOUS
<1>5. /\ f \in Seq(Int) /\ Len(f) = Len(u) - 1 /\ u = Append(f, x) /\ f \in fs.dirs /\ x \in Int
      /\ \A i \in 1..Len(f) : f[i] = u[i]
  <2>1. /\ Front(u) \in Seq(Int) /\ Len(Front(u)) = Len(u) - 1 /\ Last(u) \in Int
        /\ u = Append(Front(u), Last(u)) /\ \A i \in 1..(Len(u) - 1) : Front(u)[i] = u[i]
    BY <1>2, <1>3, FrontIs
  <2>2. Front(u) \in fs.dirs
    BY <1>2, <1>3, TreeFacts
  <2> QED BY <1>4, <2>1, <2>2
<1>6. u[Len(u)] = x
  BY <1>3, <1>5, AppendIs
<1>7. IsPrefix(top, f)
  BY <1>2, <1>3, <1>4, PrefixOrder
<1>8. Len(top) <= Len(f)
  BY <1>2, <1>5, <1>7, PrefixIs
<1>9. x \notin Skipped
  <2>1. Len(u) \in (Len(top) + 1)..Len(u)
    BY <1>3, <1>5, <1>8
  <2> QED BY <1>2, <1>6, <2>1
<1>10. IsPrefix(f, u) /\ f # u
  <2>1. IsPrefix(f, f)
    BY <1>5, PrefixOrder
  <2>2. IsPrefix(f, u)
    BY <1>2, <1>3, <1>4, <1>5, <2>1, PrefixOrder
  <2>3. f # u
    BY <1>3, <1>5
  <2> QED BY <2>2, <2>3
<1>11. f \notin fs.skills
  BY <1>2, <1>7, <1>10 DEF IsStrictPrefix
<1>12. \A i \in (Len(top) + 1)..Len(f) : f[i] \notin Skipped
  BY <1>2, <1>3, <1>5
<1>13. ASSUME NEW v \in fs.skills, IsPrefix(top, v), IsStrictPrefix(v, f) PROVE FALSE
  <2>1. v \in Seq(Int) /\ IsPrefix(v, f) /\ v # f
    BY <1>13, TreeFacts DEF IsStrictPrefix
  <2>2. IsPrefix(v, u)
    BY <1>2, <1>5, <1>10, <2>1, PrefixOrder
  <2>4. Len(v) <= Len(f) /\ Len(v) \in Nat
    BY <1>5, <2>1, PrefixIs
  <2>3. v # u
    BY <1>3, <1>5, <2>4
  <2> QED BY <1>2, <1>13, <2>2, <2>3 DEF IsStrictPrefix
<1>14. f \in Below(l)
  BY <1>1, <1>5, <1>7, <1>12, <1>13 DEF Below
<1>15. x \in Entries(f)
  BY <1>2, <1>3, <1>4, <1>5, EntriesAre
<1> QED BY <1>3, <1>4, <1>5, <1>9, <1>11, <1>14, <1>15

\* A folder in a folder holds no more than it.
LEMMA BelowWithin ==
  ASSUME fs \in FileSystems, NEW l \in Seq(Int), NEW m \in Seq(Int), EvalSymlinks(m) \in Below(l)
  PROVE  Below(m) \subseteq Below(l)
<1> SUFFICES ASSUME NEW u \in Below(m) PROVE u \in Below(l)
  OBVIOUS
<1>1. PICK p, q : p = EvalSymlinks(l) /\ q = EvalSymlinks(m)
  OBVIOUS
<1>2. /\ u \in fs.dirs /\ u \in Seq(Int) /\ q \in Seq(Int) /\ IsPrefix(q, u)
      /\ \A i \in (Len(q) + 1)..Len(u) : u[i] \notin Skipped
      /\ \A v \in fs.skills : ~(IsPrefix(q, v) /\ IsStrictPrefix(v, u))
  BY <1>1, BelowIs
<1>3. /\ p \in Seq(Int) /\ IsPrefix(p, q)
      /\ \A i \in (Len(p) + 1)..Len(q) : q[i] \notin Skipped
      /\ \A v \in fs.skills : ~(IsPrefix(p, v) /\ IsStrictPrefix(v, q))
  BY <1>1, BelowIs
<1>4. IsPrefix(p, u)
  BY <1>2, <1>3, PrefixOrder
<1>5. \A i \in (Len(p) + 1)..Len(u) : u[i] \notin Skipped
  <2> TAKE i \in (Len(p) + 1)..Len(u)
  <2>1. Len(p) \in Nat /\ Len(q) \in Nat /\ Len(u) \in Nat
    BY <1>2, <1>3
  <2>2. CASE i <= Len(q)
    <3>1. i \in (Len(p) + 1)..Len(q) /\ i \in 1..Len(q)
      BY <2>1, <2>2
    <3>2. q[i] = u[i]
      BY <1>2, <3>1, PrefixIs
    <3> QED BY <1>3, <3>1, <3>2
  <2>3. CASE ~(i <= Len(q))
    <3>1. i \in (Len(q) + 1)..Len(u)
      BY <2>1, <2>3
    <3> QED BY <1>2, <3>1
  <2> QED BY <2>2, <2>3
<1>6. ASSUME NEW v \in fs.skills, IsPrefix(p, v), IsStrictPrefix(v, u) PROVE FALSE
  <2>1. v \in Seq(Int) /\ IsPrefix(v, u) /\ v # u /\ Len(v) \in Nat /\ Len(q) \in Nat
    BY <1>2, <1>6, TreeFacts DEF IsStrictPrefix
  <2>2. CASE Len(q) <= Len(v)
    <3>1. IsPrefix(q, v)
      BY <1>2, <2>1, <2>2, PrefixOrder
    <3> QED BY <1>2, <1>6, <3>1
  <2>3. CASE Len(v) < Len(q)
    <3>1. IsPrefix(v, q)
      BY <1>2, <2>1, <2>3, PrefixOrder
    <3>2. v # q
      BY <2>3, <2>1
    <3> QED BY <1>3, <1>6, <3>1, <3>2 DEF IsStrictPrefix
  <2> QED BY <2>1, <2>2, <2>3
<1> QED BY <1>1, <1>2, <1>4, <1>5, <1>6 DEF Below

-----------------------------------------------------------------------------
(***************************************************************************)
(* What the walk knows. v is a discoverer and st its open frames, so that  *)
(* the value after a step can be spoken of before it is taken.             *)
(***************************************************************************)
FrameType == [path : Seq(Int), real : Seq(Int), root : Seq(Int), depth : Int, rest : SUBSET Nat]
ReachType == [path : Seq(Int), real : Seq(Int), root : Seq(Int), via : BOOLEAN, file : BOOLEAN]
NoteKinds == {"bundles", "unreadable", "not followed"}
NoteType == [path : Seq(Int), kind : NoteKinds]
DiscovererType ==
  [order : Seq(Seq(Int)), reach : Seq(Seq(ReachType)), errs : SUBSET NoteType,
   seen : SUBSET Seq(Int), pruned : SUBSET Seq(Int), stopped : BOOLEAN]

\* A path that is behind no link.
Unlinked(r) == EvalSymlinks(r) = r

\* A path is in a folder: each directory on the way from root to path leads there.
OnTheWay(root, path) == {SubSeq(path, 1, n) : n \in Len(root)..Len(path)}

Holds(l, b) == \E p \in Places(l) : p.real = b

\* No root that leads to a bundle is behind a link.
Straight(b) == \A q \in ToSet(roots) : Holds(q, b) => Unlinked(q)

\* What leads to a bundle is a path to it, below a root, and the bundle is what
\* every directory on the way holds.
EntryOK(r) ==
  /\ EvalSymlinks(r.path) = r.real
  /\ r.root \in ToSet(roots) /\ IsPrefix(r.root, r.path)
  /\ \A l \in OnTheWay(r.root, r.path) : Holds(l, r.real)

OrderOK(v) ==
  /\ Len(v.reach) = Len(v.order)
  /\ \A i, j \in DOMAIN v.order : v.order[i] = v.order[j] => i = j
  /\ \A i \in DOMAIN v.order :
       /\ v.reach[i] # <<>>
       /\ \A k \in DOMAIN v.reach[i] : EntryOK(v.reach[i][k]) /\ v.reach[i][k].real = v.order[i]
  /\ v.stopped => \E n \in v.errs : n.kind = "bundles"

\* The bundle at a spot was kept, unless the cap was hit.
Kept(v, spot, real) ==
  \/ v.stopped
  \/ \E i \in DOMAIN v.order :
       v.order[i] = real /\ (Straight(real) => \E k \in DOMAIN v.reach[i] : v.reach[i][k].path = spot)

\* All was done that an entry of a directory asks for.
Handled(v, c) ==
  \/ v.stopped
  \/ /\ c \in DOMAIN fs.links /\ IsBundleDir(fs.links[c]) => Kept(v, c, fs.links[c])
     /\ c \in fs.dirs /\ Last(c) \notin Skipped => c \in v.seen \/ v.pruned # {}

\* What is in seen was looked at, or is being so in an open frame.
Looked(v, st, u) ==
  /\ u \in fs.dirs
  /\ IsBundleDir(u) => Kept(v, u, u)
  /\ ~IsBundleDir(u) /\ ~Searchable(u) => \E n \in v.errs : n.kind = "unreadable" /\ EvalSymlinks(n.path) = u
  /\ ~IsBundleDir(u) /\ Searchable(u) =>
       \A x \in Entries(u) : Handled(v, Append(u, x)) \/ \E i \in DOMAIN st : st[i].real = u /\ x \in st[i].rest

FrameOK(v, f) ==
  /\ f.real \in v.seen /\ EvalSymlinks(f.path) = f.real
  /\ ~IsBundleDir(f.real) /\ Searchable(f.real)
  /\ f.rest \subseteq Entries(f.real)
  /\ f.root \in ToSet(roots) /\ IsPrefix(f.root, f.path)
  /\ \A l \in OnTheWay(f.root, f.path) : f.real \in Below(l)
  /\ Unlinked(f.root) => f.path = f.real

RootDone(v, r) ==
  \/ v.stopped
  \/ IsDir(EvalSymlinks(r)) /\ EvalSymlinks(r) \in v.seen
  \/ IsSkillFile(EvalSymlinks(r)) /\ Kept(v, EvalSymlinks(r), EvalSymlinks(r))

WalkOK(v, st, t) ==
  /\ v \in DiscovererType /\ st \in Seq(FrameType) /\ t \in 1..(Len(roots) + 1)
  /\ OrderOK(v)
  /\ \A i \in DOMAIN st : FrameOK(v, st[i])
  /\ \A u \in v.seen : Looked(v, st, u)
  /\ \A j \in 1..(t - 1) : RootDone(v, roots[j])

WalkInv ==
  /\ fs \in FileSystems /\ roots \in Seq(Seq(Int))
  /\ walking \in {"on", "failed", "done"} => WalkOK(d, stack, turn)
  /\ walking = "done" => stack = <<>> /\ (turn > Len(roots) \/ d.stopped)

-----------------------------------------------------------------------------
(* What grows keeps what it had. *)

Grows(v, w) ==
  /\ v.seen \subseteq w.seen /\ v.errs \subseteq w.errs /\ v.pruned \subseteq w.pruned
  /\ v.stopped => w.stopped
  /\ \A i \in DOMAIN v.order :
       /\ i \in DOMAIN w.order /\ w.order[i] = v.order[i]
       /\ \A k \in DOMAIN v.reach[i] : k \in DOMAIN w.reach[i] /\ w.reach[i][k] = v.reach[i][k]

LEMMA KeptGrows ==
  ASSUME NEW v, NEW w, Grows(v, w)
  PROVE  /\ \A spot, real : Kept(v, spot, real) => Kept(w, spot, real)
         /\ \A c : Handled(v, c) => Handled(w, c)
         /\ \A r : RootDone(v, r) => RootDone(w, r)
<1>1. ASSUME NEW spot, NEW real, Kept(v, spot, real) PROVE Kept(w, spot, real)
  BY <1>1 DEF Kept, Grows
<1>2. ASSUME NEW c, Handled(v, c) PROVE Handled(w, c)
  <2>1. v.seen \subseteq w.seen /\ (v.pruned # {} => w.pruned # {}) /\ (v.stopped => w.stopped)
    BY DEF Grows
  <2> QED BY <1>1, <1>2, <2>1 DEF Handled
<1>3. ASSUME NEW r, RootDone(v, r) PROVE RootDone(w, r)
  <2>1. v.seen \subseteq w.seen /\ (v.stopped => w.stopped)
    BY DEF Grows
  <2> QED BY <1>1, <1>3, <2>1 DEF RootDone
<1> QED BY <1>1, <1>2, <1>3

LEMMA PlacesAre ==
  ASSUME NEW l
  PROVE  /\ \A u \in Below(l) \cap fs.skills : [spot |-> u, real |-> u] \in Places(l) /\ Holds(l, u)
         /\ \A c \in DOMAIN fs.links : Front(c) \in Below(l) \ fs.skills /\ IsBundleDir(fs.links[c]) =>
              [spot |-> c, real |-> fs.links[c]] \in Places(l) /\ Holds(l, fs.links[c])
         /\ EvalSymlinks(l) \in SkillFiles =>
              [spot |-> EvalSymlinks(l), real |-> EvalSymlinks(l)] \in Places(l) /\ Holds(l, EvalSymlinks(l))
<1>1. ASSUME NEW u \in Below(l) \cap fs.skills PROVE [spot |-> u, real |-> u] \in Places(l) /\ Holds(l, u)
  <2>1. [spot |-> u, real |-> u] \in Places(l)
    BY DEF Places
  <2> QED BY <2>1 DEF Holds
<1>2. ASSUME NEW c \in DOMAIN fs.links, Front(c) \in Below(l) \ fs.skills, IsBundleDir(fs.links[c])
      PROVE [spot |-> c, real |-> fs.links[c]] \in Places(l) /\ Holds(l, fs.links[c])
  <2>1. [spot |-> c, real |-> fs.links[c]] \in Places(l)
    BY <1>2 DEF Places
  <2> QED BY <2>1 DEF Holds
<1>3. ASSUME EvalSymlinks(l) \in SkillFiles
      PROVE [spot |-> EvalSymlinks(l), real |-> EvalSymlinks(l)] \in Places(l) /\ Holds(l, EvalSymlinks(l))
  <2>1. [spot |-> EvalSymlinks(l), real |-> EvalSymlinks(l)] \in Places(l)
    BY <1>3 DEF Places
  <2> QED BY <2>1 DEF Holds
<1> QED BY <1>1, <1>2, <1>3

LEMMA NotesAre ==
  ASSUME NEW p \in Seq(Int)
  PROVE  \A k \in NoteKinds : Note(p, k) \in NoteType /\ Note(p, k).path = p /\ Note(p, k).kind = k
BY DEF Note, NoteType

\* A path below a root starts at it.
LEMMA RootOnTheWay ==
  ASSUME NEW root \in Seq(Int), NEW path \in Seq(Int), IsPrefix(root, path)
  PROVE  root \in OnTheWay(root, path)
<1>1. Len(root) \in Nat /\ Len(path) \in Nat /\ Len(root) <= Len(path)
  BY DEF IsPrefix
<1>2. SubSeq(path, 1, Len(root)) = root
  <2>1. SubSeq(root, 1, Len(root)) = SubSeq(path, 1, Len(root))
    BY DEF IsPrefix
  <2>2. PICK u : u = SubSeq(root, 1, Len(root))
    OBVIOUS
  <2>3. u \in Seq(Int) /\ Len(u) = Len(root) /\ \A i \in 1..Len(root) : u[i] = root[i]
    BY <1>1, <2>2, SubSeqProperties
  <2>4. u = root
    BY <2>3, SameSeq
  <2> QED BY <2>1, <2>2, <2>4
<1>3. Len(root) \in Len(root)..Len(path)
  BY <1>1
<1> QED BY <1>2, <1>3 DEF OnTheWay

\* What Add makes of a discoverer.
LEMMA AddKeeps ==
  ASSUME NEW v \in DiscovererType, OrderOK(v), NEW r \in ReachType, EntryOK(r),
         NEW spot, Straight(r.real) => spot = r.path
  PROVE  LET w == Add(v, r)
         IN w \in DiscovererType /\ OrderOK(w) /\ Grows(v, w) /\ w.seen = v.seen /\ Kept(w, spot, r.real)
<1>1. PICK w : w = Add(v, r)
  OBVIOUS
<1>2. /\ v.order \in Seq(Seq(Int)) /\ v.reach \in Seq(Seq(ReachType)) /\ v.errs \subseteq NoteType
      /\ v.seen \subseteq Seq(Int) /\ v.pruned \subseteq Seq(Int) /\ v.stopped \in BOOLEAN
      /\ r.path \in Seq(Int) /\ r.real \in Seq(Int) /\ r.root \in Seq(Int)
  BY DEF DiscovererType, ReachType
<1>3. PICK n : n = Len(v.order)
  OBVIOUS
<1>4. /\ n \in Nat /\ Len(v.reach) = n /\ DOMAIN v.order = 1..n /\ DOMAIN v.reach = 1..n
      /\ \A i \in 1..n : v.order[i] \in Seq(Int) /\ v.reach[i] \in Seq(ReachType)
  BY <1>2, <1>3 DEF OrderOK
<1>5. /\ \A i, j \in 1..n : v.order[i] = v.order[j] => i = j
      /\ \A i \in 1..n : v.reach[i] # <<>>
      /\ \A i \in 1..n : \A k \in DOMAIN v.reach[i] : EntryOK(v.reach[i][k]) /\ v.reach[i][k].real = v.order[i]
      /\ v.stopped => \E m \in v.errs : m.kind = "bundles"
  BY <1>4 DEF OrderOK
<1> DEFINE Good == w \in DiscovererType /\ OrderOK(w) /\ Grows(v, w) /\ w.seen = v.seen /\ Kept(w, spot, r.real)
<1> SUFFICES Good
  BY <1>1
<1>6. CASE \E i \in DOMAIN v.order : v.order[i] = r.real
  <2>1. PICK j \in 1..n : v.order[j] = r.real
    BY <1>4, <1>6
  <2>2. PICK reach : reach = [i \in 1..n |-> IF v.order[i] = r.real THEN Append(v.reach[i], r) ELSE v.reach[i]]
    OBVIOUS
  <2>3. w = [v EXCEPT !.reach = reach]
    BY <1>1, <1>4, <1>6, <2>2 DEF Add
  <2>4. /\ w.order = v.order /\ w.errs = v.errs /\ w.seen = v.seen /\ w.pruned = v.pruned
        /\ w.stopped = v.stopped /\ w.reach = reach
    BY <2>3 DEF DiscovererType
  <2>5. \A i \in 1..n : IF v.order[i] = r.real THEN reach[i] = Append(v.reach[i], r) ELSE reach[i] = v.reach[i]
    BY <2>2
  <2>6. ASSUME NEW i \in 1..n
        PROVE  /\ reach[i] \in Seq(ReachType) /\ reach[i] # <<>>
               /\ \A k \in DOMAIN v.reach[i] : k \in DOMAIN reach[i] /\ reach[i][k] = v.reach[i][k]
               /\ \A k \in DOMAIN reach[i] : k \in DOMAIN v.reach[i] \/ (reach[i][k] = r /\ v.order[i] = r.real)
               /\ v.order[i] = r.real => \E k \in DOMAIN reach[i] : reach[i][k] = r
    <3>1. v.reach[i] \in Seq(ReachType) /\ v.reach[i] # <<>>
      BY <1>4, <1>5
    <3>2. CASE v.order[i] # r.real
      BY <2>5, <3>1, <3>2
    <3>3. CASE v.order[i] = r.real
      <4>1. PICK a : a = v.reach[i]
        OBVIOUS
      <4>2. reach[i] = Append(a, r) /\ a \in Seq(ReachType)
        BY <2>5, <3>1, <3>3, <4>1
      <4>3. /\ Append(a, r) \in Seq(ReachType) /\ Len(Append(a, r)) = Len(a) + 1 /\ Len(a) \in Nat
            /\ \A k \in 1..Len(a) : Append(a, r)[k] = a[k]
            /\ Append(a, r)[Len(a) + 1] = r /\ Append(a, r) # <<>>
        BY <4>2, AppendIs
      <4>4. DOMAIN a = 1..Len(a) /\ DOMAIN Append(a, r) = 1..(Len(a) + 1)
        BY <4>2, <4>3
      <4> QED BY ONLY <3>3, <4>1, <4>2, <4>3, <4>4
    <3> QED BY <3>2, <3>3
  <2>7. reach \in Seq(Seq(ReachType)) /\ Len(reach) = n /\ DOMAIN reach = 1..n
    <3>1. reach = [i \in 1..n |-> reach[i]]
      BY <2>2
    <3>2. reach \in [1..n -> Seq(ReachType)]
      BY <2>6, <3>1
    <3> QED BY <1>4, <3>2
  <2>8. w \in DiscovererType
    BY <1>2, <2>3, <2>7 DEF DiscovererType
  <2>9. \A i \in 1..n : \A k \in DOMAIN reach[i] : EntryOK(reach[i][k]) /\ reach[i][k].real = v.order[i]
    BY <1>5, <2>6
  <2>10. OrderOK(w)
    BY <1>4, <1>5, <2>4, <2>6, <2>7, <2>9 DEF OrderOK
  <2>11. Grows(v, w)
    BY <1>4, <2>4, <2>6 DEF Grows
  <2>12. Kept(w, spot, r.real)
    BY <1>4, <2>1, <2>4, <2>6 DEF Kept
  <2> QED BY <2>4, <2>8, <2>10, <2>11, <2>12
<1>7. CASE ~(\E i \in DOMAIN v.order : v.order[i] = r.real) /\ Len(v.order) >= limits.bundles
  <2>1. w = [v EXCEPT !.stopped = TRUE, !.errs = IF v.stopped THEN @ ELSE @ \cup {Note(r.root, "bundles")}]
    BY <1>1, <1>7 DEF Add
  <2>2. PICK errs : errs = IF v.stopped THEN v.errs ELSE v.errs \cup {Note(r.root, "bundles")}
    OBVIOUS
  <2>3. /\ w.order = v.order /\ w.errs = errs /\ w.seen = v.seen /\ w.pruned = v.pruned
        /\ w.stopped = TRUE /\ w.reach = v.reach
    BY <2>1, <2>2 DEF DiscovererType
  <2>4. Note(r.root, "bundles") \in NoteType /\ Note(r.root, "bundles").kind = "bundles"
    BY <1>2, NotesAre DEF NoteKinds
  <2>5. errs \subseteq NoteType /\ v.errs \subseteq errs /\ \E m \in errs : m.kind = "bundles"
    BY <1>2, <1>5, <2>2, <2>4
  <2>6. w \in DiscovererType
    BY <1>2, <2>1, <2>2, <2>5 DEF DiscovererType
  <2>7. OrderOK(w)
    BY ONLY <1>4, <1>5, <2>3, <2>5 DEF OrderOK
  <2>8. Grows(v, w)
    BY <1>4, <2>3, <2>5 DEF Grows
  <2>9. Kept(w, spot, r.real)
    BY <2>3 DEF Kept
  <2> QED BY <2>3, <2>6, <2>7, <2>8, <2>9
<1>8. CASE ~(\E i \in DOMAIN v.order : v.order[i] = r.real) /\ ~(Len(v.order) >= limits.bundles)
  <2>1. PICK order, reach : order = Append(v.order, r.real) /\ reach = Append(v.reach, <<r>>)
    OBVIOUS
  <2>2. w = [v EXCEPT !.order = order, !.reach = reach]
    BY <1>1, <1>8, <2>1 DEF Add
  <2>3. /\ w.order = order /\ w.errs = v.errs /\ w.seen = v.seen /\ w.pruned = v.pruned
        /\ w.stopped = v.stopped /\ w.reach = reach
    BY <2>2 DEF DiscovererType
  <2>4. /\ order \in Seq(Seq(Int)) /\ Len(order) = n + 1 /\ DOMAIN order = 1..(n + 1)
        /\ \A i \in 1..n : order[i] = v.order[i]
        /\ order[n + 1] = r.real
    BY <1>2, <1>3, <1>4, <2>1, AppendProperties
  <2>5. <<r>> \in Seq(ReachType) /\ <<r>> # <<>> /\ DOMAIN <<r>> = {1} /\ <<r>>[1] = r
    OBVIOUS
  <2>6. /\ reach \in Seq(Seq(ReachType)) /\ Len(reach) = n + 1
        /\ \A i \in 1..n : reach[i] = v.reach[i]
        /\ reach[n + 1] = <<r>>
    BY <1>2, <1>4, <2>1, <2>5, AppendProperties
  <2>7. w \in DiscovererType
    BY <1>2, <2>2, <2>4, <2>6 DEF DiscovererType
  <2>8. \A i \in 1..(n + 1) : i \in 1..n \/ i = n + 1
    BY <1>4
  <2>9. \A i \in 1..n : v.order[i] # r.real
    BY <1>4, <1>8
  <2>10. \A i, j \in 1..(n + 1) : order[i] = order[j] => i = j
    BY <1>5, <2>4, <2>8, <2>9
  <2>11. ASSUME NEW i \in 1..(n + 1)
         PROVE  /\ reach[i] # <<>>
                /\ \A k \in DOMAIN reach[i] : EntryOK(reach[i][k]) /\ reach[i][k].real = order[i]
    <3>1. CASE i \in 1..n
      BY <1>5, <2>4, <2>6, <3>1
    <3>2. CASE i = n + 1
      BY <2>4, <2>5, <2>6, <3>2
    <3> QED BY <2>8, <3>1, <3>2
  <2>12. OrderOK(w)
    BY <1>5, <2>3, <2>4, <2>6, <2>10, <2>11 DEF OrderOK
  <2>13. Grows(v, w)
    BY <1>4, <2>3, <2>4, <2>6 DEF Grows
  <2>14. Kept(w, spot, r.real)
    <3>1. n + 1 \in DOMAIN w.order /\ w.order[n + 1] = r.real
      BY <1>4, <2>3, <2>4
    <3>2. 1 \in DOMAIN w.reach[n + 1] /\ w.reach[n + 1][1] = r
      BY <2>3, <2>5, <2>6
    <3> QED BY <3>1, <3>2 DEF Kept
  <2> QED BY <2>3, <2>7, <2>12, <2>13, <2>14
<1> QED BY <1>6, <1>7, <1>8

LEMMA GrowsIsOrder ==
  /\ \A v : Grows(v, v)
  /\ \A v, w, x : Grows(v, w) /\ Grows(w, x) => Grows(v, x)
<1>1. ASSUME NEW v PROVE Grows(v, v)
  BY DEF Grows
<1>2. ASSUME NEW v, NEW w, NEW x, Grows(v, w), Grows(w, x) PROVE Grows(v, x)
  <2>1. ASSUME NEW i \in DOMAIN v.order
        PROVE  /\ i \in DOMAIN x.order /\ x.order[i] = v.order[i]
               /\ \A k \in DOMAIN v.reach[i] : k \in DOMAIN x.reach[i] /\ x.reach[i][k] = v.reach[i][k]
    <3>1. /\ i \in DOMAIN w.order /\ w.order[i] = v.order[i]
          /\ \A k \in DOMAIN v.reach[i] : k \in DOMAIN w.reach[i] /\ w.reach[i][k] = v.reach[i][k]
      BY <1>2 DEF Grows
    <3>2. /\ i \in DOMAIN x.order /\ x.order[i] = w.order[i]
          /\ \A k \in DOMAIN w.reach[i] : k \in DOMAIN x.reach[i] /\ x.reach[i][k] = w.reach[i][k]
      BY <1>2, <3>1 DEF Grows
    <3> QED BY <3>1, <3>2
  <2> QED BY <1>2, <2>1 DEF Grows
<1> QED BY <1>1, <1>2

\* A note or a directory seen changes nothing else of a discoverer.
LEMMA NotedKeeps ==
  ASSUME NEW v \in DiscovererType, OrderOK(v), NEW w \in DiscovererType,
         w.order = v.order, w.reach = v.reach, w.stopped = v.stopped,
         v.seen \subseteq w.seen, v.errs \subseteq w.errs, v.pruned \subseteq w.pruned
  PROVE  OrderOK(w) /\ Grows(v, w)
<1>1. OrderOK(w)
  <2>1. v.stopped => \E n \in w.errs : n.kind = "bundles"
    BY DEF OrderOK
  <2> QED BY <2>1 DEF OrderOK
<1> QED BY <1>1 DEF Grows

\* A directory that is entered is seen, and is a bundle that is kept, or is noted, or
\* has a frame of its own -- unless it was entered before.
LEMMA EnterKeeps ==
  ASSUME fs \in FileSystems, d \in DiscovererType, OrderOK(d),
         NEW path \in Seq(Int), NEW real \in fs.dirs, NEW root \in Seq(Int), NEW depth \in Int,
         EvalSymlinks(path) = real, root \in ToSet(roots), IsPrefix(root, path),
         \A l \in OnTheWay(root, path) : real \in Below(l), Unlinked(root) => path = real
  PROVE  LET w == Enter(path, real, root)
             o == Opened(path, real, root, depth)
         IN /\ w \in DiscovererType /\ OrderOK(w) /\ Grows(d, w)
            /\ w.stopped \/ real \in w.seen
            /\ w.seen \subseteq d.seen \cup {real}
            /\ o \in Seq(FrameType) /\ \A i \in DOMAIN o : FrameOK(w, o[i])
            /\ real \in d.seen \/ real \notin w.seen \/ Looked(w, o, real)
<1>1. PICK w, o : w = Enter(path, real, root) /\ o = Opened(path, real, root, depth)
  OBVIOUS
<1> DEFINE Good == /\ w \in DiscovererType /\ OrderOK(w) /\ Grows(d, w)
                   /\ w.stopped \/ real \in w.seen
                   /\ w.seen \subseteq d.seen \cup {real}
                   /\ o \in Seq(FrameType) /\ \A i \in DOMAIN o : FrameOK(w, o[i])
                   /\ real \in d.seen \/ real \notin w.seen \/ Looked(w, o, real)
<1> SUFFICES Good
  BY <1>1
<1>2. <<>> \in Seq(FrameType) /\ \A i \in DOMAIN <<>> : FrameOK(w, <<>>[i])
  OBVIOUS
<1>3. real \in Seq(Int) /\ Entries(real) \subseteq Nat
  BY TreeFacts, EntriesAre
<1>4. CASE d.stopped \/ real \in d.seen
  <2>1. w = d /\ o = <<>>
    BY <1>1, <1>4 DEF Enter, Opened
  <2>2. w.stopped \/ real \in w.seen
    BY <1>4, <2>1
  <2>3. Grows(d, w)
    BY <2>1, GrowsIsOrder
  <2>4. real \in d.seen \/ real \notin w.seen
    BY <2>1
  <2>5. o \in Seq(FrameType) /\ \A i \in DOMAIN o : FrameOK(w, o[i])
    BY <1>2, <2>1
  <2> QED BY <2>1, <2>2, <2>3, <2>4, <2>5
<1>5. CASE ~d.stopped /\ real \notin d.seen
  <2>1. PICK v : v = [d EXCEPT !.seen = d.seen \cup {real}]
    OBVIOUS
  <2>2. /\ v \in DiscovererType /\ v.order = d.order /\ v.reach = d.reach /\ v.stopped = d.stopped
        /\ v.seen = d.seen \cup {real} /\ v.errs = d.errs /\ v.pruned = d.pruned
    BY <1>3, <2>1 DEF DiscovererType
  <2>3. OrderOK(v) /\ Grows(d, v)
    BY <2>2, NotedKeeps
  <2>4. CASE IsBundleDir(real)
    <3>1. PICK r : r = Reach(path, real, root, FALSE, FALSE)
      OBVIOUS
    <3>2. r \in ReachType /\ r.path = path /\ r.real = real /\ r.root = root
      BY <1>3, <3>1 DEF Reach, ReachType
    <3>3. \A l \in OnTheWay(root, path) : Holds(l, real)
      BY <2>4, PlacesAre DEF IsBundleDir
    <3>4. EntryOK(r)
      BY <3>2, <3>3 DEF EntryOK
    <3>5. w = Add(v, r) /\ o = <<>>
      BY <1>1, <1>5, <2>1, <2>4, <3>1 DEF Enter, Opened
    <3>6. Straight(r.real) => real = r.path
      <4>1. Holds(root, real)
        BY <3>3, RootOnTheWay
      <4> QED BY <3>2, <4>1 DEF Straight
    <3>7. w \in DiscovererType /\ OrderOK(w) /\ Grows(v, w) /\ w.seen = v.seen /\ Kept(w, real, r.real)
      BY <2>2, <2>3, <3>2, <3>4, <3>5, <3>6, AddKeeps
    <3>8. Grows(d, w)
      BY <2>3, <3>7, GrowsIsOrder
    <3>9. Looked(w, o, real)
      BY <2>4, <3>2, <3>7 DEF Looked
    <3>10. w.seen = d.seen \cup {real}
      BY <2>2, <3>7
    <3>11. o \in Seq(FrameType) /\ \A i \in DOMAIN o : FrameOK(w, o[i])
      BY <1>2, <3>5
    <3> QED BY <3>7, <3>8, <3>9, <3>10, <3>11
  <2>5. CASE ~IsBundleDir(real) /\ ~Searchable(real)
    <3>1. PICK n : n = Note(path, "unreadable")
      OBVIOUS
    <3>2. n \in NoteType /\ n.path = path /\ n.kind = "unreadable"
      BY <3>1, NotesAre DEF NoteKinds
    <3>3. w = [v EXCEPT !.errs = d.errs \cup {n}] /\ o = <<>>
      BY <1>1, <1>5, <2>1, <2>2, <2>5, <3>1 DEF Enter, Opened
    <3>4. /\ w \in DiscovererType /\ w.order = v.order /\ w.reach = v.reach /\ w.stopped = v.stopped
          /\ w.seen = v.seen /\ w.errs = v.errs \cup {n} /\ w.pruned = v.pruned
      BY <2>2, <3>2, <3>3 DEF DiscovererType
    <3>5. OrderOK(w) /\ Grows(v, w)
      BY <2>2, <2>3, <3>4, NotedKeeps
    <3>6. Grows(d, w)
      BY <2>3, <3>5, GrowsIsOrder
    <3>7. Looked(w, o, real)
      BY <2>5, <3>2, <3>4 DEF Looked
    <3>8. w.seen = d.seen \cup {real}
      BY <2>2, <3>4
    <3>9. o \in Seq(FrameType) /\ \A i \in DOMAIN o : FrameOK(w, o[i])
      BY <1>2, <3>3
    <3> QED BY <3>4, <3>5, <3>6, <3>7, <3>8, <3>9
  <2>6. CASE ~IsBundleDir(real) /\ Searchable(real)
    <3>1. PICK f : f = Frame(path, real, root, depth)
      OBVIOUS
    <3>2. f \in FrameType /\ f.path = path /\ f.real = real /\ f.root = root /\ f.rest = Entries(real)
      BY <1>3, <3>1 DEF Frame, FrameType
    <3>3. w = v /\ o = <<f>>
      BY <1>1, <1>5, <2>1, <2>6, <3>1 DEF Enter, Opened
    <3>4. FrameOK(w, f)
      BY <2>2, <2>6, <3>2, <3>3 DEF FrameOK
    <3>5. o \in Seq(FrameType) /\ DOMAIN o = {1} /\ o[1] = f
      BY <3>2, <3>3
    <3>6. Looked(w, o, real)
      BY <2>6, <3>2, <3>5 DEF Looked
    <3>7. \A i \in DOMAIN o : FrameOK(w, o[i])
      BY <3>4, <3>5
    <3> QED BY <2>2, <2>3, <3>3, <3>5, <3>6, <3>7
  <2> QED BY <2>4, <2>5, <2>6
<1> QED BY <1>4, <1>5

-----------------------------------------------------------------------------
(* The file system and the roots stay as they are while the walk goes on. *)

LEMMA SameFs ==
  ASSUME fs' = fs
  PROVE  /\ \A p : EvalSymlinks(p)' = EvalSymlinks(p)
         /\ \A p : Searchable(p)' <=> Searchable(p)
         /\ \A p : IsDir(p)' <=> IsDir(p)
         /\ \A p : IsBundleDir(p)' <=> IsBundleDir(p)
         /\ \A p : IsSkillFile(p)' <=> IsSkillFile(p)
         /\ \A p : Entries(p)' = Entries(p)
         /\ SkillFiles' = SkillFiles
<1>1. \A p : EvalSymlinks(p)' = EvalSymlinks(p)
  BY Zenon DEF EvalSymlinks, Resolving
<1> QED BY <1>1 DEF Searchable, IsDir, IsBundleDir, IsSkillFile, Entries, SkillFiles

LEMMA SamePlaces ==
  ASSUME fs' = fs
  PROVE  /\ \A l : Below(l)' = Below(l)
         /\ \A l : Places(l)' = Places(l)
         /\ \A l, b : Holds(l, b)' <=> Holds(l, b)
<1>1. \A l : Below(l)' = Below(l)
  BY SameFs DEF Below
<1>2. \A l : Places(l)' = Places(l)
  BY <1>1, SameFs DEF Places
<1> QED BY <1>1, <1>2 DEF Holds

LEMMA SameWalk ==
  ASSUME fs' = fs, roots' = roots
  PROVE  \A v, st, t : WalkOK(v, st, t)' <=> WalkOK(v, st, t)
<1>1. /\ \A r : Unlinked(r)' <=> Unlinked(r)
      /\ \A b : Straight(b)' <=> Straight(b)
  BY SameFs, SamePlaces DEF Unlinked, Straight
<1>2. \A v, spot, real : Kept(v, spot, real)' <=> Kept(v, spot, real)
  BY <1>1 DEF Kept
<1>3. \A v, c : Handled(v, c)' <=> Handled(v, c)
  BY <1>2, SameFs DEF Handled
<1>4. \A v, st, u : Looked(v, st, u)' <=> Looked(v, st, u)
  BY <1>2, <1>3, SameFs DEF Looked
<1>5. \A v, f : FrameOK(v, f)' <=> FrameOK(v, f)
  BY <1>1, SameFs, SamePlaces DEF FrameOK, OnTheWay
<1>6. \A v, r : RootDone(v, r)' <=> RootDone(v, r)
  BY <1>2, SameFs DEF RootDone
<1>7. \A r : EntryOK(r)' <=> EntryOK(r)
  BY SameFs, SamePlaces DEF EntryOK, OnTheWay
<1>8. \A v : OrderOK(v)' <=> OrderOK(v)
  BY <1>7 DEF OrderOK
<1> QED BY <1>4, <1>5, <1>6, <1>8 DEF WalkOK, DiscovererType

-----------------------------------------------------------------------------
(* A step of the walk. *)

LEMMA WalkTyped ==
  ASSUME fs \in FileSystems, roots \in Seq(Seq(Int)), WalkOK(d, stack, turn)
  PROVE  /\ d.order \in Seq(Seq(Int)) /\ d.reach \in Seq(Seq(ReachType)) /\ d.errs \subseteq NoteType
         /\ d.seen \subseteq Seq(Int) /\ d.pruned \subseteq Seq(Int) /\ d.stopped \in BOOLEAN
         /\ turn \in Nat /\ turn >= 1 /\ turn <= Len(roots) + 1 /\ Len(roots) \in Nat
         /\ Len(stack) \in Nat /\ DOMAIN stack = 1..Len(stack)
         /\ \A i \in 1..Len(stack) :
              /\ stack[i] \in FrameType /\ stack[i].path \in Seq(Int) /\ stack[i].real \in Seq(Int)
              /\ stack[i].root \in Seq(Int) /\ stack[i].depth \in Int /\ stack[i].rest \subseteq Nat
<1>1. d \in DiscovererType /\ stack \in Seq(FrameType) /\ turn \in 1..(Len(roots) + 1) /\ Len(roots) \in Nat
  BY DEF WalkOK
<1>2. Len(stack) \in Nat /\ DOMAIN stack = 1..Len(stack) /\ \A i \in 1..Len(stack) : stack[i] \in FrameType
  BY <1>1
<1>3. \A f \in FrameType : /\ f.path \in Seq(Int) /\ f.real \in Seq(Int) /\ f.root \in Seq(Int)
                          /\ f.depth \in Int /\ f.rest \subseteq Nat
  BY DEF FrameType
<1>4. turn \in Nat /\ turn >= 1 /\ turn <= Len(roots) + 1
  BY <1>1
<1>5. /\ d.order \in Seq(Seq(Int)) /\ d.reach \in Seq(Seq(ReachType)) /\ d.errs \subseteq NoteType
      /\ d.seen \subseteq Seq(Int) /\ d.pruned \subseteq Seq(Int) /\ d.stopped \in BOOLEAN
  BY <1>1 DEF DiscovererType
<1> QED BY <1>1, <1>2, <1>3, <1>4, <1>5

\* What was to be done of the open frames is done, or left to the new ones.
Passes(w, st) ==
  \A i \in DOMAIN stack : \A x \in stack[i].rest :
    Handled(w, Append(stack[i].real, x)) \/ \E j \in DOMAIN st : st[j].real = stack[i].real /\ x \in st[j].rest

LEMMA StepKeeps ==
  ASSUME WalkOK(d, stack, turn), roots \in Seq(Seq(Int)),
         NEW w \in DiscovererType, OrderOK(w), Grows(d, w),
         NEW st \in Seq(FrameType), \A i \in DOMAIN st : FrameOK(w, st[i]),
         Passes(w, st), \A u \in w.seen : u \in d.seen \/ Looked(w, st, u),
         NEW t \in 1..(Len(roots) + 1), t = turn \/ (t = turn + 1 /\ RootDone(w, roots[turn]))
  PROVE  WalkOK(w, st, t)
<1>1. ASSUME NEW u \in w.seen PROVE Looked(w, st, u)
  <2>1. CASE u \notin d.seen
    BY <2>1
  <2>2. CASE u \in d.seen
    <3>1. Looked(d, stack, u)
      BY <2>2 DEF WalkOK
    <3>2. ASSUME NEW x \in Entries(u), ~IsBundleDir(u), Searchable(u)
          PROVE  Handled(w, Append(u, x)) \/ \E i \in DOMAIN st : st[i].real = u /\ x \in st[i].rest
      <4>1. Handled(d, Append(u, x)) \/ \E i \in DOMAIN stack : stack[i].real = u /\ x \in stack[i].rest
        BY <3>1, <3>2 DEF Looked
      <4>2. CASE Handled(d, Append(u, x))
        BY <4>2, KeptGrows
      <4>3. CASE \E i \in DOMAIN stack : stack[i].real = u /\ x \in stack[i].rest
        BY <4>3 DEF Passes
      <4> QED BY <4>1, <4>2, <4>3
    <3>3. IsBundleDir(u) => Kept(w, u, u)
      BY <3>1, KeptGrows DEF Looked
    <3>4. d.errs \subseteq w.errs
      BY DEF Grows
    <3> QED BY <3>1, <3>2, <3>3, <3>4 DEF Looked
  <2> QED BY <2>1, <2>2
<1>2. ASSUME NEW j \in 1..(t - 1) PROVE RootDone(w, roots[j])
  <2>1. turn \in Nat
    BY DEF WalkOK
  <2>2. j \in 1..(turn - 1) \/ (j = turn /\ RootDone(w, roots[turn]))
    BY <2>1
  <2>3. j \in 1..(turn - 1) => RootDone(d, roots[j])
    BY DEF WalkOK
  <2> QED BY <2>2, <2>3, KeptGrows
<1> QED BY <1>1, <1>2 DEF WalkOK

\* A new call begins with nothing seen.
LEMMA WalkStarts ==
  ASSUME roots \in Seq(Seq(Int))
  PROVE  WalkOK(NewDiscoverer, <<>>, 1)
<1>1. PICK v : v = NewDiscoverer
  OBVIOUS
<1>2. /\ v.order = <<>> /\ v.reach = <<>> /\ v.errs = {} /\ v.seen = {} /\ v.pruned = {} /\ v.stopped = FALSE
      /\ v \in DiscovererType
  BY <1>1 DEF NewDiscoverer, DiscovererType
<1>3. OrderOK(v)
  BY <1>2 DEF OrderOK
<1>4. <<>> \in Seq(FrameType) /\ \A i \in DOMAIN <<>> : FrameOK(v, <<>>[i])
  OBVIOUS
<1>5. 1 \in 1..(Len(roots) + 1) /\ 1..(1 - 1) = {}
  <2>1. Len(roots) \in Nat
    OBVIOUS
  <2> QED BY <2>1
<1>6. \A u \in v.seen : Looked(v, <<>>, u)
  BY <1>2
<1>7. \A j \in 1..(1 - 1) : RootDone(v, roots[j])
  BY <1>5
<1>8. WalkOK(v, <<>>, 1)
  BY <1>2, <1>3, <1>4, <1>5, <1>6, <1>7 DEF WalkOK
<1> QED BY <1>1, <1>8

\* The only directory on the way from a path to itself.
LEMMA WayToItself ==
  ASSUME NEW p \in Seq(Int)
  PROVE  OnTheWay(p, p) = {p}
<1>1. Len(p) \in Nat /\ Len(p)..Len(p) = {Len(p)}
  OBVIOUS
<1>2. SubSeq(p, 1, Len(p)) = p
  <2>1. \A i \in 1..Len(p) : p[i] \in Int /\ 1 + i - 1 = i
    BY <1>1
  <2>2. SubSeq(p, 1, Len(p)) \in Seq(Int) /\ Len(SubSeq(p, 1, Len(p))) = Len(p)
        /\ \A i \in 1..Len(p) : SubSeq(p, 1, Len(p))[i] = p[i]
    BY <1>1, <2>1, SubSeqProperties
  <2> QED BY <2>2, SameSeq
<1> QED BY <1>1, <1>2 DEF OnTheWay

\* One more name: the directories on the way to the path it is added to, and itself.
LEMMA WayGoesOn ==
  ASSUME NEW r \in Seq(Int), NEW p \in Seq(Int), IsPrefix(r, p), NEW x \in Int
  PROVE  OnTheWay(r, Append(p, x)) = OnTheWay(r, p) \cup {Append(p, x)}
<1>1. PICK q : q = Append(p, x)
  OBVIOUS
<1>2. /\ q \in Seq(Int) /\ Len(q) = Len(p) + 1 /\ Len(p) \in Nat /\ Len(r) \in Nat /\ Len(r) <= Len(p)
      /\ \A i \in 1..Len(p) : q[i] = p[i]
  BY <1>1, AppendIs, PrefixIs
<1>3. ASSUME NEW n \in Len(r)..Len(p) PROVE SubSeq(q, 1, n) = SubSeq(p, 1, n)
  <2>1. n \in Nat /\ n <= Len(p) /\ n <= Len(q)
    BY <1>2
  <2>2. \A i \in 1..n : p[i] \in Int /\ q[i] \in Int /\ q[i] = p[i] /\ 1 + i - 1 = i
    BY <1>2, <2>1
  <2>3. /\ SubSeq(p, 1, n) \in Seq(Int) /\ Len(SubSeq(p, 1, n)) = n
        /\ \A i \in 1..n : SubSeq(p, 1, n)[i] = p[i]
    BY <2>1, <2>2, SubSeqProperties
  <2>4. /\ SubSeq(q, 1, n) \in Seq(Int) /\ Len(SubSeq(q, 1, n)) = n
        /\ \A i \in 1..n : SubSeq(q, 1, n)[i] = q[i]
    BY <2>1, <2>2, <1>2, SubSeqProperties
  <2> QED BY <2>2, <2>3, <2>4, SameSeq
<1>4. SubSeq(q, 1, Len(q)) = q
  <2>1. \A i \in 1..Len(q) : q[i] \in Int /\ 1 + i - 1 = i
    BY <1>2
  <2>2. SubSeq(q, 1, Len(q)) \in Seq(Int) /\ Len(SubSeq(q, 1, Len(q))) = Len(q)
        /\ \A i \in 1..Len(q) : SubSeq(q, 1, Len(q))[i] = q[i]
    BY <1>2, <2>1, SubSeqProperties
  <2> QED BY <1>2, <2>2, SameSeq
<1>5. Len(r)..Len(q) = (Len(r)..Len(p)) \cup {Len(q)}
  BY <1>2
<1>6. OnTheWay(r, q) = {SubSeq(q, 1, n) : n \in Len(r)..Len(p)} \cup {q}
  <2>1. PICK A, m : A = Len(r)..Len(p) /\ m = Len(q)
    OBVIOUS
  <2> DEFINE Cut(n) == SubSeq(q, 1, n)
  <2>2. OnTheWay(r, q) = {Cut(n) : n \in A \cup {m}} /\ Cut(m) = q
    BY <1>4, <1>5, <2>1 DEF OnTheWay
  <2> HIDE DEF Cut
  <2>3. {Cut(n) : n \in A \cup {m}} = {Cut(n) : n \in A} \cup {Cut(m)}
    OBVIOUS
  <2>4. {Cut(n) : n \in A} = {SubSeq(q, 1, n) : n \in Len(r)..Len(p)}
    BY <2>1 DEF Cut
  <2> QED BY <2>2, <2>3, <2>4
<1>7. {SubSeq(q, 1, n) : n \in Len(r)..Len(p)} = {SubSeq(p, 1, n) : n \in Len(r)..Len(p)}
  BY <1>3
<1> QED BY <1>1, <1>6, <1>7 DEF OnTheWay

LEMMA RootIs ==
  ASSUME fs \in FileSystems, roots \in Seq(Seq(Int)), WalkOK(d, stack, turn), RootTurn
  PROVE  /\ stack = <<>> /\ turn \in 1..Len(roots) /\ turn + 1 \in 1..(Len(roots) + 1)
         /\ roots[turn] \in Seq(Int) /\ roots[turn] \in ToSet(roots)
         /\ EvalSymlinks(roots[turn]) \in Seq(Int) /\ IsPrefix(roots[turn], roots[turn])
         /\ OnTheWay(roots[turn], roots[turn]) = {roots[turn]}
<1>1. stack = <<>> /\ turn \in 1..Len(roots) /\ turn + 1 \in 1..(Len(roots) + 1)
  BY WalkTyped DEF RootTurn, BetweenRoots
<1>2. roots[turn] \in Seq(Int) /\ roots[turn] \in ToSet(roots)
  BY <1>1 DEF ToSet
<1>3. EvalSymlinks(roots[turn]) \in Seq(Int)
  BY <1>2, EvalIs
<1>4. IsPrefix(roots[turn], roots[turn])
  BY <1>2, PrefixOrder
<1>5. OnTheWay(roots[turn], roots[turn]) = {roots[turn]}
  BY <1>2, WayToItself
<1> QED BY <1>1, <1>2, <1>3, <1>4, <1>5

LEMMA SkillFileIs ==
  ASSUME fs \in FileSystems, NEW p \in Seq(Int), IsSkillFile(p)
  PROVE  p \in SkillFiles /\ p \notin fs.dirs /\ Front(p) \in fs.skills
<1>1. p # <<>> /\ Last(p) = SkillFile /\ Front(p) \in fs.skills
  BY DEF IsSkillFile, IsBundleDir
<1>2. p = Append(Front(p), SkillFile)
  BY <1>1, FrontIs
<1> QED BY <1>1, <1>2, TreeFacts DEF SkillFiles

LEMMA BundlesAreDirs ==
  ASSUME fs \in FileSystems, NEW p, IsBundleDir(p)
  PROVE  p \in fs.dirs /\ p \in fs.skills /\ p \in Seq(Int) /\ IsDir(p)
<1>1. p \in fs.dirs /\ p \in fs.skills /\ p \in Seq(Int)
  BY TreeFacts DEF IsBundleDir
<1>2. ASSUME p # <<>> PROVE Searchable(Front(p))
  <2>1. Front(p) \in Seq(Int)
    BY <1>1, <1>2, FrontIs
  <2>2. IsPrefix(Front(p), p)
    BY <1>1, <1>2, <2>1, PrefixOrder
  <2> QED BY <1>1, <2>1, <2>2, SearchableAbove DEF IsBundleDir
<1> QED BY <1>1, <1>2 DEF IsDir

LEMMA RootFileKeeps ==
  ASSUME fs \in FileSystems, roots \in Seq(Seq(Int)), WalkOK(d, stack, turn), RootFile
  PROVE  WalkOK(d', stack', turn')
<1>1. PICK root, real : root = roots[turn] /\ real = EvalSymlinks(root)
  OBVIOUS
<1>2. RootTurn /\ IsSkillFile(real) /\ turn' = turn + 1 /\ stack' = stack
      /\ d' = Add(d, Reach(root, real, root, FALSE, TRUE))
  BY <1>1 DEF RootFile
<1>3. /\ stack = <<>> /\ turn \in 1..Len(roots) /\ turn + 1 \in 1..(Len(roots) + 1)
      /\ root \in Seq(Int) /\ root \in ToSet(roots) /\ real \in Seq(Int)
      /\ IsPrefix(root, root) /\ OnTheWay(root, root) = {root} /\ (Unlinked(root) => real = root)
  BY <1>1, <1>2, RootIs DEF Unlinked
<1>4. PICK r : r = Reach(root, real, root, FALSE, TRUE)
  OBVIOUS
<1>5. r \in ReachType /\ r.path = root /\ r.real = real /\ r.root = root
  BY <1>3, <1>4 DEF Reach, ReachType
<1>6. Holds(root, real)
  BY <1>1, <1>2, <1>3, SkillFileIs, PlacesAre
<1>7. EntryOK(r)
  BY <1>1, <1>3, <1>5, <1>6 DEF EntryOK
<1>8. d \in DiscovererType /\ OrderOK(d) /\ (Straight(real) => real = r.path)
  BY <1>3, <1>5, <1>6 DEF WalkOK, Straight
<1>9. PICK w : w = Add(d, r)
  OBVIOUS
<1>10. w \in DiscovererType /\ OrderOK(w) /\ Grows(d, w) /\ w.seen = d.seen /\ Kept(w, real, real)
  BY <1>5, <1>7, <1>8, <1>9, AddKeeps
<1>11. RootDone(w, roots[turn])
  BY <1>1, <1>2, <1>10 DEF RootDone
<1>12. <<>> \in Seq(FrameType) /\ (\A i \in DOMAIN <<>> : FrameOK(w, <<>>[i])) /\ Passes(w, <<>>)
  BY <1>3 DEF Passes
<1>13. WalkOK(w, <<>>, turn + 1)
  BY <1>3, <1>10, <1>11, <1>12, StepKeeps
<1> QED BY <1>2, <1>3, <1>4, <1>9, <1>13

LEMMA RootDirKeeps ==
  ASSUME fs \in FileSystems, roots \in Seq(Seq(Int)), WalkOK(d, stack, turn), RootDir
  PROVE  WalkOK(d', stack', turn')
<1>1. PICK root, real : root = roots[turn] /\ real = EvalSymlinks(root)
  OBVIOUS
<1>2. RootTurn /\ IsDir(real) /\ turn' = turn + 1
      /\ d' = Enter(root, real, root) /\ stack' = Opened(root, real, root, 0)
  BY <1>1 DEF RootDir
<1>3. /\ stack = <<>> /\ turn \in 1..Len(roots) /\ turn + 1 \in 1..(Len(roots) + 1)
      /\ root \in Seq(Int) /\ root \in ToSet(roots) /\ real \in Seq(Int)
      /\ IsPrefix(root, root) /\ OnTheWay(root, root) = {root} /\ (Unlinked(root) => root = real)
  BY <1>1, <1>2, RootIs DEF Unlinked
<1>4. real \in fs.dirs /\ \A l \in OnTheWay(root, root) : real \in Below(l)
  BY <1>1, <1>2, <1>3, BelowStarts DEF IsDir
<1>5. d \in DiscovererType /\ OrderOK(d)
  BY DEF WalkOK
<1>12. PICK z : z = 0
  OBVIOUS
<1>13. z \in Int /\ EvalSymlinks(root) = real
  BY <1>1, <1>12
<1>6. PICK w, o : w = Enter(root, real, root) /\ o = Opened(root, real, root, z)
  OBVIOUS
<1>7. /\ w \in DiscovererType /\ OrderOK(w) /\ Grows(d, w)
      /\ w.stopped \/ real \in w.seen
      /\ w.seen \subseteq d.seen \cup {real}
      /\ o \in Seq(FrameType) /\ \A i \in DOMAIN o : FrameOK(w, o[i])
      /\ real \in d.seen \/ real \notin w.seen \/ Looked(w, o, real)
  BY <1>3, <1>4, <1>5, <1>6, <1>13, EnterKeeps
<1>8. RootDone(w, roots[turn])
  BY <1>1, <1>2, <1>7 DEF RootDone
<1>9. Passes(w, o)
  BY <1>3 DEF Passes
<1>10. \A u \in w.seen : u \in d.seen \/ Looked(w, o, u)
  BY <1>7
<1>11. WalkOK(w, o, turn + 1)
  BY <1>3, <1>7, <1>8, <1>9, <1>10, StepKeeps
<1> QED BY <1>2, <1>6, <1>11, <1>12

\* The entry that is taken, and what is known of it.
LEMMA EntryIs ==
  ASSUME fs \in FileSystems, roots \in Seq(Seq(Int)), WalkOK(d, stack, turn), TakesEntry
  PROVE  /\ Len(stack) \in Nat \ {0} /\ Top = stack[Len(stack)] /\ FrameOK(d, Top)
         /\ Top \in FrameType /\ Top.path \in Seq(Int) /\ Top.real \in fs.dirs /\ Top.root \in Seq(Int)
         /\ Top.real \in Seq(Int) /\ Top.depth \in Int /\ Top.real \notin fs.skills
         /\ NextName \in Top.rest /\ NextName \in Nat /\ Top.rest \subseteq Nat
         /\ ChildPath \in Seq(Int) /\ ChildReal \in Seq(Int) /\ ChildReal # <<>>
         /\ Front(ChildReal) = Top.real /\ Last(ChildReal) = NextName
         /\ ChildReal \in fs.dirs \cup DOMAIN fs.links
         /\ EvalSymlinks(ChildPath) = Onward(Top.real, NextName)
         /\ IsPrefix(Top.root, ChildPath)
         /\ OnTheWay(Top.root, ChildPath) = OnTheWay(Top.root, Top.path) \cup {ChildPath}
         /\ Unlinked(Top.root) => ChildPath = ChildReal
<1>1. stack # <<>> /\ Top.rest # {}
  BY DEF TakesEntry
<1>2. PICK n : n = Len(stack)
  OBVIOUS
<1>3. n \in Nat \ {0} /\ n \in 1..n /\ DOMAIN stack = 1..n /\ Top = stack[n]
  <2>1. stack \in Seq(FrameType)
    BY DEF WalkOK
  <2> QED BY <1>1, <1>2, <2>1 DEF Top, Last
<1>4. PICK f : f = Top
  OBVIOUS
<1>5. /\ f \in FrameType /\ f.path \in Seq(Int) /\ f.real \in Seq(Int)
      /\ f.root \in Seq(Int) /\ f.depth \in Int /\ f.rest \subseteq Nat
  BY <1>2, <1>3, <1>4, WalkTyped
<1>6. FrameOK(d, f)
  BY <1>2, <1>3, <1>4 DEF WalkOK
<1>7. f.real \in fs.dirs
  BY <1>6 DEF FrameOK, WalkOK, Looked
<1>8. f.real \notin fs.skills
  BY <1>6 DEF FrameOK, IsBundleDir
<1>9. PICK x : x = NextName
  OBVIOUS
<1>10. x \in f.rest /\ x \in Nat
  <2>1. \E m \in f.rest : \A y \in f.rest : m <= y
    BY <1>1, <1>4, <1>5, LeastExists
  <2>2. x = CHOOSE m \in f.rest : \A y \in f.rest : m <= y
    BY <1>4, <1>9 DEF NextName
  <2> QED BY <1>5, <2>1, <2>2
<1>11. PICK p, c : p = ChildPath /\ c = ChildReal
  OBVIOUS
<1>12. p = Append(f.path, x) /\ c = Append(f.real, x)
  BY <1>4, <1>9, <1>11 DEF ChildPath, ChildReal
<1>13. p \in Seq(Int) /\ c \in Seq(Int) /\ c # <<>> /\ Front(c) = f.real /\ Last(c) = x /\ p # <<>> /\ Front(p) = f.path
  <2>1. x \in Int
    BY <1>10
  <2>4. \A u \in Seq(Int) : /\ Append(u, x) \in Seq(Int) /\ Append(u, x) # <<>>
                            /\ Front(Append(u, x)) = u /\ Last(Append(u, x)) = x
    BY ONLY <2>1, AppendIs
  <2>2. p \in Seq(Int) /\ p # <<>> /\ Front(p) = f.path
    BY <1>5, <1>12, <2>4
  <2>3. c \in Seq(Int) /\ c # <<>> /\ Front(c) = f.real /\ Last(c) = x
    BY <1>5, <1>12, <2>4
  <2> QED BY <2>2, <2>3
<1>14. c \in fs.dirs \cup DOMAIN fs.links
  <2>1. x \in Entries(f.real)
    BY <1>6, <1>10 DEF FrameOK
  <2> QED BY <1>5, <1>12, <2>1, EntriesAre
<1>15. EvalSymlinks(p) = Onward(f.real, x)
  <2>1. EvalSymlinks(f.path) = f.real
    BY <1>6 DEF FrameOK
  <2>2. x \in Int
    BY <1>10
  <2> QED BY <1>5, <1>12, <2>1, <2>2, EvalIs
<1>16. IsPrefix(f.root, f.path) /\ (Unlinked(f.root) => f.path = f.real)
  BY <1>6 DEF FrameOK
<1>17. IsPrefix(f.root, p)
  BY <1>5, <1>13, <1>16, PrefixOrder
<1>18. OnTheWay(f.root, p) = OnTheWay(f.root, f.path) \cup {p}
  <2>1. x \in Int
    BY <1>10
  <2> QED BY <1>5, <1>12, <1>16, <2>1, WayGoesOn
<1> QED BY <1>2, <1>3, <1>4, <1>5, <1>6, <1>7, <1>8, <1>9, <1>10, <1>11, <1>12, <1>13, <1>14, <1>15, <1>16, <1>17, <1>18

\* The open frames once an entry was taken, and maybe more of them.
LEMMA TakenIs ==
  ASSUME fs \in FileSystems, roots \in Seq(Seq(Int)), WalkOK(d, stack, turn), TakesEntry,
         NEW w, Grows(d, w), Handled(w, ChildReal),
         NEW o \in Seq(FrameType), \A i \in DOMAIN o : FrameOK(w, o[i])
  PROVE  /\ Taken \o o \in Seq(FrameType)
         /\ \A i \in DOMAIN (Taken \o o) : FrameOK(w, (Taken \o o)[i])
         /\ Passes(w, Taken \o o)
         /\ \A i \in DOMAIN o : \E j \in DOMAIN (Taken \o o) : (Taken \o o)[j] = o[i]
<1>1. PICK n, f, x : n = Len(stack) /\ f = Top /\ x = NextName
  OBVIOUS
<1>2. /\ n \in Nat \ {0} /\ f = stack[n] /\ FrameOK(d, f)
      /\ f \in FrameType /\ x \in f.rest /\ f.rest \subseteq Nat /\ ChildReal = Append(f.real, x)
  BY <1>1, EntryIs DEF ChildReal
<1>3. PICK g : g = [f EXCEPT !.rest = f.rest \ {x}]
  OBVIOUS
<1>4. /\ g \in FrameType /\ g.path = f.path /\ g.real = f.real /\ g.root = f.root
      /\ g.depth = f.depth /\ g.rest = f.rest \ {x}
  BY <1>2, <1>3 DEF FrameType
<1>5. stack \in Seq(FrameType) /\ stack # <<>>
  BY DEF WalkOK, TakesEntry
<1>6. PICK u : u = Front(stack)
  OBVIOUS
<1>7. /\ u \in Seq(FrameType) /\ Len(u) = n - 1 /\ \A i \in 1..(n - 1) : u[i] = stack[i]
  BY <1>1, <1>5, <1>6, FrontIs
<1>8. PICK t : t = Append(u, g)
  OBVIOUS
<1>9. /\ t \in Seq(FrameType) /\ Len(t) = n /\ t[n] = g
      /\ \A i \in 1..(n - 1) : t[i] = stack[i]
  BY <1>2, <1>4, <1>7, <1>8, AppendIs
<1>10. t = Taken
  BY <1>1, <1>3, <1>6, <1>8 DEF Taken
<1>11. PICK s, m : s = t \o o /\ m = Len(o)
  OBVIOUS
<1>12. /\ s \in Seq(FrameType) /\ m \in Nat /\ Len(s) = n + m /\ DOMAIN s = 1..(n + m) /\ DOMAIN o = 1..m
       /\ \A i \in 1..n : s[i] = t[i]
       /\ \A i \in 1..m : s[n + i] = o[i]
  <2>1. /\ s \in Seq(FrameType) /\ Len(s) = Len(t) + Len(o)
        /\ \A i \in 1..(Len(t) + Len(o)) : s[i] = IF i <= Len(t) THEN t[i] ELSE o[i - Len(t)]
    BY <1>9, <1>11, ConcatProperties
  <2>2. m \in Nat /\ DOMAIN o = 1..m /\ Len(t) = n /\ Len(o) = m
    BY <1>9, <1>11
  <2>3. \A i \in 1..n : i \in 1..(n + m) /\ i <= n
    BY <1>2, <2>2
  <2>4. \A i \in 1..m : n + i \in 1..(n + m) /\ ~(n + i <= n) /\ n + i - n = i
    BY <1>2, <2>2
  <2>5. \A i \in 1..n : s[i] = t[i]
    BY <2>1, <2>2, <2>3
  <2>6. ASSUME NEW i \in 1..m PROVE s[n + i] = o[i]
    <3>1. PICK k : k = n + i
      OBVIOUS
    <3>2. k \in 1..(Len(t) + Len(o)) /\ ~(k <= Len(t)) /\ k - Len(t) = i
      BY <1>2, <2>2, <3>1
    <3>3. s[k] = o[i]
      BY <2>1, <3>2
    <3> QED BY <3>1, <3>3
  <2> QED BY <2>1, <2>2, <2>5, <2>6
<1>13. ASSUME NEW i \in 1..(n + m) PROVE FrameOK(w, s[i])
  <2>1. ASSUME NEW j \in DOMAIN stack PROVE FrameOK(w, stack[j])
    <3>1. FrameOK(d, stack[j])
      BY DEF WalkOK
    <3>2. d.seen \subseteq w.seen
      BY DEF Grows
    <3> QED BY <3>1, <3>2 DEF FrameOK
  <2>2. CASE i \in 1..(n - 1)
    <3>1. i \in 1..n /\ i \in DOMAIN stack
      BY <1>1, <1>2, <1>5, <2>2
    <3> QED BY <1>9, <1>12, <2>1, <2>2, <3>1
  <2>3. CASE i = n
    <3>1. FrameOK(w, f)
      BY <1>1, <1>2, <1>5, <2>1
    <3>2. FrameOK(w, g)
      BY <1>4, <3>1 DEF FrameOK
    <3> QED BY <1>2, <1>9, <1>12, <2>3, <3>2
  <2>4. CASE i > n
    <3>1. i - n \in 1..m /\ n + (i - n) = i
      BY <1>2, <1>12, <2>4
    <3>2. s[i] = o[i - n]
      BY <1>12, <3>1
    <3> QED BY <1>12, <3>1, <3>2
  <2>5. i \in 1..(n - 1) \/ i = n \/ i > n
    BY <1>2, <1>12
  <2> QED BY <2>2, <2>3, <2>4, <2>5
<1>14. Passes(w, s)
  <2> SUFFICES ASSUME NEW i \in DOMAIN stack, NEW y \in stack[i].rest
               PROVE  Handled(w, Append(stack[i].real, y)) \/ \E j \in DOMAIN s : s[j].real = stack[i].real /\ y \in s[j].rest
    BY DEF Passes
  <2>1. i \in 1..n /\ n \in 1..n /\ 1..n \subseteq DOMAIN s
    BY <1>1, <1>2, <1>5, <1>12
  <2>2. CASE i # n
    <3>1. i \in 1..(n - 1)
      BY <1>2, <2>1, <2>2
    <3>2. s[i] = stack[i]
      BY <1>9, <1>12, <2>1, <3>1
    <3> QED BY <2>1, <3>2
  <2>3. CASE i = n /\ y = x
    BY <1>2, <2>3
  <2>4. CASE i = n /\ y # x
    <3>1. s[n] = g
      BY <1>9, <1>12, <2>1
    <3>2. s[n].real = stack[i].real /\ y \in s[n].rest
      BY <1>2, <1>4, <2>4, <3>1
    <3> QED BY <2>1, <3>2
  <2> QED BY <2>2, <2>3, <2>4
<1>15. ASSUME NEW i \in DOMAIN o PROVE \E j \in DOMAIN s : s[j] = o[i]
  <2>1. n + i \in 1..(n + m) /\ s[n + i] = o[i]
    BY <1>2, <1>12
  <2> QED BY <1>12, <2>1
<1> QED BY <1>10, <1>11, <1>12, <1>13, <1>14, <1>15

LEMMA TakenAlone ==
  ASSUME fs \in FileSystems, roots \in Seq(Seq(Int)), WalkOK(d, stack, turn), TakesEntry,
         NEW w \in DiscovererType, OrderOK(w), Grows(d, w), w.seen = d.seen, Handled(w, ChildReal)
  PROVE  WalkOK(w, Taken, turn)
<1>1. PICK o : o = <<>>
  OBVIOUS
<1>2. o \in Seq(FrameType) /\ \A i \in DOMAIN o : FrameOK(w, o[i])
  BY <1>1
<1>3. PICK st : st = Taken \o o
  OBVIOUS
<1>4. st \in Seq(FrameType) /\ (\A i \in DOMAIN st : FrameOK(w, st[i])) /\ Passes(w, st)
  BY <1>2, <1>3, TakenIs
<1>5. turn \in 1..(Len(roots) + 1)
  BY DEF WalkOK
<1>6. WalkOK(w, st, turn)
  BY <1>4, <1>5, StepKeeps
<1>7. Taken \in Seq(FrameType)
  <2>1. stack \in Seq(FrameType) /\ stack # <<>> /\ Top \in FrameType
    BY EntryIs DEF WalkOK, TakesEntry
  <2>2. Front(stack) \in Seq(FrameType)
    BY <2>1, FrontIs
  <2>3. [Top EXCEPT !.rest = Top.rest \ {NextName}] \in FrameType
    BY <2>1 DEF FrameType
  <2> QED BY <2>2, <2>3, AppendIs DEF Taken
<1>8. st = Taken
  BY <1>1, <1>3, <1>7, ConcatEmptySeq
<1> QED BY <1>6, <1>8

LEMMA WayIsTyped ==
  ASSUME NEW r \in Seq(Int), NEW p \in Seq(Int), IsPrefix(r, p)
  PROVE  OnTheWay(r, p) \subseteq Seq(Int)
<1> SUFFICES ASSUME NEW n \in Len(r)..Len(p) PROVE SubSeq(p, 1, n) \in Seq(Int)
  BY DEF OnTheWay
<1>1. n \in Nat /\ n <= Len(p)
  OBVIOUS
<1>2. \A i \in 1..n : p[i] \in Int
  BY <1>1
<1> QED BY <1>1, <1>2, SubSeqProperties

LEMMA LinkKeeps ==
  ASSUME fs \in FileSystems, roots \in Seq(Seq(Int)), WalkOK(d, stack, turn), Link
  PROVE  WalkOK(d', stack', turn')
<1>1. PICK f, p, c, target : f = Top /\ p = ChildPath /\ c = ChildReal /\ target = fs.links[c]
  OBVIOUS
<1>2. PICK r : r = Reach(p, target, f.root, TRUE, FALSE)
  OBVIOUS
<1>3. /\ TakesEntry /\ c \in DOMAIN fs.links /\ stack' = Taken /\ turn' = turn
      /\ d' = IF ~IsDir(target) THEN d
              ELSE IF IsBundleDir(target) THEN Add(d, r)
              ELSE [d EXCEPT !.errs = d.errs \cup {Note(p, "not followed")}]
  BY <1>1, <1>2 DEF Link
<1>4. /\ FrameOK(d, f) /\ f.path \in Seq(Int) /\ f.real \in fs.dirs /\ f.root \in Seq(Int) /\ f.real \notin fs.skills
      /\ p \in Seq(Int) /\ c \in Seq(Int) /\ Front(c) = f.real /\ c = Append(f.real, NextName)
      /\ EvalSymlinks(p) = Onward(f.real, NextName) /\ IsPrefix(f.root, p)
      /\ OnTheWay(f.root, p) = OnTheWay(f.root, f.path) \cup {p} /\ (Unlinked(f.root) => p = c)
  BY <1>1, <1>3, EntryIs DEF ChildReal
<1>5. EvalSymlinks(p) = target
  BY <1>1, <1>3, <1>4 DEF Onward
<1>6. d \in DiscovererType /\ OrderOK(d) /\ c \notin fs.dirs
  BY <1>3, TreeFacts DEF WalkOK
<1>7. CASE ~IsDir(target)
  <2>1. Handled(d, c)
    BY <1>1, <1>6, <1>7, BundlesAreDirs DEF Handled
  <2>2. WalkOK(d, Taken, turn)
    BY <1>1, <1>3, <1>6, <2>1, GrowsIsOrder, TakenAlone
  <2> QED BY <1>3, <1>7, <2>2
<1>8. CASE IsBundleDir(target)
  <2>1. IsDir(target) /\ target \in fs.dirs /\ target \in fs.skills /\ target \in Seq(Int)
    BY <1>8, BundlesAreDirs
  <2>2. r \in ReachType /\ r.path = p /\ r.real = target /\ r.root = f.root
    BY <1>2, <1>4, <2>1 DEF Reach, ReachType
  <2>3. \A l \in OnTheWay(f.root, f.path) : Holds(l, target)
    BY <1>1, <1>3, <1>4, <1>8, PlacesAre DEF FrameOK
  <2>4. Holds(p, target)
    <3>1. target \in Below(p)
      BY <1>4, <1>5, <2>1, BelowStarts
    <3> QED BY <2>1, <3>1, PlacesAre
  <2>5. EntryOK(r)
    BY <1>4, <1>5, <2>2, <2>3, <2>4 DEF EntryOK, FrameOK
  <2>6. PICK w : w = Add(d, r)
    OBVIOUS
  <2>7. w \in DiscovererType /\ OrderOK(w) /\ Grows(d, w) /\ w.seen = d.seen /\ Kept(w, c, target)
    <3>1. Straight(target) => c = r.path
      <4>1. f.root \in ToSet(roots) /\ Holds(f.root, target)
        BY <1>4, <2>3, RootOnTheWay DEF FrameOK, FrameType
      <4> QED BY <1>4, <2>2, <4>1 DEF Straight
    <3> QED BY <1>6, <2>2, <2>5, <2>6, <3>1, AddKeeps
  <2>8. Handled(w, c)
    BY <1>1, <1>6, <2>7 DEF Handled
  <2>9. WalkOK(w, Taken, turn)
    BY <1>1, <1>3, <2>7, <2>8, TakenAlone
  <2> QED BY <1>3, <1>8, <2>1, <2>6, <2>9
<1>9. CASE IsDir(target) /\ ~IsBundleDir(target)
  <2>1. PICK n : n = Note(p, "not followed")
    OBVIOUS
  <2>2. n \in NoteType
    BY <1>4, <2>1, NotesAre DEF NoteKinds
  <2>3. PICK w : w = [d EXCEPT !.errs = d.errs \cup {n}]
    OBVIOUS
  <2>4. /\ w \in DiscovererType /\ w.order = d.order /\ w.reach = d.reach /\ w.stopped = d.stopped
        /\ w.seen = d.seen /\ w.errs = d.errs \cup {n} /\ w.pruned = d.pruned
    BY <1>6, <2>2, <2>3 DEF DiscovererType
  <2>5. OrderOK(w) /\ Grows(d, w)
    BY <1>6, <2>4, NotedKeeps
  <2>6. Handled(w, c)
    BY <1>1, <1>6, <1>9 DEF Handled
  <2>7. WalkOK(w, Taken, turn)
    BY <1>1, <1>3, <2>4, <2>5, <2>6, TakenAlone
  <2> QED BY <1>3, <1>9, <2>1, <2>3, <2>7
<1> QED BY <1>7, <1>8, <1>9

LEMMA SkipKeeps ==
  ASSUME fs \in FileSystems, roots \in Seq(Seq(Int)), WalkOK(d, stack, turn), SkipName
  PROVE  WalkOK(d', stack', turn')
<1>1. TakesEntry /\ ChildReal \in fs.dirs /\ NextName \in Skipped /\ stack' = Taken /\ turn' = turn /\ d' = d
  BY DEF SkipName
<1>2. Last(ChildReal) = NextName /\ ChildReal \notin DOMAIN fs.links
  BY <1>1, EntryIs, TreeFacts
<1>3. Handled(d, ChildReal)
  BY <1>1, <1>2 DEF Handled
<1>4. d \in DiscovererType /\ OrderOK(d) /\ Grows(d, d)
  BY GrowsIsOrder DEF WalkOK
<1> QED BY <1>1, <1>3, <1>4, TakenAlone

LEMMA PruneKeeps ==
  ASSUME fs \in FileSystems, roots \in Seq(Seq(Int)), WalkOK(d, stack, turn), Prune
  PROVE  WalkOK(d', stack', turn')
<1>1. PICK w : w = [d EXCEPT !.pruned = d.pruned \cup {Top.root}]
  OBVIOUS
<1>2. TakesEntry /\ ChildReal \in fs.dirs /\ stack' = Taken /\ turn' = turn /\ d' = w
  BY <1>1 DEF Prune
<1>3. Top.root \in Seq(Int) /\ ChildReal \notin DOMAIN fs.links
  BY <1>2, EntryIs, TreeFacts
<1>4. d \in DiscovererType /\ OrderOK(d)
  BY DEF WalkOK
<1>5. /\ w \in DiscovererType /\ w.order = d.order /\ w.reach = d.reach /\ w.stopped = d.stopped
      /\ w.seen = d.seen /\ w.errs = d.errs /\ w.pruned = d.pruned \cup {Top.root}
  BY <1>1, <1>3, <1>4 DEF DiscovererType
<1>6. OrderOK(w) /\ Grows(d, w)
  BY <1>4, <1>5, NotedKeeps
<1>7. Handled(w, ChildReal)
  <2>1. w.pruned # {}
    BY <1>5
  <2> QED BY <1>3, <2>1 DEF Handled
<1> QED BY <1>2, <1>5, <1>6, <1>7, TakenAlone

LEMMA DescendKeeps ==
  ASSUME fs \in FileSystems, roots \in Seq(Seq(Int)), WalkOK(d, stack, turn), Descend
  PROVE  WalkOK(d', stack', turn')
<1>1. PICK f, p, c, x, z : f = Top /\ p = ChildPath /\ c = ChildReal /\ x = NextName /\ z = Top.depth + 1
  OBVIOUS
<1>2. PICK w, o : w = Enter(p, c, f.root) /\ o = Opened(p, c, f.root, z)
  OBVIOUS
<1>3. TakesEntry /\ c \in fs.dirs /\ x \notin Skipped /\ turn' = turn /\ d' = w /\ stack' = Taken \o o
  BY <1>1, <1>2 DEF Descend
<1>4. /\ FrameOK(d, f) /\ f.path \in Seq(Int) /\ f.real \in fs.dirs /\ f.root \in Seq(Int) /\ f.real \notin fs.skills
      /\ p \in Seq(Int) /\ c \in Seq(Int) /\ c # <<>> /\ Front(c) = f.real /\ Last(c) = x
      /\ EvalSymlinks(p) = Onward(f.real, x) /\ IsPrefix(f.root, p)
      /\ OnTheWay(f.root, p) = OnTheWay(f.root, f.path) \cup {p} /\ (Unlinked(f.root) => p = c)
  BY <1>1, <1>3, EntryIs
<1>5. c = Append(f.real, x) /\ c \notin DOMAIN fs.links
  BY <1>1, <1>3, TreeFacts DEF ChildReal
<1>6. EvalSymlinks(p) = c
  BY <1>4, <1>5 DEF Onward
<1>7. z \in Int /\ x \in Int
  BY <1>1, <1>3, EntryIs
<1>8. \A l \in OnTheWay(f.root, p) : c \in Below(l)
  <2>1. ASSUME NEW l \in OnTheWay(f.root, f.path) PROVE c \in Below(l)
    <3>1. f.real \in Below(l)
      BY <1>4 DEF FrameOK
    <3>2. l \in Seq(Int)
      BY <1>4, WayIsTyped DEF FrameOK
    <3> QED BY <1>3, <1>4, <1>5, <1>7, <3>1, <3>2, BelowGoesOn
  <2>2. c \in Below(p)
    BY <1>3, <1>4, <1>6, BelowStarts
  <2> QED BY <1>4, <2>1, <2>2
<1>9. d \in DiscovererType /\ OrderOK(d) /\ f.root \in ToSet(roots)
  BY <1>4 DEF WalkOK, FrameOK
<1>10. /\ w \in DiscovererType /\ OrderOK(w) /\ Grows(d, w)
       /\ w.stopped \/ c \in w.seen
       /\ w.seen \subseteq d.seen \cup {c}
       /\ o \in Seq(FrameType) /\ \A i \in DOMAIN o : FrameOK(w, o[i])
       /\ c \in d.seen \/ c \notin w.seen \/ Looked(w, o, c)
  BY <1>2, <1>3, <1>4, <1>6, <1>7, <1>8, <1>9, EnterKeeps
<1>11. Handled(w, c)
  BY <1>5, <1>10 DEF Handled
<1>12. PICK st : st = Taken \o o
  OBVIOUS
<1>13. /\ st \in Seq(FrameType) /\ (\A i \in DOMAIN st : FrameOK(w, st[i])) /\ Passes(w, st)
       /\ \A i \in DOMAIN o : \E j \in DOMAIN st : st[j] = o[i]
  BY <1>1, <1>3, <1>10, <1>11, <1>12, TakenIs
<1>14. ASSUME NEW u \in w.seen PROVE u \in d.seen \/ Looked(w, st, u)
  <2> SUFFICES ASSUME u \notin d.seen PROVE Looked(w, st, u)
    OBVIOUS
  <2>1. u = c /\ Looked(w, o, u)
    BY <1>10
  <2> QED BY <1>13, <2>1 DEF Looked
<1>15. turn \in 1..(Len(roots) + 1)
  BY DEF WalkOK
<1>16. WalkOK(w, st, turn)
  BY <1>10, <1>13, <1>14, <1>15, StepKeeps
<1> QED BY <1>3, <1>12, <1>16

LEMMA LeaveKeeps ==
  ASSUME fs \in FileSystems, roots \in Seq(Seq(Int)), WalkOK(d, stack, turn), Leave
  PROVE  WalkOK(d', stack', turn')
<1>1. PICK st, n : st = Front(stack) /\ n = Len(stack)
  OBVIOUS
<1>2. stack # <<>> /\ (d.stopped \/ stack[n].rest = {}) /\ stack' = st /\ turn' = turn /\ d' = d
  BY <1>1 DEF Leave, Top, Last
<1>3. d \in DiscovererType /\ OrderOK(d) /\ Grows(d, d) /\ stack \in Seq(FrameType) /\ turn \in 1..(Len(roots) + 1)
  BY GrowsIsOrder DEF WalkOK
<1>4. /\ st \in Seq(FrameType) /\ Len(st) = n - 1 /\ n \in Nat /\ n >= 1 /\ DOMAIN stack = 1..n /\ DOMAIN st = 1..(n - 1)
      /\ \A i \in 1..(n - 1) : st[i] = stack[i]
  <2>1. /\ st \in Seq(FrameType) /\ Len(st) = n - 1 /\ n >= 1
        /\ \A i \in 1..(n - 1) : st[i] = stack[i]
    BY <1>1, <1>2, <1>3, FrontIs
  <2>2. n \in Nat /\ DOMAIN stack = 1..n
    BY <1>1, <1>3
  <2>3. DOMAIN st = 1..(n - 1)
    BY <2>1
  <2> QED BY <2>1, <2>2, <2>3
<1>5. \A i \in DOMAIN st : FrameOK(d, st[i])
  <2> TAKE i \in DOMAIN st
  <2>1. i \in DOMAIN stack /\ st[i] = stack[i]
    BY <1>4
  <2> QED BY <2>1 DEF WalkOK
<1>6. Passes(d, st)
  <2> SUFFICES ASSUME NEW i \in DOMAIN stack, NEW y \in stack[i].rest
               PROVE  Handled(d, Append(stack[i].real, y)) \/ \E j \in DOMAIN st : st[j].real = stack[i].real /\ y \in st[j].rest
    BY DEF Passes
  <2>1. CASE i = n
    <3>1. d.stopped
      BY <1>2, <2>1
    <3> QED BY <3>1 DEF Handled
  <2>2. CASE i # n
    <3>1. i \in DOMAIN st /\ st[i] = stack[i]
      BY <1>4, <2>2
    <3> QED BY <3>1
  <2> QED BY <2>1, <2>2
<1>7. WalkOK(d, st, turn)
  BY <1>3, <1>4, <1>5, <1>6, StepKeeps
<1> QED BY <1>2, <1>7

\* Each step of Discover keeps what the walk knows.
LEMMA WalkKeeps ==
  ASSUME WalkInv, Walk
  PROVE  WalkInv'
<1>1. fs \in FileSystems /\ roots \in Seq(Seq(Int)) /\ fs' = fs /\ roots' = roots /\ limits' = limits /\ walking = "on"
  BY DEF WalkInv, Walk, RootMissing, RootFile, RootDir, RootTurn, BetweenRoots, Link, SkipName, Prune, Descend,
         TakesEntry, Leave, EndWalk
<1>2. WalkOK(d, stack, turn)
  BY <1>1 DEF WalkInv
<1>3. WalkOK(d', stack', turn')
  <2>1. CASE RootMissing
    BY <1>2, <2>1 DEF RootMissing
  <2>2. CASE EndWalk
    BY <1>2, <2>2 DEF EndWalk
  <2>3. CASE RootFile
    BY <1>1, <1>2, <2>3, RootFileKeeps
  <2>4. CASE RootDir
    BY <1>1, <1>2, <2>4, RootDirKeeps
  <2>5. CASE Link
    BY <1>1, <1>2, <2>5, LinkKeeps
  <2>6. CASE SkipName
    BY <1>1, <1>2, <2>6, SkipKeeps
  <2>7. CASE Prune
    BY <1>1, <1>2, <2>7, PruneKeeps
  <2>8. CASE Descend
    BY <1>1, <1>2, <2>8, DescendKeeps
  <2>9. CASE Leave
    BY <1>1, <1>2, <2>9, LeaveKeeps
  <2> QED BY <2>1, <2>2, <2>3, <2>4, <2>5, <2>6, <2>7, <2>8, <2>9 DEF Walk
<1>4. WalkOK(d, stack, turn)'
  BY <1>1, <1>3, SameWalk
<1>5. walking' = "done" => stack' = <<>> /\ (turn' > Len(roots') \/ d'.stopped)
  <2>1. CASE EndWalk
    BY <2>1 DEF EndWalk, BetweenRoots, Broken
  <2>2. CASE ~EndWalk
    BY <1>1, <2>2 DEF Walk, RootMissing, RootFile, RootDir, Link, SkipName, Prune, Descend, Leave
  <2> QED BY <2>1, <2>2
<1> QED BY <1>1, <1>4, <1>5 DEF WalkInv

-----------------------------------------------------------------------------
(* Sequences of sequences, one after the other. *)

LEMMA ToSetIs ==
  ASSUME NEW S, NEW s \in Seq(S)
  PROVE  ToSet(s) \subseteq S /\ \A x : x \in ToSet(s) <=> \E i \in 1..Len(s) : s[i] = x
BY DEF ToSet

LEMMA ConcatSet ==
  ASSUME NEW S, NEW s \in Seq(S), NEW t \in Seq(S)
  PROVE  s \o t \in Seq(S) /\ ToSet(s \o t) = ToSet(s) \cup ToSet(t)
<1>1. PICK u : u = s \o t
  OBVIOUS
<1>2. /\ u \in Seq(S) /\ Len(u) = Len(s) + Len(t) /\ Len(s) \in Nat /\ Len(t) \in Nat
      /\ \A i \in 1..(Len(s) + Len(t)) : u[i] = IF i <= Len(s) THEN s[i] ELSE t[i - Len(s)]
  BY <1>1, ConcatProperties
<1>3. ASSUME NEW x \in ToSet(u) PROVE x \in ToSet(s) \cup ToSet(t)
  <2>1. PICK i \in 1..Len(u) : u[i] = x
    BY <1>2, ToSetIs
  <2>2. CASE i <= Len(s)
    <3>1. i \in 1..Len(s) /\ s[i] = x
      BY <1>2, <2>1, <2>2
    <3> QED BY <3>1, ToSetIs
  <2>3. CASE ~(i <= Len(s))
    <3>1. i - Len(s) \in 1..Len(t) /\ t[i - Len(s)] = x
      BY <1>2, <2>1, <2>3
    <3> QED BY <3>1, ToSetIs
  <2> QED BY <2>2, <2>3
<1>4. ASSUME NEW x \in ToSet(s) PROVE x \in ToSet(u)
  <2>1. PICK i \in 1..Len(s) : s[i] = x
    BY ToSetIs
  <2>2. i \in 1..Len(u) /\ u[i] = x
    BY <1>2, <2>1
  <2> QED BY <1>2, <2>2, ToSetIs
<1>5. ASSUME NEW x \in ToSet(t) PROVE x \in ToSet(u)
  <2>1. PICK i \in 1..Len(t) : t[i] = x
    BY ToSetIs
  <2>2. PICK k : k = Len(s) + i
    OBVIOUS
  <2>3. k \in 1..(Len(s) + Len(t)) /\ ~(k <= Len(s)) /\ k - Len(s) = i
    BY <1>2, <2>2
  <2>4. k \in 1..Len(u) /\ u[k] = x
    BY <1>2, <2>1, <2>3
  <2> QED BY <1>2, <2>4, ToSetIs
<1> QED BY <1>1, <1>2, <1>3, <1>4, <1>5

LEMMA FlattenIs ==
  ASSUME NEW S, NEW ss \in Seq(Seq(S))
  PROVE  /\ FlattenSeq(ss) \in Seq(S)
         /\ \A x : x \in ToSet(FlattenSeq(ss)) <=> \E i \in 1..Len(ss) : x \in ToSet(ss[i])
<1>1. PICK n : n = Len(ss)
  OBVIOUS
<1>2. n \in Nat /\ DOMAIN ss = 1..n /\ \A i \in 1..n : ss[i] \in Seq(S)
  BY <1>1
<1>3. CASE n = 0
  <2>1. FlattenSeq(ss) = <<>>
    <3>1. Len(ss) = 0 /\ ss = <<>>
      BY <1>1, <1>3, SeqIs
    <3> QED BY <3>1 DEF FlattenSeq
  <2>2. <<>> \in Seq(S) /\ ToSet(<<>>) = {}
    BY DEF ToSet
  <2> QED BY <1>1, <1>3, <2>1, <2>2
<1>4. CASE n # 0
  <2> DEFINE E(f) == [i \in 1..n |-> IF i = 1 THEN ss[i] ELSE f[i - 1] \o ss[i]]
  <2>1. PICK step : step = [h \in 1..n |-> [s \in Seq(S) |-> IF h = 1 THEN ss[h] ELSE s \o ss[h]]]
    OBVIOUS
  <2>2. Steps(step, n, Seq(S))
    BY <1>2, <2>1, ConcatProperties DEF Steps
  <2>3. PICK f : /\ f \in [0..n -> Seq(S)]
                 /\ \A h \in 1..n : f[h] = step[h][f[h - 1]]
    <3>1. PICK b, D : b = <<>> /\ D = Seq(S)
      OBVIOUS
    <3>2. n \in Nat /\ b \in D /\ Steps(step, n, D)
      BY <1>2, <2>2, <3>1
    <3>3. \E f : Carries(f, n, D, b, step)
      BY ONLY <3>2, Carried
    <3> QED BY <3>1, <3>3 DEF Carries
  <2>4. PICK g : g = [i \in 1..n |-> f[i]]
    OBVIOUS
  <2>5. ASSUME NEW i \in 1..n PROVE g[i] = E(g)[i]
    <3>1. f[i - 1] \in Seq(S) /\ g[i] = f[i] /\ f[i] = step[i][f[i - 1]]
      BY <1>2, <2>3, <2>4
    <3>2. f[i] = IF i = 1 THEN ss[i] ELSE f[i - 1] \o ss[i]
      BY <2>1, <3>1
    <3>3. i # 1 => i - 1 \in 1..n /\ g[i - 1] = f[i - 1]
      BY <1>2, <2>4
    <3> QED BY <3>1, <3>2, <3>3
  <2>6. g = E(g)
    <3>1. g = [i \in 1..n |-> g[i]] /\ E(g) = [i \in 1..n |-> E(g)[i]]
      BY <2>4
    <3> HIDE DEF E
    <3> QED BY <2>5, <3>1
  <2>7. PICK F : F = CHOOSE h : h = E(h)
    OBVIOUS
  <2>8. F = E(F)
    <3> HIDE DEF E
    <3> QED BY <2>6, <2>7
  <2>9. \A i \in 1..n : F[i] = IF i = 1 THEN ss[i] ELSE F[i - 1] \o ss[i]
    BY <2>8
  <2>10. FlattenSeq(ss) = F[n]
    BY <1>1, <1>4, <2>7 DEF FlattenSeq
  <2> DEFINE Good(m) == F[m] \in Seq(S) /\ \A x : x \in ToSet(F[m]) <=> \E i \in 1..m : x \in ToSet(ss[i])
             P == {m \in Nat : m + 1 <= n => Good(m + 1)}
  <2> HIDE DEF E
  <2>11. 0 \in P
    <3>1. 1 \in 1..n /\ F[1] = ss[1] /\ ss[1] \in Seq(S)
      BY <1>2, <1>4, <2>9
    <3>2. Good(1)
      BY <3>1
    <3> QED BY <3>2
  <2>12. ASSUME NEW m \in Nat, m \in P PROVE m + 1 \in P
    <3> SUFFICES ASSUME m + 1 + 1 <= n PROVE Good(m + 1 + 1)
      OBVIOUS
    <3>1. PICK k : k = m + 1
      OBVIOUS
    <3>2. k \in Nat /\ k + 1 \in 1..n /\ k + 1 # 1 /\ k + 1 - 1 = k
      BY <1>2, <3>1
    <3>3. Good(k)
      BY <1>2, <2>12, <3>1
    <3>4. F[k + 1] = F[k] \o ss[k + 1]
      <4>1. PICK j : j = k + 1
        OBVIOUS
      <4>2. j \in 1..n /\ j # 1 /\ j - 1 = k
        BY <3>2, <4>1
      <4>3. F[j] = F[k] \o ss[j]
        BY <2>9, <4>2
      <4> QED BY <4>1, <4>3
    <3>5. F[k + 1] \in Seq(S) /\ ToSet(F[k + 1]) = ToSet(F[k]) \cup ToSet(ss[k + 1])
      BY <1>2, <3>2, <3>3, <3>4, ConcatSet
    <3>6. 1..(k + 1) = (1..k) \cup {k + 1}
      BY <3>2
    <3>7. Good(k + 1)
      BY <3>3, <3>5, <3>6
    <3> QED BY <3>1, <3>7
  <2>13. Nat \subseteq P
    <3> HIDE DEF P
    <3> QED BY <2>11, <2>12, ByInduction
  <2>14. Good(n)
    <3>1. PICK m : m = n - 1
      OBVIOUS
    <3>2. m \in Nat /\ m + 1 = n
      BY <1>2, <1>4, <3>1
    <3>3. m \in P
      BY <2>13, <3>2
    <3>4. m + 1 <= n
      BY <1>2, <3>2
    <3>5. Good(m + 1)
      BY <3>3, <3>4
    <3> QED BY <3>2, <3>5
  <2> QED BY <1>1, <2>10, <2>14
<1> QED BY <1>3, <1>4

-----------------------------------------------------------------------------
(* The folders that a selection names. *)

Entries1 == UNION {ToSet(a.locations) : a \in ToSet(Registry)}
CallType ==
  {[path |-> p, agent |-> a.id, source |-> a.source, scope |-> e.scope, legacy |-> e.legacy] :
     a \in ToSet(Registry), e \in Entries1, p \in Seq(Int)}

MachineOK(env, filter, dir) ==
  /\ env.home \subseteq Seq(Int) /\ (\A h, k \in env.home : h = k) /\ dir \in Seq(Int)
  /\ \A piece \in Pieces : piece.var # NoVar => env.vars[piece.var] \subseteq Seq(Int)
  /\ filter.agents \in Seq(Int) /\ Known(filter.agents)

LEMMA CallIs ==
  ASSUME NEW x \in CallType
  PROVE  x.path \in Seq(Int) /\ x.agent \in Int /\ x.scope \in ToSet(Scopes)
<1>1. PICK a \in ToSet(Registry), e \in Entries1, p \in Seq(Int) :
        x = [path |-> p, agent |-> a.id, source |-> a.source, scope |-> e.scope, legacy |-> e.legacy]
  BY DEF CallType
<1>2. a.id \in Int
  BY RegistryIsTyped
<1>3. e.scope \in ToSet(Scopes)
  BY RegistryIsParsed DEF ParseAccepts, Entries1
<1> QED BY <1>1, <1>2, <1>3

LEMMA ExpandIs ==
  ASSUME NEW env, NEW filter, NEW dir, MachineOK(env, filter, dir), NEW e \in Entries1
  PROVE  Expand(e.path, env) \subseteq Seq(Int) /\ \A p, q \in Expand(e.path, env) : p = q
<1>1. PICK t, n : t = e.path /\ n = Len(t)
  OBVIOUS
<1>2. n \in Nat /\ DOMAIN t = 1..n /\ \A i \in 1..n : t[i] \in Pieces
  <2>1. t \in Seq(ToSet(t))
    BY <1>1, RegistryIsTyped DEF Entries1
  <2>2. n \in Nat /\ DOMAIN t = 1..n /\ \A i \in 1..n : t[i] \in ToSet(t)
    BY <1>1, <2>1
  <2>3. ToSet(t) \subseteq Pieces
    BY <1>1 DEF Pieces, Entries1
  <2> QED BY <2>2, <2>3
<1> DEFINE values == [i \in DOMAIN t |-> Value(t[i], env)]
           picked == [i \in DOMAIN values |-> CHOOSE v \in values[i] : TRUE]
           joined == FlattenSeq(picked)
<1>3. Expand(t, env) = IF \E i \in DOMAIN values : values[i] = {} THEN {}
                       ELSE IF joined # <<>> /\ Head(joined) = Tilde THEN {h \o Tail(joined) : h \in env.home}
                       ELSE {joined}
  BY DEF Expand
<1>4. DOMAIN values = 1..n /\ \A i \in 1..n : values[i] \subseteq Seq(Int)
  <2>1. DOMAIN values = 1..n
    BY <1>2
  <2>2. ASSUME NEW i \in 1..n PROVE values[i] \subseteq Seq(Int)
    <3>1. t[i].text \subseteq Seq(Int)
      BY <1>2, RegistryIsTyped
    <3>2. t[i].var # NoVar => env.vars[t[i].var] \subseteq Seq(Int)
      BY <1>2 DEF MachineOK
    <3> QED BY <1>2, <3>1, <3>2 DEF Value
  <2> QED BY <2>1, <2>2
<1> HIDE DEF values
<1>5. DOMAIN picked = 1..n /\ \A i \in 1..n : picked[i] = CHOOSE v \in values[i] : TRUE
  BY <1>4
<1>6. picked = [i \in 1..n |-> picked[i]]
  BY <1>4
<1> HIDE DEF picked
<1>7. Expand(t, env) = IF \E i \in 1..n : values[i] = {} THEN {}
                       ELSE IF joined # <<>> /\ Head(joined) = Tilde THEN {h \o Tail(joined) : h \in env.home}
                       ELSE {joined}
  BY <1>3, <1>4
<1>8. CASE \E i \in 1..n : values[i] = {}
  BY <1>1, <1>7, <1>8
<1>9. CASE ~ \E i \in 1..n : values[i] = {}
  <2>1. picked \in Seq(Seq(Int))
    <3>1. \A i \in 1..n : picked[i] \in Seq(Int)
      BY <1>4, <1>5, <1>9
    <3>2. picked \in [1..n -> Seq(Int)]
      BY <1>6, <3>1
    <3> QED BY <1>2, <3>2
  <2>2. joined \in Seq(Int)
    BY <2>1, FlattenIs
  <2> HIDE DEF joined
  <2>3. joined # <<>> => Tail(joined) \in Seq(Int)
    BY <2>2
  <2>4. \A h \in env.home : h \in Seq(Int)
    BY DEF MachineOK
  <2>5. joined # <<>> => \A h \in env.home : h \o Tail(joined) \in Seq(Int)
    BY <2>3, <2>4, ConcatProperties
  <2>6. \A h, k \in env.home : h = k
    BY DEF MachineOK
  <2>7. CASE joined # <<>> /\ Head(joined) = Tilde
    <3>1. Expand(t, env) = {h \o Tail(joined) : h \in env.home}
      BY <1>7, <1>9, <2>7
    <3> QED BY <1>1, <2>5, <2>6, <2>7, <3>1
  <2>8. CASE ~(joined # <<>> /\ Head(joined) = Tilde)
    <3>1. Expand(t, env) = {joined}
      BY <1>7, <1>9, <2>8
    <3> QED BY <1>1, <2>2, <3>1
  <2> QED BY <2>7, <2>8
<1> QED BY <1>8, <1>9

LEMMA DirsAreTyped ==
  ASSUME NEW env, NEW dir \in Seq(Int), NEW walkUp
  PROVE  ProjectDirs(dir, walkUp, env) \in Seq(Seq(Int)) /\ Len(ProjectDirs(dir, walkUp, env)) >= 1
<1> DEFINE found == {n \in 0..Len(dir) : n < MaxWalkUp /\ HoldsGit(Above(dir, n), env)}
           m == CHOOSE x \in found : \A k \in found : x <= k
<1>1. ProjectDirs(dir, walkUp, env)
        = IF ~walkUp \/ found = {} THEN <<dir>> ELSE [n \in 1..(m + 1) |-> Above(dir, n - 1)]
  BY DEF ProjectDirs
<1>2. Len(dir) \in Nat /\ found \subseteq Nat /\ found \subseteq 0..Len(dir)
  OBVIOUS
<1> HIDE DEF found
<1>3. CASE ~walkUp \/ found = {}
  BY <1>1, <1>3
<1>4. CASE ~(~walkUp \/ found = {})
  <2>1. \E x \in found : \A k \in found : x <= k
    BY <1>2, <1>4, LeastExists
  <2>2. m \in 0..Len(dir) /\ m \in Nat
    BY <1>2, <2>1
  <2> HIDE DEF m
  <2>3. ASSUME NEW n \in 1..(m + 1) PROVE Above(dir, n - 1) \in Seq(Int)
    <3>1. PICK k : k = Len(dir) - (n - 1)
      OBVIOUS
    <3>2. k \in 0..Len(dir)
      BY <1>2, <2>2, <3>1
    <3>3. \A i \in 1..k : dir[i] \in Int
      BY <1>2, <3>2
    <3>4. SubSeq(dir, 1, k) \in Seq(Int)
      BY <1>2, <3>2, <3>3, SubSeqProperties
    <3> QED BY <3>1, <3>4 DEF Above
  <2>4. PICK f : f = [n \in 1..(m + 1) |-> Above(dir, n - 1)]
    OBVIOUS
  <2>5. f \in [1..(m + 1) -> Seq(Int)]
    BY <2>3, <2>4
  <2>6. f \in Seq(Seq(Int)) /\ Len(f) = m + 1
    BY <2>2, <2>5
  <2> QED BY <1>1, <1>4, <2>2, <2>4, <2>6
<1> QED BY <1>3, <1>4

\* The calls of add that one entry makes are for the entry and name its agent.
LEMMA AddsAre ==
  ASSUME NEW env, NEW filter, NEW dir, MachineOK(env, filter, dir),
         NEW a \in ToSet(Registry), NEW e \in ToSet(a.locations)
  PROVE  Adds(a, e, env, filter, dir) \in Seq(CallType)
<1> DEFINE At(p) == [path |-> p, agent |-> a.id, source |-> a.source, scope |-> e.scope, legacy |-> e.legacy]
           x == CHOOSE x \in Expand(e.path, env) : TRUE
           dirs == ProjectDirs(dir, e.walkUp, env)
<1>1. Adds(a, e, env, filter, dir)
        = IF ~Selected(e, env, filter) \/ Expand(e.path, env) = {} THEN <<>>
          ELSE IF e.scope # "project" THEN <<At(x)>> ELSE [i \in DOMAIN dirs |-> At(dirs[i] \o x)]
  BY DEF Adds
<1>2. e \in Entries1
  BY DEF Entries1
<1>3. \A p \in Seq(Int) : At(p) \in CallType
  BY <1>2 DEF CallType
<1>4. Expand(e.path, env) # {} => x \in Seq(Int)
  BY <1>2, ExpandIs
<1>5. dirs \in Seq(Seq(Int))
  BY DirsAreTyped DEF MachineOK
<1> HIDE DEF At, x, dirs
<1>6. CASE ~Selected(e, env, filter) \/ Expand(e.path, env) = {}
  BY <1>1, <1>6
<1>7. CASE ~(~Selected(e, env, filter) \/ Expand(e.path, env) = {})
  <2>1. CASE e.scope # "project"
    <3>1. At(x) \in CallType
      BY <1>3, <1>4, <1>7
    <3> QED BY <1>1, <1>7, <2>1, <3>1
  <2>2. CASE e.scope = "project"
    <3>1. PICK n : n = Len(dirs)
      OBVIOUS
    <3>2. n \in Nat /\ DOMAIN dirs = 1..n
      BY <1>5, <3>1
    <3>3. ASSUME NEW i \in 1..n PROVE At(dirs[i] \o x) \in CallType
      <4>1. dirs[i] \in Seq(Int)
        BY <1>5, <3>2
      <4>2. dirs[i] \o x \in Seq(Int)
        BY <1>4, <1>7, <4>1, ConcatProperties
      <4> QED BY <1>3, <4>2
    <3>4. [i \in DOMAIN dirs |-> At(dirs[i] \o x)] \in [1..n -> CallType]
      BY <3>2, <3>3
    <3> QED BY <1>1, <1>7, <2>2, <3>2, <3>4
  <2> QED BY <2>1, <2>2
<1> QED BY <1>6, <1>7

LEMMA SelectionIs ==
  ASSUME NEW ids \in Seq(Int), Known(ids)
  PROVE  SelectAgents(ids) \in Seq(ToSet(Registry))
<1>1. CASE ids = <<>>
  BY <1>1, RegistryIsTyped DEF SelectAgents
<1>2. CASE ids # <<>>
  <2>1. PICK n : n = Len(ids)
    OBVIOUS
  <2>2. n \in Nat /\ DOMAIN ids = 1..n
    BY <2>1
  <2>3. \A i \in 1..n : (CHOOSE a \in ToSet(Registry) : a.id = ids[i]) \in ToSet(Registry)
    BY <2>2 DEF Known
  <2>4. SelectAgents(ids) = [i \in 1..n |-> CHOOSE a \in ToSet(Registry) : a.id = ids[i]]
    BY <1>2, <2>2 DEF SelectAgents
  <2>5. SelectAgents(ids) \in [1..n -> ToSet(Registry)]
    BY <2>3, <2>4
  <2> QED BY <2>2, <2>5
<1> QED BY <1>1, <1>2

\* The calls for a selection are the calls of its agents' entries, one after the other.
LEMMA CallsAre ==
  ASSUME NEW env, NEW filter, NEW dir, MachineOK(env, filter, dir)
  PROVE  /\ Calls(env, filter, dir) \in Seq(CallType)
         /\ \A x : x \in ToSet(Calls(env, filter, dir)) <=>
              \E a \in ToSet(SelectAgents(filter.agents)) : \E e \in ToSet(a.locations) :
                x \in ToSet(Adds(a, e, env, filter, dir))
<1>1. PICK agents : agents = SelectAgents(filter.agents)
  OBVIOUS
<1>2. agents \in Seq(ToSet(Registry))
  BY <1>1, SelectionIs DEF MachineOK
<1>3. PICK n : n = Len(agents)
  OBVIOUS
<1>4. n \in Nat /\ DOMAIN agents = 1..n /\ \A i \in 1..n : agents[i] \in ToSet(Registry)
  BY <1>2, <1>3
<1> DEFINE Of(i) == [j \in DOMAIN agents[i].locations |-> Adds(agents[i], agents[i].locations[j], env, filter, dir)]
           all == [i \in DOMAIN agents |-> FlattenSeq(Of(i))]
<1>5. Calls(env, filter, dir) = FlattenSeq(all)
  BY <1>1 DEF Calls
<1>6. ASSUME NEW i \in 1..n
      PROVE  /\ FlattenSeq(Of(i)) \in Seq(CallType)
             /\ \A x : x \in ToSet(FlattenSeq(Of(i))) <=>
                  \E e \in ToSet(agents[i].locations) : x \in ToSet(Adds(agents[i], e, env, filter, dir))
  <2>1. PICK a, l : a = agents[i] /\ l = a.locations
    OBVIOUS
  <2>2. a \in ToSet(Registry) /\ l \in Seq(ToSet(l))
    BY <1>4, <2>1, RegistryIsTyped
  <2>3. PICK k : k = Len(l)
    OBVIOUS
  <2>4. k \in Nat /\ DOMAIN l = 1..k /\ (\A j \in 1..k : l[j] \in ToSet(l)) /\ \A e : e \in ToSet(l) <=> \E j \in 1..k : l[j] = e
    BY <2>2, <2>3, ToSetIs
  <2>5. \A e \in ToSet(l) : Adds(a, e, env, filter, dir) \in Seq(CallType)
    BY <2>1, <2>2, AddsAre
  <2>6. Of(i) = [j \in 1..k |-> Adds(a, l[j], env, filter, dir)]
    BY <2>1, <2>4
  <2> HIDE DEF Of
  <2>7. Of(i) \in [1..k -> Seq(CallType)]
    BY <2>4, <2>5, <2>6
  <2>8. Of(i) \in Seq(Seq(CallType)) /\ Len(Of(i)) = k
    BY <2>4, <2>7
  <2>9. /\ FlattenSeq(Of(i)) \in Seq(CallType)
        /\ \A x : x \in ToSet(FlattenSeq(Of(i))) <=> \E j \in 1..k : x \in ToSet(Of(i)[j])
    BY <2>8, FlattenIs
  <2>10. \A j \in 1..k : Of(i)[j] = Adds(a, l[j], env, filter, dir)
    BY <2>6
  <2>11. ASSUME NEW x
         PROVE  x \in ToSet(FlattenSeq(Of(i))) <=> \E e \in ToSet(l) : x \in ToSet(Adds(a, e, env, filter, dir))
    <3>1. x \in ToSet(FlattenSeq(Of(i))) <=> \E j \in 1..k : x \in ToSet(Adds(a, l[j], env, filter, dir))
      BY <2>9, <2>10
    <3> QED BY <2>4, <3>1
  <2> QED BY <2>1, <2>9, <2>11
<1>7. DOMAIN all = 1..n /\ \A i \in 1..n : all[i] = FlattenSeq(Of(i))
  BY <1>4
<1>8. all \in [1..n -> Seq(CallType)]
  <2>1. all = [i \in 1..n |-> FlattenSeq(Of(i))]
    BY <1>4
  <2> HIDE DEF Of, all
  <2> QED BY <1>6, <2>1
<1> HIDE DEF Of, all
<1>9. all \in Seq(Seq(CallType)) /\ Len(all) = n
  BY <1>4, <1>8
<1>10. /\ FlattenSeq(all) \in Seq(CallType)
       /\ \A x : x \in ToSet(FlattenSeq(all)) <=> \E i \in 1..n : x \in ToSet(all[i])
  BY <1>9, FlattenIs
<1>11. \A a : a \in ToSet(agents) <=> \E i \in 1..n : agents[i] = a
  BY <1>2, <1>3, ToSetIs
<1>12. ASSUME NEW x
       PROVE  x \in ToSet(FlattenSeq(all)) <=>
                \E i \in 1..n : \E e \in ToSet(agents[i].locations) : x \in ToSet(Adds(agents[i], e, env, filter, dir))
  BY <1>6, <1>7, <1>10
<1>13. ASSUME NEW x
       PROVE  x \in ToSet(FlattenSeq(all)) <=>
                \E a \in ToSet(agents) : \E e \in ToSet(a.locations) : x \in ToSet(Adds(a, e, env, filter, dir))
  BY <1>11, <1>12
<1> QED BY <1>1, <1>5, <1>10, <1>13

LEMMA ScopesAre ==
  /\ \A s \in ToSet(Scopes) : ScopeRank(s) \in Int
  /\ \A s, t \in ToSet(Scopes) : ScopeRank(s) = ScopeRank(t) => s = t
<1>1. ASSUME NEW s \in ToSet(Scopes) PROVE ScopeRank(s) \in DOMAIN Scopes /\ Scopes[ScopeRank(s)] = s
  <2>1. \E i \in DOMAIN Scopes : Scopes[i] = s
    BY DEF ToSet
  <2> QED BY <2>1 DEF ScopeRank
<1>2. DOMAIN Scopes \subseteq Int
  BY DEF Scopes
<1> QED BY <1>1, <1>2

\* A finite set has a finite image.
LEMMA ImageIsFinite ==
  ASSUME NEW S, IsFiniteSet(S), NEW f, DOMAIN f = S
  PROVE  IsFiniteSet({f[x] : x \in S})
<1>1. PICK T : T = {f[x] : x \in S}
  OBVIOUS
<1>2. PICK g : g = [x \in S |-> f[x]]
  OBVIOUS
<1>3. g \in [S -> T] /\ \A y \in T : \E x \in S : g[x] = y
  BY <1>1, <1>2
<1>4. g \in Surjection(S, T)
  BY <1>3 DEF Surjection
<1>5. IsFiniteSet(T)
  BY <1>4, FS_Surjection
<1> QED BY <1>1, <1>5

\* One folder of the registry, from the calls for its path.
LEMMA FolderIs ==
  ASSUME NEW adds \in Seq(CallType), NEW k \in 1..Len(adds)
  PROVE  LET l == Folder(adds, adds[k].path)
         IN /\ l.path = adds[k].path /\ l.path \in Seq(Int)
            /\ l.scope \in ToSet(Scopes)
            /\ l.agents = {adds[i].agent : i \in {x \in 1..Len(adds) : adds[x].path = l.path}}
            /\ l.agents \subseteq Int /\ IsFiniteSet(l.agents) /\ l.agents # {}
            /\ l.exists <=> IsDir(EvalSymlinks(l.path))
<1>1. PICK p, n : p = adds[k].path /\ n = Len(adds)
  OBVIOUS
<1>2. n \in Nat /\ DOMAIN adds = 1..n /\ k \in 1..n /\ \A i \in 1..n : adds[i] \in CallType
  BY <1>1
<1>3. PICK mine : mine = {i \in DOMAIN adds : adds[i].path = p}
  OBVIOUS
<1>4. mine \subseteq 1..n /\ mine \subseteq Nat /\ k \in mine
  BY <1>1, <1>2, <1>3
<1>5. PICK first : first = CHOOSE i \in mine : \A j \in mine : i <= j
  OBVIOUS
<1>6. first \in mine
  <2>1. \E i \in mine : \A j \in mine : i <= j
    BY <1>4, LeastExists
  <2> QED BY <1>5, <2>1
<1>7. PICK l : l = Folder(adds, p)
  OBVIOUS
<1>8. l = [path |-> p, scope |-> adds[first].scope,
           agents |-> {adds[i].agent : i \in mine}, sources |-> {adds[i].source : i \in mine},
           legacy |-> \A i \in mine : adds[i].legacy,
           exists |-> IsDir(EvalSymlinks(p))]
  BY <1>3, <1>5, <1>7 DEF Folder
<1>9. l.path = p /\ l.scope = adds[first].scope /\ l.agents = {adds[i].agent : i \in mine}
      /\ l.exists = IsDir(EvalSymlinks(p))
  BY <1>8
<1>10. p \in Seq(Int) /\ adds[first].scope \in ToSet(Scopes) /\ \A i \in mine : adds[i].agent \in Int
  BY <1>1, <1>2, <1>4, <1>6, CallIs
<1>11. IsFiniteSet(l.agents)
  <2>1. IsFiniteSet(mine)
    <3>1. IsFiniteSet(1..n)
      BY <1>2, FS_Interval
    <3> QED BY <1>4, <3>1, FS_Subset
  <2>2. PICK f : f = [i \in mine |-> adds[i].agent]
    OBVIOUS
  <2>3. IsFiniteSet({f[i] : i \in mine})
    BY <2>1, <2>2, ImageIsFinite
  <2>4. {f[i] : i \in mine} = {adds[i].agent : i \in mine}
    BY <2>2
  <2> QED BY <1>9, <2>3, <2>4
<1>12. l.agents \subseteq Int /\ l.agents # {}
  BY <1>4, <1>9, <1>10
<1>13. mine = {x \in 1..n : adds[x].path = p}
  BY <1>2, <1>3
<1> HIDE <1>8
<1> QED BY <1>1, <1>7, <1>9, <1>10, <1>11, <1>12, <1>13

\* What is known of a folder that Resolve returns.
FolderOK(l) ==
  /\ l.path \in Seq(Int) /\ l.scope \in ToSet(Scopes)
  /\ l.agents \subseteq Int /\ IsFiniteSet(l.agents) /\ l.agents # {}
  /\ l.exists <=> IsDir(EvalSymlinks(l.path))

\* Resolve gives the folders of the calls, each once.
LEMMA ResolveIs ==
  ASSUME NEW env, NEW filter, NEW dir, MachineOK(env, filter, dir), NEW ls \in Resolve(env, filter, dir)
  PROVE  /\ ls \in Seq(FoldersIn(Calls(env, filter, dir)))
         /\ ToSet(ls) = FoldersIn(Calls(env, filter, dir))
         /\ \A i \in DOMAIN ls : FolderOK(ls[i])
<1>1. PICK adds : adds = Calls(env, filter, dir)
  OBVIOUS
<1>2. PICK folders : folders = FoldersIn(adds)
  OBVIOUS
<1>3. PICK n : n = Len(adds)
  OBVIOUS
<1>4. adds \in Seq(CallType) /\ n \in Nat /\ DOMAIN adds = 1..n
  BY <1>1, <1>3, CallsAre
<1>5. ASSUME NEW l \in folders PROVE FolderOK(l) /\ \E k \in 1..n : l = Folder(adds, adds[k].path) /\ l.path = adds[k].path
  <2>1. PICK k \in 1..n : l = Folder(adds, adds[k].path)
    BY <1>2, <1>4 DEF FoldersIn
  <2> QED BY <1>3, <1>4, <2>1, FolderIs DEF FolderOK
<1>6. IsFiniteSet(folders)
  <2>1. IsFiniteSet(1..n)
    BY <1>4, FS_Interval
  <2>2. PICK f : f = [i \in 1..n |-> Folder(adds, adds[i].path)]
    OBVIOUS
  <2>3. IsFiniteSet({f[i] : i \in 1..n})
    <3>1. DOMAIN f = 1..n
      BY <2>2
    <3> HIDE <2>2
    <3>2. PICK S : S = 1..n
      OBVIOUS
    <3>3. IsFiniteSet(S) /\ DOMAIN f = S
      BY <2>1, <3>1, <3>2
    <3>4. IsFiniteSet({f[i] : i \in S})
      BY ONLY <3>3, ImageIsFinite
    <3> QED BY <3>2, <3>4
  <2>4. folders = {Folder(adds, adds[i].path) : i \in 1..n}
    BY <1>2, <1>4 DEF FoldersIn
  <2>5. {f[i] : i \in 1..n} = {Folder(adds, adds[i].path) : i \in 1..n}
    BY <2>2
  <2> QED BY <2>3, <2>4, <2>5
<1>7. PICK before : before = {lm \in folders \X folders : Sooner(lm[1], lm[2])}
  OBVIOUS
<1>8. \A l, m \in folders : <<l, m>> \in before <=> Sooner(l, m)
  BY <1>7
<1>9. \A l, m \in folders : l.path = m.path => l = m
  BY <1>5
<1>10. \A l \in folders : l.path \in Seq(Int) /\ l.scope \in ToSet(Scopes) /\ ScopeRank(l.scope) \in Int
  BY <1>5, ScopesAre DEF FolderOK
<1>11. StrictOrder(folders, before)
  <2>1. ASSUME NEW l \in folders PROVE ~Sooner(l, l)
    <3>1. ~Less(l.path, l.path) /\ ScopeRank(l.scope) \in Int
      BY <1>10, LessIsOrder
    <3> QED BY <3>1 DEF Sooner
  <2>2. ASSUME NEW l \in folders, NEW m \in folders, NEW o \in folders, Sooner(l, m), Sooner(m, o)
        PROVE  Sooner(l, o)
    <3>1. ScopeRank(l.scope) \in Int /\ ScopeRank(m.scope) \in Int /\ ScopeRank(o.scope) \in Int
      BY <1>10
    <3>2. Less(l.path, m.path) /\ Less(m.path, o.path) => Less(l.path, o.path)
      BY <1>10, LessIsOrder
    <3> QED BY <2>2, <3>1, <3>2 DEF Sooner
  <2>3. ASSUME NEW l \in folders, NEW m \in folders, l # m PROVE Sooner(l, m) \/ Sooner(m, l)
    <3>1. l.path # m.path
      BY <1>9, <2>3
    <3>2. Less(l.path, m.path) \/ Less(m.path, l.path)
      BY <1>10, <3>1, LessIsOrder
    <3>3. ScopeRank(l.scope) \in Int /\ ScopeRank(m.scope) \in Int
      BY <1>10
    <3>4. ScopeRank(l.scope) = ScopeRank(m.scope) => l.scope = m.scope
      BY <1>10, ScopesAre
    <3> QED BY <3>2, <3>3, <3>4 DEF Sooner
  <2> QED BY <1>8, <2>1, <2>2, <2>3 DEF StrictOrder
<1>12. ls = InOrder(folders, before)
  BY <1>1, <1>2, <1>7 DEF Resolve, ByScope
<1>13. ls \in Seq(folders) /\ \A x \in folders : \E i \in 1..Len(ls) : ls[i] = x
  BY <1>6, <1>11, <1>12, InOrderSorts
<1>14. \A i \in DOMAIN ls : ls[i] \in folders
  BY <1>13
<1>15. ToSet(ls) = folders
  BY <1>13, ToSetIs
<1> QED BY <1>1, <1>2, <1>5, <1>13, <1>14, <1>15

-----------------------------------------------------------------------------
(* The command, from its arguments to the roots of a search. *)

LocsOK == locs \in Seq(ToSet(locs)) /\ \A i \in DOMAIN locs : FolderOK(locs[i])

LEMMA ExistingAre ==
  ASSUME LocsOK
  PROVE  /\ ExistingRoots \in Seq(Seq(Int))
         /\ \A p : p \in ToSet(ExistingRoots) <=> \E l \in ToSet(locs) : l.exists /\ p = l.path
<1>1. PICK n : n = Len(locs)
  OBVIOUS
<1>2. n \in Nat /\ DOMAIN locs = 1..n
  BY <1>1 DEF LocsOK
<1>3. PICK found : found = {i \in DOMAIN locs : locs[i].exists}
  OBVIOUS
<1>4. PICK before : before = {ij \in found \X found : ij[1] < ij[2]}
  OBVIOUS
<1>5. PICK nth : nth = InOrder(found, before)
  OBVIOUS
<1>6. ExistingRoots = [k \in DOMAIN nth |-> locs[nth[k]].path]
  BY <1>3, <1>4, <1>5 DEF ExistingRoots
<1>7. found \subseteq 1..n /\ found \subseteq Int /\ IsFiniteSet(found)
  <2>1. IsFiniteSet(1..n) /\ found \subseteq 1..n
    BY <1>2, <1>3, FS_Interval
  <2>2. IsFiniteSet(found)
    BY <2>1, FS_Subset
  <2> QED BY <1>2, <2>1, <2>2
<1>8. StrictOrder(found, before)
  <2>1. \A i, j \in found : <<i, j>> \in before <=> i < j
    BY <1>4
  <2> QED BY <1>7, <2>1 DEF StrictOrder
<1>9. PICK m : m = Len(nth)
  OBVIOUS
<1>10. /\ nth \in Seq(found) /\ m \in Nat /\ DOMAIN nth = 1..m
       /\ \A x \in found : \E i \in 1..m : nth[i] = x
  BY <1>5, <1>7, <1>8, <1>9, InOrderSorts
<1>11. \A k \in 1..m : nth[k] \in found
  BY <1>9, <1>10
<1>12. \A k \in 1..m : locs[nth[k]].path \in Seq(Int)
  BY <1>2, <1>7, <1>11 DEF LocsOK, FolderOK
<1>13. ExistingRoots \in [1..m -> Seq(Int)]
  BY <1>6, <1>10, <1>12
<1>14. ExistingRoots \in Seq(Seq(Int)) /\ Len(ExistingRoots) = m
  BY <1>10, <1>13
<1>15. ASSUME NEW p PROVE p \in ToSet(ExistingRoots) <=> \E l \in ToSet(locs) : l.exists /\ p = l.path
  <2>1. p \in ToSet(ExistingRoots) <=> \E k \in 1..m : locs[nth[k]].path = p
    <3>1. DOMAIN ExistingRoots = 1..m /\ \A k \in 1..m : ExistingRoots[k] = locs[nth[k]].path
      BY <1>6, <1>10
    <3> QED BY <3>1 DEF ToSet
  <2>2. (\E k \in 1..m : locs[nth[k]].path = p) <=> \E i \in found : locs[i].path = p
    BY <1>10, <1>11
  <2>3. (\E i \in found : locs[i].path = p) <=> \E l \in ToSet(locs) : l.exists /\ p = l.path
    BY <1>3 DEF ToSet
  <2> QED BY <2>1, <2>2, <2>3
<1> QED BY <1>14, <1>15

-----------------------------------------------------------------------------
(***************************************************************************)
(* Where the command stands: what is chosen, what was searched and what    *)
(* the report was made from.                                               *)
(***************************************************************************)
SingleRow(outcome) ==
  <<Row([path |-> cmd.args[1], real |-> EvalSymlinks(cmd.args[1]), also |-> {}], {}, Load(cmd.args[1], outcome))>>
RowsOf(found, outcome) ==
  [i \in DOMAIN found |-> LET c == found[i] IN Row(c, Attributed(c), Load(c.real, outcome))]

\* The report is that of one skill, or of what a search that is over has found.
ReportsOne ==
  /\ Single /\ roots = <<>>
  /\ \E outcome \in Outcomes : Load(cmd.args[1], outcome) # Unloadable /\ rows = SingleRow(outcome)
ReportsAll ==
  /\ ~Single /\ roots = Requested /\ walking = "done" /\ Found # {}
  /\ \E found \in Candidates, outcome \in Outcomes : rows = RowsOf(found, outcome)
Reported == cmd.verb = "scan" /\ (ReportsOne \/ ReportsAll)

\* The registry was asked for a selection that it knows, if at all.
Asked == Resolves => SelectionKnown

Standings == {"start", "single", "many", "walk", "write", "list", "count", "exited"}

Control ==
  /\ at \in Standings /\ (at # "exited" => exit = Running) /\ counts \in Seq(Nat)
  /\ at = "start" \/ (at = "exited" /\ exit # 0) \/ Asked
  /\ at \in {"start", "single", "many"} => walking = "off"
  /\ at \in {"start", "single"} => roots = <<>>
  /\ at = "single" => cmd.verb = "scan" /\ Single
  /\ at \in {"many", "walk"} => cmd.verb = "scan" /\ ~Single /\ roots = Requested
  /\ at \in {"list", "count"} => cmd.verb = "locations"
  /\ at \notin {"write", "exited"} => rows = <<>>
  /\ at = "write" => Reported
  /\ at = "exited" => /\ rows # <<>> => Reported
                      /\ exit = 0 /\ cmd.verb = "scan" => rows # <<>> /\ ~WorstFails
                      /\ exit \in {0, 1} /\ rows # <<>> => (exit = 1 <=> WorstFails)

CommandOK ==
  /\ cmd \in Commands /\ LocsOK
  /\ Resolves /\ SelectionKnown => ToSet(locs) = FoldersIn(Calls(cmd.env, cmd.filter, cmd.dir))

AuditInv == CommandOK /\ WalkInv /\ Control

LEMMA SameFolders ==
  ASSUME fs' = fs
  PROVE  /\ \A adds, p : Folder(adds, p)' = Folder(adds, p)
         /\ \A adds : FoldersIn(adds)' = FoldersIn(adds)
         /\ \A env, filter, dir : Calls(env, filter, dir)' = Calls(env, filter, dir)
         /\ \A l : FolderOK(l)' <=> FolderOK(l)
         /\ \A p : IsSingleBundle(p)' <=> IsSingleBundle(p)
<1>1. ASSUME NEW adds, NEW p PROVE Folder(adds, p)' = Folder(adds, p)
  <2>1. EvalSymlinks(p)' = EvalSymlinks(p)
    BY SameFs
  <2>2. IsDir(EvalSymlinks(p))' = IsDir(EvalSymlinks(p))
    BY <2>1 DEF IsDir, Searchable
  <2> QED BY <2>2 DEF Folder
<1>2. \A adds : FoldersIn(adds)' = FoldersIn(adds)
  BY <1>1 DEF FoldersIn
<1>3. \A dir, env : HoldsGit(dir, env)' <=> HoldsGit(dir, env)
  BY SameFs DEF HoldsGit
<1>4. ASSUME NEW dir, NEW walkUp, NEW env PROVE ProjectDirs(dir, walkUp, env)' = ProjectDirs(dir, walkUp, env)
  <2>1. \A n : HoldsGit(Above(dir, n), env)' <=> HoldsGit(Above(dir, n), env)
    BY <1>3
  <2>2. {n \in 0..Len(dir) : n < MaxWalkUp /\ HoldsGit(Above(dir, n), env)}'
          = {n \in 0..Len(dir) : n < MaxWalkUp /\ HoldsGit(Above(dir, n), env)}
    BY <2>1
  <2> QED BY <2>2 DEF ProjectDirs
<1>5. ASSUME NEW a, NEW e, NEW env, NEW filter, NEW dir
      PROVE  Adds(a, e, env, filter, dir)' = Adds(a, e, env, filter, dir)
  <2>1. ProjectDirs(dir, e.walkUp, env)' = ProjectDirs(dir, e.walkUp, env)
    BY <1>4
  <2> QED BY <2>1 DEF Adds
<1>6. \A env, filter, dir : Calls(env, filter, dir)' = Calls(env, filter, dir)
  BY <1>5 DEF Calls
<1>7. \A l : FolderOK(l)' <=> FolderOK(l)
  BY SameFs DEF FolderOK
<1>8. \A p : IsSingleBundle(p)' <=> IsSingleBundle(p)
  BY SameFs DEF IsSingleBundle
<1> QED BY <1>1, <1>2, <1>6, <1>7, <1>8

LEMMA SameCommand ==
  ASSUME fs' = fs, cmd' = cmd, locs' = locs
  PROVE  /\ CommandOK' <=> CommandOK
         /\ Requested' = Requested
         /\ Single' <=> Single
<1>1. LocsOK' <=> LocsOK
  BY SameFolders DEF LocsOK
<1>2. CommandOK' <=> CommandOK
  BY <1>1, SameFolders DEF CommandOK, Resolves, SelectionKnown
<1>3. Requested' = Requested
  BY DEF Requested, ExistingRoots
<1>4. Single' <=> Single
  BY SameFolders DEF Single
<1> QED BY <1>2, <1>3, <1>4

LEMMA SameAsked ==
  ASSUME cmd' = cmd
  PROVE  Asked' <=> Asked
BY DEF Asked, Resolves, SelectionKnown

LEMMA SameReport ==
  ASSUME fs' = fs, cmd' = cmd, locs' = locs, roots' = roots, walking' = walking, d' = d, rows' = rows
  PROVE  (Reported' <=> Reported) /\ (WorstFails' <=> WorstFails)
<1>1. WorstFails' <=> WorstFails
  BY DEF WorstFails
<1>2. \A c : Attributed(c)' = Attributed(c)
  BY DEF Attributed
<1>3. Candidates' = Candidates /\ Found' = Found
  BY DEF Candidates, Found
<1>4. Outcomes' = Outcomes
  BY DEF Outcomes, SkillFiles
<1>5. \A p, outcome : Load(p, outcome)' = Load(p, outcome)
  BY SameFs DEF Load
<1>6. \A found, outcome : RowsOf(found, outcome)' = RowsOf(found, outcome)
  BY <1>2, <1>5 DEF RowsOf
<1>7. \A outcome : SingleRow(outcome)' = SingleRow(outcome)
  BY <1>5, SameFs DEF SingleRow
<1>8. ReportsOne' <=> ReportsOne
  BY <1>4, <1>5, <1>7, SameCommand DEF ReportsOne
<1>9. ReportsAll' <=> ReportsAll
  BY <1>3, <1>4, <1>6, SameCommand DEF ReportsAll
<1> QED BY <1>1, <1>8, <1>9 DEF Reported

LEMMA MachineIsOK ==
  ASSUME cmd \in Commands, SelectionKnown
  PROVE  MachineOK(cmd.env, cmd.filter, cmd.dir)
BY CommandsAreTyped DEF SelectionKnown, MachineOK

LEMMA RequestedIs ==
  ASSUME CommandOK
  PROVE  /\ Requested \in Seq(Seq(Int)) /\ cmd.args \in Seq(Seq(Int))
         /\ ToSet(Requested) = ToSet(cmd.args) \cup (IF cmd.installed THEN ToSet(ExistingRoots) ELSE {})
<1>1. cmd.args \in Seq(Seq(Int)) /\ ExistingRoots \in Seq(Seq(Int))
  BY CommandsAreTyped, ExistingAre DEF CommandOK
<1>2. CASE cmd.installed
  BY <1>1, <1>2, ConcatSet DEF Requested
<1>3. CASE ~cmd.installed
  <2>1. PICK none : none = <<>>
    OBVIOUS
  <2>2. none \in Seq(Seq(Int)) /\ ToSet(none) = {}
    BY <2>1 DEF ToSet
  <2>3. cmd.args \o none \in Seq(Seq(Int)) /\ ToSet(cmd.args \o none) = ToSet(cmd.args) \cup ToSet(none)
    BY <1>1, <2>2, ConcatSet
  <2>4. Requested = cmd.args \o none
    BY <1>3, <2>1 DEF Requested
  <2> QED BY <1>1, <1>3, <2>2, <2>3, <2>4
<1> QED BY <1>2, <1>3

LEMMA Starts ==
  ASSUME Init
  PROVE  AuditInv
<1>1. /\ cmd \in Commands /\ fs \in FileSystems /\ roots = <<>> /\ walking = "off"
      /\ at = "start" /\ rows = <<>> /\ counts = <<>> /\ exit = Running
  BY DEF Init
<1>2. LocsOK /\ (Resolves /\ SelectionKnown => ToSet(locs) = FoldersIn(Calls(cmd.env, cmd.filter, cmd.dir)))
  <2>1. CASE Resolves /\ SelectionKnown
    <3>1. locs \in Resolve(cmd.env, cmd.filter, cmd.dir)
      BY <2>1 DEF Init
    <3>2. MachineOK(cmd.env, cmd.filter, cmd.dir)
      BY <1>1, <2>1, MachineIsOK
    <3>3. /\ locs \in Seq(FoldersIn(Calls(cmd.env, cmd.filter, cmd.dir)))
          /\ ToSet(locs) = FoldersIn(Calls(cmd.env, cmd.filter, cmd.dir))
          /\ \A i \in DOMAIN locs : FolderOK(locs[i])
      BY <3>1, <3>2, ResolveIs
    <3> QED BY <3>3 DEF LocsOK
  <2>2. CASE ~(Resolves /\ SelectionKnown)
    <3>1. locs \in {<<>>}
      BY <2>2 DEF Init
    <3>2. locs = <<>>
      BY <3>1
    <3>3. LocsOK
      BY <3>2 DEF LocsOK
    <3> QED BY <2>2, <3>3
  <2> QED BY <2>1, <2>2
<1>3. WalkInv
  <2>1. PICK P : P = Seq(Int)
    OBVIOUS
  <2>2. roots \in Seq(P)
    BY <1>1
  <2> QED BY <1>1, <2>1, <2>2 DEF WalkInv
<1>4. Control
  <2>1. PICK N : N = Nat
    OBVIOUS
  <2>2. counts \in Seq(N)
    BY <1>1
  <2> QED BY <1>1, <2>1, <2>2 DEF Control, Standings
<1> QED BY <1>1, <1>2, <1>3, <1>4 DEF AuditInv, CommandOK

LEMMA QuietKeeps ==
  ASSUME CommandOK, WalkInv, same, noWalk
  PROVE  CommandOK' /\ WalkInv'
<1>1. fs' = fs /\ cmd' = cmd /\ locs' = locs /\ roots' = roots /\ turn' = turn /\ stack' = stack /\ d' = d
      /\ walking' = walking
  BY DEF same, noWalk
<1>2. CommandOK'
  BY <1>1, SameCommand
<1>3. WalkOK(d, stack, turn)' <=> WalkOK(d, stack, turn)
  BY <1>1, SameWalk
<1> QED BY <1>1, <1>2, <1>3 DEF WalkInv

\* A walk that starts now knows nothing, whatever its roots are.
LEMMA StartedNext == (roots \in Seq(Seq(Int)))' => WalkOK(NewDiscoverer, <<>>, 1)'
<1>1. roots \in Seq(Seq(Int)) => WalkOK(NewDiscoverer, <<>>, 1)
  BY WalkStarts
<1> QED BY <1>1, PTL

LEMMA SomeDoors ==
  ASSUME AuditInv
  PROVE  /\ ChooseMany => AuditInv'
         /\ Search => AuditInv'
         /\ OpenListed => AuditInv'
<1>1. CommandOK /\ WalkInv /\ Control
  BY DEF AuditInv
<1>2. ASSUME ChooseMany PROVE AuditInv'
  <2>1. /\ fs' = fs /\ cmd' = cmd /\ locs' = locs /\ roots' = Requested /\ walking' = walking
        /\ walking = "off" /\ at' = "many" /\ rows' = rows /\ counts' = counts /\ exit' = exit /\ rows = <<>> /\ exit = Running
        /\ cmd.verb = "scan" /\ ~Single /\ Asked
    BY <1>1, <1>2 DEF ChooseMany, Started, same, Control, Asked
  <2>2. CommandOK' /\ (Requested' = Requested) /\ (Single' <=> Single)
    BY <1>1, <2>1, SameCommand
  <2>3. WalkInv'
    BY <1>1, <2>1, RequestedIs DEF WalkInv
  <2>4. Control'
    BY <1>1, <2>1, <2>2, SameAsked DEF Control, Standings
  <2> QED BY <2>2, <2>3, <2>4 DEF AuditInv
<1>3. ASSUME Search PROVE AuditInv'
  <2>1. /\ fs' = fs /\ cmd' = cmd /\ locs' = locs /\ roots' = roots /\ walking' = "on"
        /\ turn' = 1 /\ stack' = <<>> /\ d' = NewDiscoverer
        /\ at = "many" /\ at' = "walk" /\ rows' = rows /\ counts' = counts /\ exit' = exit
    BY <1>3 DEF Search, StartWalk
  <2>2. CommandOK' /\ (Requested' = Requested) /\ (Single' <=> Single)
    BY <1>1, <2>1, SameCommand
  <2>3. WalkInv'
    <3>1. roots \in Seq(Seq(Int)) /\ fs \in FileSystems
      BY <1>1 DEF WalkInv
    <3>2. WalkOK(d', stack', turn')
      BY <2>1, <3>1, WalkStarts
    <3>3. WalkOK(d, stack, turn)'
      BY <2>1, <3>2, SameWalk
    <3> QED BY <2>1, <3>1, <3>3 DEF WalkInv
  <2>4. Control'
    BY <1>1, <2>1, <2>2, SameAsked DEF Control, Standings
  <2> QED BY <2>2, <2>3, <2>4 DEF AuditInv
<1>4. ASSUME OpenListed PROVE AuditInv'
  <2>1. /\ fs' = fs /\ cmd' = cmd /\ locs' = locs /\ roots' = <<Listed.path>> /\ walking' = "on"
        /\ turn' = 1 /\ stack' = <<>> /\ d' = NewDiscoverer
        /\ at = "list" /\ at' = "count" /\ rows' = rows /\ counts' = counts /\ exit' = exit
        /\ Len(counts) < Len(locs)
    BY <1>4 DEF OpenListed, same
  <2>2. CommandOK'
    BY <1>1, <2>1, SameCommand
  <2>3. WalkInv'
    <3>1. fs \in FileSystems
      BY <1>1 DEF WalkInv
    <3>2. Listed.path \in Seq(Int)
      <4>1. Len(counts) \in Nat /\ Len(locs) \in Nat /\ \A i \in 1..Len(locs) : locs[i].path \in Seq(Int)
        BY <1>1 DEF Control, CommandOK, LocsOK, FolderOK
      <4>2. PICK k : k = Len(counts) + 1
        OBVIOUS
      <4>3. k \in 1..Len(locs)
        BY <2>1, <4>1, <4>2
      <4> QED BY <4>1, <4>2, <4>3 DEF Listed
    <3>3. roots' \in Seq(Seq(Int))
      BY <2>1, <3>2
    <3>4. WalkOK(NewDiscoverer, <<>>, 1)'
      BY <3>3, StartedNext
    <3>5. WalkOK(d, stack, turn)'
      BY <2>1, <3>4
    <3> QED BY <2>1, <3>1, <3>3, <3>5 DEF WalkInv
  <2>4. Control'
    BY <1>1, <2>1, SameAsked DEF Control, Standings
  <2> QED BY <2>2, <2>3, <2>4 DEF AuditInv
<1> QED BY <1>2, <1>3, <1>4

-----------------------------------------------------------------------------
(* What Discover returns. *)

\* Of several paths one is the least, and of equal ones one is the first.
LEMMA PrimaryIs ==
  ASSUME NEW all \in Seq(ReachType), all # <<>>
  PROVE  \E i \in 1..Len(all) :
           /\ Primary(all) = all[i]
           /\ \A j \in 1..Len(all) : all[j].path # all[i].path => Less(all[i].path, all[j].path)
<1>1. PICK n : n = Len(all)
  OBVIOUS
<1>2. n \in Nat /\ n # 0 /\ DOMAIN all = 1..n /\ \A i \in 1..n : all[i].path \in Seq(Int)
  <2>1. \A i \in 1..n : all[i] \in ReachType
    BY <1>1
  <2> QED BY <1>1, <2>1 DEF ReachType
<1>3. PICK f : f = [i \in 1..n |-> all[i].path]
  OBVIOUS
<1>4. PICK paths : paths = {f[i] : i \in 1..n}
  OBVIOUS
<1>5. \A p : p \in paths <=> \E i \in 1..n : all[i].path = p
  BY <1>3, <1>4
<1>6. IsFiniteSet(paths)
  <2>1. PICK S : S = 1..n
    OBVIOUS
  <2>2. IsFiniteSet(S)
    BY <1>2, <2>1, FS_Interval
  <2>3. DOMAIN f = S
    BY <1>3, <2>1
  <2>4. IsFiniteSet({f[i] : i \in S})
    BY ONLY <2>2, <2>3, ImageIsFinite
  <2> QED BY <1>4, <2>1, <2>4
<1>7. PICK before : before = {pq \in paths \X paths : Less(pq[1], pq[2])}
  OBVIOUS
<1>8. StrictOrder(paths, before)
  <2>1. \A p, q \in paths : <<p, q>> \in before <=> Less(p, q)
    BY <1>7
  <2>2. paths \subseteq Seq(Int)
    BY <1>2, <1>5
  <2> QED BY <2>1, <2>2, LessIsOrder DEF StrictOrder
<1>9. PICK least \in paths : \A p \in paths : p # least => Less(least, p)
  <2>1. PICK s, m : s = InOrder(paths, before) /\ m = Len(s)
    OBVIOUS
  <2>2. /\ s \in Seq(paths) /\ m \in Nat
        /\ \A x \in paths : \E i \in 1..m : s[i] = x
        /\ \A i, j \in 1..m : i < j => <<s[i], s[j]>> \in before
    BY <1>6, <1>8, <2>1, InOrderSorts
  <2>3. all[1].path \in paths
    BY <1>2, <1>5
  <2>4. 1 \in 1..m
    BY <2>2, <2>3
  <2>5. s[1] \in paths
    BY <2>1, <2>2, <2>4
  <2>6. ASSUME NEW p \in paths, p # s[1] PROVE Less(s[1], p)
    <3>1. PICK i \in 1..m : s[i] = p
      BY <2>2
    <3>2. 1 < i
      BY <2>2, <2>6, <3>1
    <3>3. <<s[1], p>> \in before
      BY <2>2, <2>4, <3>1, <3>2
    <3> QED BY <1>7, <3>3
  <2> QED BY <2>5, <2>6
<1>10. PICK mine : mine = {i \in 1..n : all[i].path = least}
  OBVIOUS
<1>11. mine \subseteq Nat /\ mine # {}
  BY <1>5, <1>9, <1>10
<1>12. PICK k \in mine : \A i \in mine : k <= i
  BY <1>11, LeastExists
<1> DEFINE First(i) == \A j \in DOMAIN all : Less(all[i].path, all[j].path) \/ (all[i].path = all[j].path /\ i <= j)
<1>13. k \in DOMAIN all /\ First(k)
  <2>1. ASSUME NEW j \in 1..n PROVE Less(least, all[j].path) \/ (least = all[j].path /\ k <= j)
    BY <1>5, <1>9, <1>10, <1>12
  <2> QED BY <1>2, <1>10, <2>1
<1>14. PICK i : i = CHOOSE x \in DOMAIN all : First(x)
  OBVIOUS
<1>15. i \in DOMAIN all /\ First(i)
  <2> HIDE DEF First
  <2> QED BY <1>13, <1>14
<1>16. Primary(all) = all[i]
  BY <1>14 DEF Primary
<1> QED BY <1>1, <1>2, <1>15, <1>16

\* A candidate is a bundle of the walk with the paths that lead to it.
LEMMA CandidateIs ==
  ASSUME fs \in FileSystems, roots \in Seq(Seq(Int)), WalkOK(d, stack, turn), NEW i \in DOMAIN d.order
  PROVE  LET c == Candidate(d.reach[i])
         IN /\ c.real = d.order[i] /\ c.path \in Seq(Int)
            /\ {c.path} \cup c.also = {d.reach[i][k].path : k \in DOMAIN d.reach[i]}
            /\ \A p \in {c.path} \cup c.also : EvalSymlinks(p) = c.real
            /\ \A p \in c.also : Less(c.path, p)
<1>1. /\ d.order \in Seq(Seq(Int)) /\ d.reach \in Seq(Seq(ReachType)) /\ Len(d.reach) = Len(d.order)
      /\ d.reach[i] # <<>>
      /\ \A k \in DOMAIN d.reach[i] : EntryOK(d.reach[i][k]) /\ d.reach[i][k].real = d.order[i]
  BY WalkTyped DEF WalkOK, OrderOK
<1>2. PICK all : all = d.reach[i]
  OBVIOUS
<1>3. all \in Seq(ReachType) /\ all # <<>> /\ DOMAIN all = 1..Len(all)
  BY <1>1, <1>2
<1>4. PICK k \in 1..Len(all) :
        /\ Primary(all) = all[k]
        /\ \A j \in 1..Len(all) : all[j].path # all[k].path => Less(all[k].path, all[j].path)
  BY <1>3, PrimaryIs
<1>5. PICK c : c = Candidate(all)
  OBVIOUS
<1>6. c.path = all[k].path /\ c.real = all[k].real /\ c.also = {all[x].path : x \in DOMAIN all} \ {all[k].path}
  BY <1>4, <1>5 DEF Candidate
<1>7. \A x \in 1..Len(all) : all[x].path \in Seq(Int) /\ EvalSymlinks(all[x].path) = d.order[i] /\ all[x].real = d.order[i]
  <2>1. \A x \in 1..Len(all) : all[x] \in ReachType
    BY <1>3
  <2>2. \A x \in 1..Len(all) : EntryOK(all[x]) /\ all[x].real = d.order[i]
    BY <1>1, <1>2, <1>3
  <2> QED BY <2>1, <2>2 DEF ReachType, EntryOK
<1>8. {c.path} \cup c.also = {all[x].path : x \in DOMAIN all}
  BY <1>3, <1>6
<1>9. \A p \in {c.path} \cup c.also : EvalSymlinks(p) = c.real
  BY <1>3, <1>6, <1>7, <1>8
<1>10. \A p \in c.also : Less(c.path, p)
  BY <1>3, <1>4, <1>6
<1> QED BY <1>2, <1>5, <1>6, <1>7, <1>8, <1>9, <1>10

\* Discover returns each bundle once, in the order of the paths.
LEMMA FoundSorted ==
  ASSUME fs \in FileSystems, roots \in Seq(Seq(Int)), WalkOK(d, stack, turn), NEW found \in Candidates
  PROVE  /\ found \in Seq(Found) /\ Len(found) \in Nat
         /\ \A c : c \in Found <=> \E i \in 1..Len(found) : found[i] = c
         /\ \A c \in Found : \E i \in DOMAIN d.order : c = Candidate(d.reach[i]) /\ c.real = d.order[i]
         /\ \A i, j \in 1..Len(found) : i < j => Less(found[i].path, found[j].path) /\ found[i].real # found[j].real
         /\ Len(found) = Len(d.order)
<1>1. PICK n : n = Len(d.order)
  OBVIOUS
<1>2. n \in Nat /\ DOMAIN d.order = 1..n
  BY <1>1, WalkTyped
<1>3. PICK f : f = [i \in 1..n |-> Candidate(d.reach[i])]
  OBVIOUS
<1>4. Found = {f[i] : i \in 1..n}
  BY <1>2, <1>3 DEF Found
<1>5. \A i \in 1..n : f[i].real = d.order[i] /\ f[i].path \in Seq(Int) /\ EvalSymlinks(f[i].path) = d.order[i]
  <2> TAKE i \in 1..n
  <2>1. PICK c : c = f[i]
    OBVIOUS
  <2>2. /\ c.real = d.order[i] /\ c.path \in Seq(Int)
        /\ \A p \in {c.path} \cup c.also : EvalSymlinks(p) = c.real
    BY <1>2, <1>3, <2>1, CandidateIs
  <2> QED BY <2>1, <2>2
<1>6. \A i, j \in 1..n : d.order[i] = d.order[j] => i = j
  BY <1>2 DEF WalkOK, OrderOK
<1>7. \A i, j \in 1..n : f[i].path = f[j].path => i = j
  BY <1>5, <1>6
<1>8. IsFiniteSet(Found) /\ Cardinality(Found) = n
  <2>1. PICK S : S = 1..n
    OBVIOUS
  <2>2. IsFiniteSet(S) /\ Cardinality(S) = n
    BY <1>2, <2>1, FS_Interval
  <2>3. f \in Bijection(S, Found)
    <3>1. f \in [S -> Found] /\ \A y \in Found : \E x \in S : f[x] = y
      BY <1>3, <1>4, <2>1
    <3>2. \A x, y \in S : f[x] = f[y] => x = y
      BY <1>7, <2>1
    <3>3. f \in Surjection(S, Found) /\ f \in Injection(S, Found)
      BY ONLY <3>1, <3>2 DEF Surjection, Injection, IsInjective
    <3> QED BY ONLY <3>3 DEF Bijection
  <2>4. IsFiniteSet(Found) /\ Cardinality(S) = Cardinality(Found)
    BY ONLY <2>2, <2>3, FS_Bijection DEF ExistsBijection
  <2> QED BY <2>2, <2>4
<1>9. PICK before : before = {ab \in Found \X Found : Less(ab[1].path, ab[2].path)}
  OBVIOUS
<1>10. \A a, b \in Found : <<a, b>> \in before <=> Less(a.path, b.path)
  BY <1>9
<1>11. \A a \in Found : a.path \in Seq(Int)
  BY <1>4, <1>5
<1>12. \A a, b \in Found : a # b => a.path # b.path /\ a.real # b.real
  <2>1. \A i, j \in 1..n : i # j => f[i].path # f[j].path /\ f[i].real # f[j].real
    BY <1>5, <1>6, <1>7
  <2> QED BY <1>4, <2>1
<1>13. StrictOrder(Found, before)
  BY <1>10, <1>11, <1>12, LessIsOrder DEF StrictOrder
<1>14. found = InOrder(Found, before)
  BY <1>9 DEF Candidates, ByPath
<1>15. PICK m : m = Len(found)
  OBVIOUS
<1>16. /\ found \in Seq(Found) /\ m = n
       /\ \A x \in Found : \E i \in 1..m : found[i] = x
       /\ \A i, j \in 1..m : i < j => found[i] # found[j] /\ <<found[i], found[j]>> \in before
  <2>1. LET s == InOrder(Found, before)
        IN /\ s \in Seq(Found) /\ Len(s) = Cardinality(Found)
           /\ \A x \in Found : \E i \in 1..Len(s) : s[i] = x
           /\ \A i, j \in 1..Len(s) : i < j => s[i] # s[j] /\ <<s[i], s[j]>> \in before
    BY <1>8, <1>13, InOrderSorts
  <2> QED BY <1>8, <1>14, <1>15, <2>1
<1>17. \A i \in 1..m : found[i] \in Found
  <2>1. PICK S : S = Found
    OBVIOUS
  <2>2. found \in Seq(S)
    BY <1>16, <2>1
  <2>3. \A i \in 1..m : found[i] \in S
    BY ONLY <1>15, <2>2
  <2> QED BY <2>1, <2>3
<1>18. \A i, j \in 1..m : i < j => Less(found[i].path, found[j].path) /\ found[i].real # found[j].real
  BY <1>10, <1>12, <1>16, <1>17
<1>19. \A c \in Found : \E i \in DOMAIN d.order : c = Candidate(d.reach[i]) /\ c.real = d.order[i]
  BY <1>2, <1>3, <1>4, <1>5
<1> QED BY <1>1, <1>2, <1>15, <1>16, <1>17, <1>18, <1>19

\* A report has a row for each bundle that Discover returned.
LEMMA RowsAre ==
  ASSUME CommandOK, WalkInv, ReportsAll
  PROVE  \E found \in Candidates, outcome \in Outcomes :
           /\ rows = RowsOf(found, outcome)
           /\ DOMAIN rows = 1..Len(found) /\ Len(rows) = Len(found) /\ Len(found) \in Nat /\ Len(found) # 0
           /\ \A i \in 1..Len(found) : rows[i] = Row(found[i], Attributed(found[i]), Load(found[i].real, outcome))
<1>1. PICK found \in Candidates, outcome \in Outcomes : rows = RowsOf(found, outcome)
  BY DEF ReportsAll
<1>2. fs \in FileSystems /\ roots \in Seq(Seq(Int)) /\ WalkOK(d, stack, turn) /\ Found # {}
  BY DEF WalkInv, ReportsAll
<1>3. /\ found \in Seq(Found) /\ Len(found) \in Nat
      /\ \A c : c \in Found <=> \E i \in 1..Len(found) : found[i] = c
  BY <1>2, FoundSorted
<1>4. PICK n : n = Len(found)
  OBVIOUS
<1>5. n \in Nat /\ n # 0 /\ DOMAIN found = 1..n
  BY <1>2, <1>3, <1>4
<1>6. rows = [i \in 1..n |-> Row(found[i], Attributed(found[i]), Load(found[i].real, outcome))]
  BY <1>1, <1>5 DEF RowsOf
<1>7. DOMAIN rows = 1..n /\ Len(rows) = n
  BY <1>5, <1>6
<1> QED BY <1>1, <1>4, <1>5, <1>6, <1>7

LEMMA ReportIsNotEmpty ==
  ASSUME CommandOK, WalkInv, Reported
  PROVE  rows # <<>>
<1>1. CASE ReportsOne
  BY <1>1 DEF ReportsOne, SingleRow
<1>2. CASE ReportsAll
  <2>1. Len(rows) # 0
    BY <1>2, RowsAre
  <2> QED BY <2>1
<1> QED BY <1>1, <1>2 DEF Reported

-----------------------------------------------------------------------------
(* The invariant is one: every action of the command keeps it. *)

LEMMA RefusalsKeep ==
  ASSUME AuditInv
  PROVE  /\ RejectFlags \/ NoHome \/ RejectSelection \/ NoLocations \/ RefuseSingle \/ RefuseCard \/ RefuseMany => AuditInv'
         /\ CreateFails \/ WriteFails \/ Finish => AuditInv'
<1>1. CommandOK /\ WalkInv /\ Control
  BY DEF AuditInv
<1>2. ASSUME NEW code \in {3, 4}, Exit(code), same, noWalk, at \notin {"write", "exited"}
      PROVE  AuditInv'
  <2>1. at' = "exited" /\ exit' = code /\ rows' = rows /\ counts' = counts
    BY <1>2 DEF Exit
  <2>2. CommandOK' /\ WalkInv'
    BY <1>1, <1>2, QuietKeeps
  <2>3. rows = <<>> /\ counts \in Seq(Nat)
    BY <1>1, <1>2 DEF Control
  <2>4. Control'
    BY <1>2, <2>1, <2>3, SameAsked DEF Control, Standings
  <2> QED BY <2>2, <2>4 DEF AuditInv
<1>3. RejectFlags \/ NoHome \/ RejectSelection \/ NoLocations \/ RefuseSingle \/ RefuseCard \/ RefuseMany => AuditInv'
  <2> SUFFICES ASSUME RejectFlags \/ NoHome \/ RejectSelection \/ NoLocations \/ RefuseSingle \/ RefuseCard \/ RefuseMany
               PROVE  AuditInv'
    OBVIOUS
  <2>1. same /\ noWalk /\ at \in {"start", "single", "many", "walk"} /\ (Exit(3) \/ Exit(4))
    BY DEF RejectFlags, NoHome, RejectSelection, NoLocations, RefuseSingle, RefuseCard, RefuseMany, AsksRegistry, Started
  <2> QED BY <1>2, <2>1
<1>4. ASSUME NEW code \in {0, 1, 3, 4}, Exit(code), same, noWalk, at = "write",
             code = 0 => ~WorstFails, code = 1 => WorstFails
      PROVE  AuditInv'
  <2>1. at' = "exited" /\ exit' = code /\ rows' = rows /\ counts' = counts
    BY <1>4 DEF Exit
  <2>2. CommandOK' /\ WalkInv'
    BY <1>1, <1>4, QuietKeeps
  <2>3. Reported /\ counts \in Seq(Nat) /\ Asked
    BY <1>1, <1>4 DEF Control
  <2>4. Reported' /\ (WorstFails' <=> WorstFails) /\ Asked'
    BY <1>4, <2>1, <2>3, SameReport, SameAsked DEF same, noWalk
  <2>5. rows # <<>>
    BY <1>1, <2>3, ReportIsNotEmpty
  <2>6. Control'
    BY <1>4, <2>1, <2>3, <2>4, <2>5 DEF Control, Standings
  <2> QED BY <2>2, <2>6 DEF AuditInv
<1>5. CreateFails \/ WriteFails \/ Finish => AuditInv'
  <2> SUFFICES ASSUME CreateFails \/ WriteFails \/ Finish PROVE AuditInv'
    OBVIOUS
  <2>1. CASE CreateFails \/ WriteFails
    BY <1>4, <2>1 DEF CreateFails, WriteFails
  <2>2. CASE Finish
    <3>1. PICK code : code = IF WorstFails THEN 1 ELSE 0
      OBVIOUS
    <3>2. Exit(code) /\ same /\ noWalk /\ at = "write"
      BY <2>2, <3>1 DEF Finish
    <3> QED BY <1>4, <3>1, <3>2
  <2> QED BY <2>1, <2>2
<1> QED BY <1>3, <1>5

LEMMA ScansKeep ==
  ASSUME AuditInv
  PROVE  /\ ChooseSingle => AuditInv'
         /\ ScanSingle => AuditInv'
         /\ ScanAll => AuditInv'
         /\ WalkOn => AuditInv'
<1>1. CommandOK /\ WalkInv /\ Control
  BY DEF AuditInv
<1>2. ASSUME ChooseSingle PROVE AuditInv'
  <2>1. /\ fs' = fs /\ cmd' = cmd /\ locs' = locs /\ roots' = roots /\ walking' = walking
        /\ at = "start" /\ at' = "single" /\ rows' = rows /\ counts' = counts /\ exit' = exit
        /\ cmd.verb = "scan" /\ Single /\ Asked
    BY <1>2 DEF ChooseSingle, Started, same, noWalk, Asked
  <2>2. CommandOK' /\ WalkInv' /\ Single'
    BY <1>1, <1>2, <2>1, QuietKeeps, SameCommand DEF ChooseSingle
  <2>3. Control'
    BY <1>1, <2>1, <2>2, SameAsked DEF Control, Standings
  <2> QED BY <2>2, <2>3 DEF AuditInv
<1>3. ASSUME ScanSingle PROVE AuditInv'
  <2>1. /\ fs' = fs /\ cmd' = cmd /\ locs' = locs /\ roots' = roots
        /\ at = "single" /\ at' = "write" /\ counts' = counts /\ exit' = exit
    BY <1>3 DEF ScanSingle, same, noWalk
  <2>2. CommandOK' /\ WalkInv'
    BY <1>1, <1>3, QuietKeeps DEF ScanSingle
  <2>3. \E outcome \in Outcomes : Load(cmd.args[1], outcome) # Unloadable /\ rows' = SingleRow(outcome)
    BY <1>3 DEF ScanSingle, SingleRow
  <2>4. Reported'
    <3>1. Single /\ roots = <<>> /\ cmd.verb = "scan"
      BY <1>1, <2>1 DEF Control
    <3>2. PICK outcome \in Outcomes : Load(cmd.args[1], outcome) # Unloadable /\ rows' = SingleRow(outcome)
      BY <2>3
    <3>3. Outcomes' = Outcomes
      BY <2>1 DEF Outcomes, SkillFiles
    <3>4. Load(cmd.args[1], outcome)' = Load(cmd.args[1], outcome)
      BY <2>1, SameFs DEF Load
    <3>5. SingleRow(outcome)' = SingleRow(outcome)
      BY <2>1, <3>4, SameFs DEF SingleRow
    <3>6. Single'
      BY <2>1, <3>1, SameCommand
    <3> QED BY <2>1, <3>1, <3>2, <3>3, <3>4, <3>5, <3>6 DEF Reported, ReportsOne
  <2>5. Control'
    BY <1>1, <2>1, <2>4, SameAsked DEF Control, Standings
  <2> QED BY <2>2, <2>5 DEF AuditInv
<1>4. ASSUME ScanAll PROVE AuditInv'
  <2>1. /\ fs' = fs /\ cmd' = cmd /\ locs' = locs /\ roots' = roots /\ d' = d /\ walking' = walking /\ walking = "done"
        /\ at = "walk" /\ at' = "write" /\ counts' = counts /\ exit' = exit /\ Found # {}
    BY <1>4 DEF ScanAll, same, noWalk
  <2>2. CommandOK' /\ WalkInv'
    BY <1>1, <1>4, QuietKeeps DEF ScanAll
  <2>3. PICK found \in Candidates, outcome \in Outcomes : rows' = RowsOf(found, outcome)
    BY <1>4 DEF ScanAll, RowsOf
  <2>4. Reported'
    <3>1. ~Single /\ roots = Requested /\ cmd.verb = "scan"
      BY <1>1, <2>1 DEF Control
    <3>2. Outcomes' = Outcomes /\ Candidates' = Candidates /\ Found' = Found
      BY <2>1 DEF Outcomes, SkillFiles, Candidates, Found
    <3>3. \A p, o : Load(p, o)' = Load(p, o)
      BY <2>1, SameFs DEF Load
    <3>4. \A c : Attributed(c)' = Attributed(c)
      BY <2>1 DEF Attributed
    <3>5. RowsOf(found, outcome)' = RowsOf(found, outcome)
      BY <3>3, <3>4 DEF RowsOf
    <3>6. (Single' <=> Single) /\ Requested' = Requested
      BY <2>1, SameCommand
    <3> QED BY <2>1, <2>3, <3>1, <3>2, <3>5, <3>6 DEF Reported, ReportsAll
  <2>5. Control'
    BY <1>1, <2>1, <2>4, SameAsked DEF Control, Standings
  <2> QED BY <2>2, <2>5 DEF AuditInv
<1>5. ASSUME WalkOn PROVE AuditInv'
  <2>1. /\ fs' = fs /\ cmd' = cmd /\ locs' = locs /\ roots' = roots
        /\ at = "walk" /\ at' = at /\ rows' = rows /\ counts' = counts /\ exit' = exit
    BY <1>5 DEF WalkOn, Walk, RootMissing, RootFile, RootDir, Link, SkipName, Prune, Descend, Leave, EndWalk
  <2>2. WalkInv'
    BY <1>1, <1>5, WalkKeeps DEF WalkOn
  <2>3. CommandOK' /\ (Requested' = Requested) /\ (Single' <=> Single)
    BY <1>1, <2>1, SameCommand
  <2>4. Control'
    BY <1>1, <2>1, <2>3, SameAsked DEF Control, Standings
  <2> QED BY <2>2, <2>3, <2>4 DEF AuditInv
<1> QED BY <1>2, <1>3, <1>4, <1>5

LEMMA ListingKeeps ==
  ASSUME AuditInv
  PROVE  /\ ListLocations => AuditInv'
         /\ ListMissing => AuditInv'
         /\ CountOn => AuditInv'
         /\ CountListed => AuditInv'
         /\ ListDone => AuditInv'
<1>1. CommandOK /\ WalkInv /\ Control
  BY DEF AuditInv
<1>2. ASSUME ListLocations PROVE AuditInv'
  <2>1. cmd' = cmd /\ at = "start" /\ at' = "list" /\ rows' = rows /\ counts' = counts /\ exit' = exit /\ cmd.verb = "locations"
        /\ Asked
    BY <1>2 DEF ListLocations, Started, same, Asked
  <2>2. CommandOK' /\ WalkInv'
    BY <1>1, <1>2, QuietKeeps DEF ListLocations
  <2>3. Control'
    BY <1>1, <2>1, SameAsked DEF Control, Standings
  <2> QED BY <2>2, <2>3 DEF AuditInv
<1>3. ASSUME ListMissing PROVE AuditInv'
  <2>1. cmd' = cmd /\ at = "list" /\ at' = at /\ rows' = rows /\ counts' = Append(counts, 0) /\ exit' = exit
    BY <1>3 DEF ListMissing, same
  <2>2. CommandOK' /\ WalkInv'
    BY <1>1, <1>3, QuietKeeps DEF ListMissing
  <2>3. counts' \in Seq(Nat)
    BY <1>1, <2>1 DEF Control
  <2>4. Control'
    BY <1>1, <2>1, <2>3, SameAsked DEF Control, Standings
  <2> QED BY <2>2, <2>4 DEF AuditInv
<1>4. ASSUME CountOn PROVE AuditInv'
  <2>1. /\ fs' = fs /\ cmd' = cmd /\ locs' = locs
        /\ at = "count" /\ at' = at /\ rows' = rows /\ counts' = counts /\ exit' = exit
    BY <1>4 DEF CountOn, Walk, RootMissing, RootFile, RootDir, Link, SkipName, Prune, Descend, Leave, EndWalk
  <2>2. WalkInv'
    BY <1>1, <1>4, WalkKeeps DEF CountOn
  <2>3. CommandOK'
    BY <1>1, <2>1, SameCommand
  <2>4. Control'
    BY <1>1, <2>1, SameAsked DEF Control, Standings
  <2> QED BY <2>2, <2>3, <2>4 DEF AuditInv
<1>5. ASSUME CountListed PROVE AuditInv'
  <2>1. /\ cmd' = cmd /\ at = "count" /\ at' = "list" /\ rows' = rows /\ exit' = exit
        /\ walking \in {"failed", "done"}
    BY <1>5 DEF CountListed, same
  <2>2. CommandOK' /\ WalkInv'
    BY <1>1, <1>5, QuietKeeps DEF CountListed
  <2>3. counts' \in Seq(Nat)
    <3>1. PICK found \in Candidates : counts' = Append(counts, IF walking = "done" THEN Len(found) ELSE 0)
      BY <1>5 DEF CountListed
    <3>2. fs \in FileSystems /\ roots \in Seq(Seq(Int)) /\ WalkOK(d, stack, turn)
      BY <1>1, <2>1 DEF WalkInv
    <3>3. Len(found) \in Nat
      BY <3>2, FoundSorted
    <3>4. counts \in Seq(Nat) /\ (IF walking = "done" THEN Len(found) ELSE 0) \in Nat
      BY <1>1, <3>3 DEF Control
    <3> QED BY <3>1, <3>4, AppendIs
  <2>4. Control'
    BY <1>1, <2>1, <2>3, SameAsked DEF Control, Standings
  <2> QED BY <2>2, <2>4 DEF AuditInv
<1>6. ASSUME ListDone PROVE AuditInv'
  <2>1. /\ cmd' = cmd /\ at = "list" /\ at' = "exited" /\ rows' = rows /\ counts' = counts /\ exit' = 0
    BY <1>6 DEF ListDone, same, Exit
  <2>2. CommandOK' /\ WalkInv'
    BY <1>1, <1>6, QuietKeeps DEF ListDone
  <2>3. rows' = <<>> /\ cmd'.verb = "locations" /\ counts' \in Seq(Nat) /\ Asked
    BY <1>1, <2>1 DEF Control
  <2>4. Control'
    BY <2>1, <2>3, SameAsked DEF Control, Standings
  <2> QED BY <2>2, <2>4 DEF AuditInv
<1> QED BY <1>2, <1>3, <1>4, <1>5, <1>6

LEMMA StillKeeps ==
  ASSUME AuditInv, UNCHANGED vars
  PROVE  AuditInv'
<1>1. CommandOK /\ WalkInv /\ Control
  BY DEF AuditInv
<1>2. same /\ noWalk /\ at' = at /\ rows' = rows /\ counts' = counts /\ exit' = exit
  BY DEF vars, walkVars, same, noWalk
<1>3. CommandOK' /\ WalkInv'
  BY <1>1, <1>2, QuietKeeps
<1>4. (Reported' <=> Reported) /\ (WorstFails' <=> WorstFails)
  BY <1>2, SameReport DEF same, noWalk
<1>5. (Single' <=> Single) /\ Requested' = Requested
  BY <1>2, SameCommand DEF same
<1>6. Control'
  BY <1>1, <1>2, <1>4, <1>5, SameAsked DEF Control, Standings, same, noWalk
<1> QED BY <1>3, <1>6 DEF AuditInv

\* What the walk knows, what a report was made from and where the command stands
\* (commands.go, scan_many.go, installed.go, discover.go) hold in every state.
THEOREM AuditInvariant == Spec => []AuditInv
<1>1. Init => AuditInv
  BY Starts
<1>2. AuditInv /\ [Next]_vars => AuditInv'
  <2> SUFFICES ASSUME AuditInv, [Next]_vars PROVE AuditInv'
    OBVIOUS
  <2>1. CASE RejectFlags \/ NoHome \/ RejectSelection \/ NoLocations \/ RefuseSingle \/ RefuseCard \/ RefuseMany
    BY <2>1, RefusalsKeep
  <2>2. CASE CreateFails \/ WriteFails \/ Finish
    BY <2>2, RefusalsKeep
  <2>3. CASE ChooseSingle \/ ScanSingle \/ ScanAll \/ WalkOn
    BY <2>3, ScansKeep
  <2>4. CASE ChooseMany \/ Search \/ OpenListed
    BY <2>4, SomeDoors
  <2>5. CASE ListLocations \/ ListMissing \/ CountOn \/ CountListed \/ ListDone
    BY <2>5, ListingKeeps
  <2>6. CASE Exited \/ UNCHANGED vars
    BY <2>6, StillKeeps DEF Exited
  <2> QED BY <2>1, <2>2, <2>3, <2>4, <2>5, <2>6 DEF Next
<1> QED BY <1>1, <1>2, PTL DEF Spec

-----------------------------------------------------------------------------
(* What a walk that is over has reached. *)

LEMMA NotLimited ==
  ASSUME WalkOK(d, stack, turn), ~Limited
  PROVE  ~d.stopped /\ d.pruned = {}
<1>1. ~d.stopped
  <2>1. ASSUME d.stopped PROVE FALSE
    <3>1. PICK n \in d.errs : n.kind = "bundles"
      BY <2>1 DEF WalkOK, OrderOK
    <3> QED BY <3>1 DEF Limited, Notes
  <2> QED BY <2>1
<1>2. d.pruned = {}
  <2>1. ASSUME NEW r \in d.pruned PROVE FALSE
    <3>1. Note(r, "depth") \in Notes /\ Note(r, "depth").kind = "depth"
      BY DEF Notes, Note
    <3> QED BY <3>1 DEF Limited
  <2> QED BY <2>1
<1> QED BY <1>1, <1>2

\* A directory is not what is named SKILL.md.
LEMMA FilesAreNotDirs ==
  ASSUME fs \in FileSystems
  PROVE  \A p \in SkillFiles : p \notin fs.dirs
BY TreeFacts DEF SkillFiles

LEMMA RootsAreDone ==
  ASSUME WalkInv, walking = "done", ~d.stopped, NEW r \in ToSet(roots)
  PROVE  r \in Seq(Int) /\ RootDone(d, r)
<1>1. /\ roots \in Seq(Seq(Int)) /\ WalkOK(d, stack, turn) /\ turn > Len(roots) /\ fs \in FileSystems
  BY DEF WalkInv
<1>2. PICK i \in 1..Len(roots) : roots[i] = r
  BY <1>1, ToSetIs
<1>3. turn = Len(roots) + 1 /\ Len(roots) \in Nat
  <2>1. turn \in Nat /\ turn <= Len(roots) + 1 /\ Len(roots) \in Nat
    BY <1>1, WalkTyped
  <2>2. PICK n : n = Len(roots)
    OBVIOUS
  <2>3. n \in Nat /\ turn \in Nat /\ turn <= n + 1 /\ turn > n
    BY <1>1, <2>1, <2>2
  <2>4. turn = n + 1
    BY ONLY <2>3
  <2> QED BY <2>2, <2>3, <2>4
<1>4. i \in 1..(turn - 1)
  BY <1>3
<1> QED BY <1>1, <1>2, <1>4 DEF WalkOK

\* A note stands for whatever is below what could not be read.
LEMMA NoteStands ==
  ASSUME WalkOK(d, stack, turn), fs \in FileSystems, NEW n \in d.errs, n.kind = "unreadable",
         NEW u \in Seq(Int), NEW p \in Seq(Int), IsPrefix(EvalSymlinks(n.path), u), IsPrefix(u, p)
  PROVE  UnreadableAbove(p)
<1>1. n.path \in Seq(Int)
  BY DEF WalkOK, DiscovererType, NoteType
<1>2. IsPrefix(EvalSymlinks(n.path), p)
  BY <1>1, EvalIs, PrefixOrder
<1>3. n \in Notes
  BY DEF Notes
<1> QED BY <1>2, <1>3 DEF UnreadableAbove

LEMMA UnreadableBelow ==
  ASSUME WalkOK(d, stack, turn), fs \in FileSystems, NEW u \in Seq(Int), NEW p \in Seq(Int),
         UnreadableAbove(u), IsPrefix(u, p), d.pruned = {}
  PROVE  UnreadableAbove(p)
<1>1. PICK n \in Notes : n.kind = "unreadable" /\ IsPrefix(EvalSymlinks(n.path), u)
  BY DEF UnreadableAbove
<1>2. n \in d.errs
  BY DEF Notes
<1> QED BY <1>1, <1>2, NoteStands

\* Every directory that a root holds was looked at, or is below one that could not be.
LEMMA SeenBelow ==
  ASSUME WalkInv, walking = "done", ~d.stopped, d.pruned = {}, NEW r \in Seq(Int),
         EvalSymlinks(r) \in d.seen, NEW w \in Below(r)
  PROVE  w \in d.seen \/ UnreadableAbove(w)
<1>1. fs \in FileSystems /\ roots \in Seq(Seq(Int)) /\ WalkOK(d, stack, turn) /\ stack = <<>>
  BY DEF WalkInv
<1> DEFINE Good(u) == u \in d.seen \/ UnreadableAbove(u)
           S == {n \in Nat : \A u \in Below(r) : Len(u) = n => Good(u)}
<1>2. ASSUME NEW u \in Below(r), u # EvalSymlinks(r), Good(Front(u)) PROVE Good(u)
  <2>1. /\ u # <<>> /\ Front(u) \in Below(r) /\ Front(u) \notin fs.skills
        /\ Last(u) \notin Skipped /\ Last(u) \in Entries(Front(u)) /\ u = Append(Front(u), Last(u))
    BY <1>1, <1>2, BelowComesFrom
  <2>2. u \in fs.dirs /\ u \in Seq(Int) /\ Front(u) \in Seq(Int)
    BY <1>1, <2>1, BelowIs
  <2>3. IsPrefix(Front(u), u)
    BY <2>1, <2>2, PrefixOrder
  <2>4. CASE UnreadableAbove(Front(u))
    BY <1>1, <2>2, <2>3, <2>4, UnreadableBelow
  <2>5. CASE Front(u) \in d.seen
    <3>1. Looked(d, stack, Front(u))
      BY <1>1, <2>5 DEF WalkOK
    <3>2. ~IsBundleDir(Front(u))
      BY <2>1 DEF IsBundleDir
    <3>3. CASE ~Searchable(Front(u))
      <4>1. PICK n \in d.errs : n.kind = "unreadable" /\ EvalSymlinks(n.path) = Front(u)
        BY <3>1, <3>2, <3>3 DEF Looked
      <4>2. IsPrefix(EvalSymlinks(n.path), Front(u))
        BY <2>2, <4>1, PrefixOrder
      <4> QED BY <1>1, <2>2, <2>3, <4>1, <4>2, NoteStands
    <3>4. CASE Searchable(Front(u))
      <4>1. Handled(d, Append(Front(u), Last(u)))
        BY <1>1, <2>1, <3>1, <3>2, <3>4 DEF Looked
      <4>2. Handled(d, u)
        BY <2>1, <4>1
      <4> QED BY <2>1, <2>2, <4>2 DEF Handled
    <3> QED BY <3>3, <3>4
  <2> QED BY <1>2, <2>4, <2>5
<1>3. \A u \in Below(r) : Len(u) \in Nat /\ u \in Seq(Int)
  BY <1>1, BelowIs
<1>4. \A u \in Below(r) : Len(u) = 0 => Good(u)
  <2> TAKE u \in Below(r)
  <2>1. Len(u) = 0 => u = EvalSymlinks(r)
    <3>1. CASE u = EvalSymlinks(r)
      BY <3>1
    <3>2. CASE u # EvalSymlinks(r)
      BY <1>1, <1>3, <3>2, BelowComesFrom, SeqIs
    <3> QED BY <3>1, <3>2
  <2> QED BY <2>1
<1>5. ASSUME NEW n \in Nat, n \in S PROVE n + 1 \in S
  <2>1. PICK m : m = n + 1
    OBVIOUS
  <2>2. ASSUME NEW u \in Below(r), Len(u) = m PROVE Good(u)
    <3>1. CASE u = EvalSymlinks(r)
      BY <3>1
    <3>2. CASE u # EvalSymlinks(r)
      <4>1. Front(u) \in Below(r) /\ u # <<>>
        BY <1>1, <3>2, BelowComesFrom
      <4>2. Len(Front(u)) = Len(u) - 1
        BY <1>3, <4>1, FrontIs
      <4>3. Len(Front(u)) = n
        BY <2>1, <2>2, <4>2
      <4>4. Good(Front(u))
        BY <1>5, <4>1, <4>3
      <4> QED BY <1>2, <3>2, <4>4
    <3> QED BY <3>1, <3>2
  <2>3. m \in Nat
    BY <2>1
  <2> HIDE DEF Good
  <2> QED BY <2>1, <2>2, <2>3
<1>6. 0 \in S
  <2> HIDE DEF Good
  <2> QED BY <1>4
<1>7. Nat \subseteq S
  <2> HIDE DEF S
  <2> QED BY <1>5, <1>6, ByInduction
<1>8. Good(w)
  <2>1. PICK n : n = Len(w)
    OBVIOUS
  <2>2. n \in Nat
    BY <1>3, <2>1
  <2>3. n \in S
    BY <1>7, <2>2
  <2> HIDE DEF Good
  <2> QED BY <2>1, <2>3
<1> QED BY <1>8

\* Each bundle that a root leads to was kept, or is below what could not be read.
LEMMA Reached ==
  ASSUME WalkInv, walking = "done", ~d.stopped, d.pruned = {}, NEW r \in ToSet(roots), NEW p \in Places(r)
  PROVE  Kept(d, p.spot, p.real) \/ UnreadableAbove(p.spot)
<1>1. fs \in FileSystems /\ roots \in Seq(Seq(Int)) /\ WalkOK(d, stack, turn) /\ stack = <<>>
  BY DEF WalkInv
<1>2. r \in Seq(Int) /\ RootDone(d, r)
  BY RootsAreDone
<1>3. PICK top : top = EvalSymlinks(r)
  OBVIOUS
<1>4. top \in Seq(Int)
  BY <1>1, <1>2, <1>3, EvalIs
<1>5. CASE IsSkillFile(top) /\ Kept(d, top, top)
  <2>1. top \notin fs.dirs
    BY <1>1, <1>4, <1>5, SkillFileIs
  <2>2. Below(r) = {}
    <3>1. ASSUME NEW u \in Below(r) PROVE FALSE
      <4>1. u \in fs.dirs /\ IsPrefix(top, u)
        BY <1>1, <1>2, <1>3, BelowIs
      <4> QED BY <1>1, <1>4, <2>1, <4>1, DirsAbove
    <3> QED BY <3>1
  <2>3. p.spot = top /\ p.real = top
    BY <1>3, <2>2 DEF Places
  <2> QED BY <1>5, <2>3
<1>6. CASE IsDir(top) /\ top \in d.seen
  <2>1. top \in fs.dirs
    BY <1>6 DEF IsDir
  <2>2. top \notin SkillFiles
    BY <1>1, <2>1, FilesAreNotDirs
  <2>3. \A u \in Below(r) : u \in d.seen \/ UnreadableAbove(u)
    BY <1>2, <1>3, <1>6, SeenBelow
  <2>4. \A u \in Below(r) : u \in fs.dirs /\ u \in Seq(Int) /\ IsPrefix(u, u)
    BY <1>1, <1>2, BelowIs, PrefixOrder
  <2>5. CASE \E u \in Below(r) \cap fs.skills : p = [spot |-> u, real |-> u]
    <3>1. PICK u \in Below(r) \cap fs.skills : p = [spot |-> u, real |-> u]
      BY <2>5
    <3>2. CASE u \in d.seen
      <4>1. Looked(d, stack, u)
        BY <1>1, <3>2 DEF WalkOK
      <4>2. CASE IsBundleDir(u)
        BY <3>1, <4>1, <4>2 DEF Looked
      <4>3. CASE ~IsBundleDir(u)
        <5>1. ~Searchable(u)
          BY <4>3 DEF IsBundleDir
        <5>2. PICK n \in d.errs : n.kind = "unreadable" /\ EvalSymlinks(n.path) = u
          BY <4>1, <4>3, <5>1 DEF Looked
        <5>3. UnreadableAbove(u)
          BY <1>1, <2>4, <5>2, NoteStands
        <5> QED BY <3>1, <5>3
      <4> QED BY <4>2, <4>3
    <3>3. CASE UnreadableAbove(u)
      BY <3>1, <3>3
    <3> QED BY <2>3, <3>2, <3>3
  <2>6. CASE \E l \in DOMAIN fs.links : /\ Front(l) \in Below(r) \ fs.skills /\ IsBundleDir(fs.links[l])
                                        /\ p = [spot |-> l, real |-> fs.links[l]]
    <3>1. PICK l \in DOMAIN fs.links : /\ Front(l) \in Below(r) \ fs.skills /\ IsBundleDir(fs.links[l])
                                       /\ p = [spot |-> l, real |-> fs.links[l]]
      BY <2>6
    <3>2. PICK u : u = Front(l)
      OBVIOUS
    <3>3. l \in Seq(Int) /\ l # <<>> /\ u \in Seq(Int) /\ IsPrefix(u, l)
      BY <1>1, <2>4, <3>1, <3>2, TreeFacts, PrefixOrder
    <3>4. ~IsBundleDir(u)
      BY <3>1, <3>2 DEF IsBundleDir
    <3>5. CASE UnreadableAbove(u)
      BY <1>1, <3>1, <3>3, <3>5, UnreadableBelow
    <3>6. CASE u \in d.seen
      <4>1. Looked(d, stack, u)
        BY <1>1, <3>6 DEF WalkOK
      <4>2. CASE ~Searchable(u)
        <5>1. PICK n \in d.errs : n.kind = "unreadable" /\ EvalSymlinks(n.path) = u
          BY <3>4, <4>1, <4>2 DEF Looked
        <5>2. UnreadableAbove(l)
          BY <1>1, <3>3, <5>1, NoteStands, PrefixOrder
        <5> QED BY <3>1, <5>2
      <4>3. CASE Searchable(u)
        <5>1. Last(l) \in Entries(u) /\ l = Append(u, Last(l))
          BY <1>1, <3>2, <3>3, EntriesAre
        <5>2. Handled(d, Append(u, Last(l)))
          BY <1>1, <3>4, <4>1, <4>3, <5>1 DEF Looked
        <5>3. Handled(d, l)
          BY <5>1, <5>2
        <5> QED BY <3>1, <5>3 DEF Handled
      <4> QED BY <4>2, <4>3
    <3> QED BY <2>3, <3>1, <3>2, <3>5, <3>6
  <2>7. \/ \E u \in Below(r) \cap fs.skills : p = [spot |-> u, real |-> u]
        \/ \E l \in DOMAIN fs.links : /\ Front(l) \in Below(r) \ fs.skills /\ IsBundleDir(fs.links[l])
                                      /\ p = [spot |-> l, real |-> fs.links[l]]
    BY <1>3, <2>2 DEF Places
  <2> QED BY <2>5, <2>6, <2>7
<1> QED BY <1>2, <1>3, <1>5, <1>6 DEF RootDone

-----------------------------------------------------------------------------
(* Exit code 0 is an audit. *)

Statuses == {"pass", "warn", "fail", "error"}

LEMMA ResultIs ==
  ASSUME NEW outcome \in Outcomes, NEW p
  PROVE  /\ DOMAIN outcome = fs.skills \cup SkillFiles
         /\ Load(p, outcome).status \in Statuses /\ Load(p, outcome).score \in Int
<1>1. PICK all : all = fs.skills \cup SkillFiles
  OBVIOUS
<1>2. /\ DOMAIN outcome = all
      /\ \A b \in all : outcome[b].status \in Statuses /\ outcome[b].score \in Int
  <2>1. CASE outcome \in {[b \in all |-> Result("pass", 1)]}
    BY <2>1 DEF Result, Statuses
  <2>2. CASE outcome \in {[b \in all |-> IF b = odd THEN r ELSE Result("pass", 1)] :
                            odd \in all, r \in {Unloadable, Result("fail", 3), Result("warn", 2), Result("pass", 0)}}
    <3>1. PICK odd \in all, r \in {Unloadable, Result("fail", 3), Result("warn", 2), Result("pass", 0)} :
            outcome = [b \in all |-> IF b = odd THEN r ELSE Result("pass", 1)]
      BY <2>2
    <3>2. r.status \in Statuses /\ r.score \in Int
      BY <3>1 DEF Result, Unloadable, Statuses
    <3>3. Result("pass", 1).status \in Statuses /\ Result("pass", 1).score \in Int
      BY DEF Result, Statuses
    <3> QED BY <3>1, <3>2, <3>3
  <2> QED BY <1>1, <2>1, <2>2 DEF Outcomes
<1>3. Unloadable.status \in Statuses /\ Unloadable.score \in Int
  BY DEF Unloadable, Result, Statuses
<1> QED BY <1>1, <1>2, <1>3 DEF Load

LEMMA ClosedOne ==
  ASSUME AuditInv, ReportsOne, ~WorstFails, NEW root \in ToSet(Requested), NEW p \in Places(root)
  PROVE  Shown(p.real)
<1>1. /\ fs \in FileSystems /\ CommandOK
      /\ ~cmd.installed /\ Len(cmd.args) = 1
  BY DEF AuditInv, WalkInv, ReportsOne, Single
<1>2. PICK a : a = cmd.args[1]
  OBVIOUS
<1>3. root = a /\ a \in Seq(Int)
  <2>1. cmd.args \in Seq(Seq(Int)) /\ root \in ToSet(cmd.args)
    BY <1>1, RequestedIs
  <2>2. \E i \in 1..Len(cmd.args) : cmd.args[i] = root
    BY <2>1, ToSetIs
  <2>3. cmd.args[1] = root
    BY <1>1, <2>2
  <2>4. root \in Seq(Int)
    BY <2>1, ToSetIs
  <2> QED BY <1>2, <2>3, <2>4
<1>4. PICK top : top = EvalSymlinks(a)
  OBVIOUS
<1>5. top \in Seq(Int)
  BY <1>1, <1>3, <1>4, EvalIs
<1>6. PICK outcome \in Outcomes : Load(a, outcome) # Unloadable /\ rows = SingleRow(outcome)
  BY <1>2 DEF ReportsOne
<1>7. top \in fs.skills \cup SkillFiles
  BY <1>4, <1>6, ResultIs DEF Load
<1>8. Shown(top)
  <2>1. rows = <<Row([path |-> a, real |-> top, also |-> {}], {}, Load(a, outcome))>>
    BY <1>2, <1>4, <1>6 DEF SingleRow
  <2>2. 1 \in DOMAIN rows /\ rows[1].real = top /\ rows[1].status = Load(a, outcome).status
    BY <2>1 DEF Row
  <2>3. rows[1].status \in Statuses
    BY <2>2, ResultIs
  <2>4. rows[1].status \notin {"fail", "error"}
    BY <2>2 DEF WorstFails
  <2> QED BY <2>2, <2>3, <2>4 DEF Shown, Statuses
<1>9. \A u \in Below(root) : u = top /\ top \in fs.skills
  <2> TAKE u \in Below(root)
  <2>1. /\ u \in fs.dirs /\ u \in Seq(Int) /\ IsPrefix(top, u)
        /\ \A v \in fs.skills : ~(IsPrefix(top, v) /\ IsStrictPrefix(v, u))
    BY <1>1, <1>3, <1>4, BelowIs
  <2>2. top \in fs.dirs
    BY <1>1, <1>5, <2>1, DirsAbove
  <2>3. top \in fs.skills
    BY <1>1, <1>7, <2>2, FilesAreNotDirs
  <2>4. IsPrefix(top, top)
    BY <1>5, PrefixOrder
  <2>5. top = u
    BY <2>1, <2>3, <2>4 DEF IsStrictPrefix
  <2> QED BY <2>3, <2>5
<1>10. p.real = top
  <2>1. Below(root) \ fs.skills = {} /\ \A u \in Below(root) \cap fs.skills : u = top
    BY <1>9
  <2> QED BY <1>3, <1>4, <2>1 DEF Places
<1> QED BY <1>8, <1>10

LEMMA ClosedAll ==
  ASSUME AuditInv, ReportsAll, ~WorstFails, NEW root \in ToSet(Requested), NEW p \in Places(root)
  PROVE  Shown(p.real) \/ Limited \/ UnreadableAbove(p.spot)
<1> SUFFICES ASSUME ~Limited, ~UnreadableAbove(p.spot) PROVE Shown(p.real)
  OBVIOUS
<1>1. /\ CommandOK /\ WalkInv /\ walking = "done" /\ roots = Requested
      /\ fs \in FileSystems /\ roots \in Seq(Seq(Int)) /\ WalkOK(d, stack, turn)
  BY DEF AuditInv, WalkInv, ReportsAll
<1>2. ~d.stopped /\ d.pruned = {}
  BY <1>1, NotLimited
<1>3. Kept(d, p.spot, p.real)
  BY <1>1, <1>2, Reached
<1>4. PICK i \in DOMAIN d.order : d.order[i] = p.real
  BY <1>2, <1>3 DEF Kept
<1>5. PICK c : c = Candidate(d.reach[i])
  OBVIOUS
<1>6. c \in Found /\ c.real = p.real
  BY <1>1, <1>4, <1>5, CandidateIs DEF Found
<1>7. PICK found \in Candidates, outcome \in Outcomes :
        /\ DOMAIN rows = 1..Len(found)
        /\ \A k \in 1..Len(found) : rows[k] = Row(found[k], Attributed(found[k]), Load(found[k].real, outcome))
  BY <1>1, RowsAre
<1>8. PICK k \in 1..Len(found) : found[k] = c
  BY <1>1, <1>6, FoundSorted
<1>9. k \in DOMAIN rows /\ rows[k].real = c.real /\ rows[k].status = Load(c.real, outcome).status
  BY <1>7, <1>8 DEF Row
<1>10. rows[k].status \in Statuses
  BY <1>9, ResultIs
<1>11. rows[k].status \notin {"fail", "error"}
  BY <1>9 DEF WorstFails
<1> QED BY <1>6, <1>9, <1>10, <1>11 DEF Shown, Statuses

\* Exit code 0 is an audit (scan_many.go: "1 when any bundle fails or could not be
\* loaded (fail-closed), 3 when nothing was found"): whatever the tree and its
\* links, the roots and their order, every bundle below them was loaded and does
\* not fail, unless the report notes a limit or an unreadable directory above it.
THEOREM ExitZeroIsAnAudit == Spec => []AuditFailsClosed
<1>1. AuditInv => AuditFailsClosed
  <2> SUFFICES ASSUME AuditInv, exit = 0, cmd.verb = "scan"
               PROVE  /\ rows # <<>>
                      /\ \A root \in ToSet(Requested) : \A p \in Places(root) :
                           Shown(p.real) \/ Limited \/ UnreadableAbove(p.spot)
    BY DEF AuditFailsClosed
  <2>1. at = "exited"
    BY DEF AuditInv, Control, Running
  <2>2. rows # <<>> /\ ~WorstFails /\ Reported
    BY <2>1 DEF AuditInv, Control
  <2>3. CASE ReportsOne
    BY <2>2, <2>3, ClosedOne
  <2>4. CASE ReportsAll
    BY <2>2, <2>4, ClosedAll
  <2> QED BY <2>2, <2>3, <2>4 DEF Reported
<1> QED BY <1>1, AuditInvariant, PTL

-----------------------------------------------------------------------------
(* The rows of a search of many are what its folders hold. *)

\* What a row stands for, in the walk.
LEMMA RowIs ==
  ASSUME AuditInv, ReportsAll, NEW i \in DOMAIN rows
  PROVE  \E x \in DOMAIN d.order :
           /\ rows[i].real = d.order[x] /\ rows[i].path \in Seq(Int)
           /\ {rows[i].path} \cup rows[i].also = {d.reach[x][k].path : k \in DOMAIN d.reach[x]}
           /\ \A p \in {rows[i].path} \cup rows[i].also : EvalSymlinks(p) = rows[i].real
           /\ \A p \in rows[i].also : Less(rows[i].path, p)
           /\ rows[i].agents =
                UNION {l.agents : l \in {y \in ToSet(locs) : y.exists /\ \E p \in {rows[i].path} \cup rows[i].also : IsPrefix(y.path, p)}}
           /\ rows[i].status \in Statuses /\ rows[i].score \in Int
<1>1. /\ CommandOK /\ WalkInv /\ walking = "done"
      /\ fs \in FileSystems /\ roots \in Seq(Seq(Int)) /\ WalkOK(d, stack, turn)
  BY DEF AuditInv, WalkInv, ReportsAll
<1>2. PICK found \in Candidates, outcome \in Outcomes :
        /\ DOMAIN rows = 1..Len(found)
        /\ \A k \in 1..Len(found) : rows[k] = Row(found[k], Attributed(found[k]), Load(found[k].real, outcome))
  BY <1>1, RowsAre
<1>3. PICK c : c = found[i]
  OBVIOUS
<1>4. c \in Found
  <2>1. \E k \in 1..Len(found) : found[k] = c
    BY <1>2, <1>3
  <2> QED BY <1>1, <2>1, FoundSorted
<1>5. PICK x \in DOMAIN d.order : c = Candidate(d.reach[x]) /\ c.real = d.order[x]
  BY <1>1, <1>4, FoundSorted
<1>6. rows[i] = Row(c, Attributed(c), Load(c.real, outcome))
  BY <1>2, <1>3
<1>7. /\ rows[i].real = c.real /\ rows[i].path = c.path /\ rows[i].also = c.also /\ rows[i].agents = Attributed(c)
      /\ rows[i].status = Load(c.real, outcome).status /\ rows[i].score = Load(c.real, outcome).score
  BY <1>6 DEF Row
<1>8. /\ c.path \in Seq(Int)
      /\ {c.path} \cup c.also = {d.reach[x][k].path : k \in DOMAIN d.reach[x]}
      /\ \A p \in {c.path} \cup c.also : EvalSymlinks(p) = c.real
      /\ \A p \in c.also : Less(c.path, p)
  BY <1>1, <1>5, CandidateIs
<1>9. rows[i].status \in Statuses /\ rows[i].score \in Int
  BY <1>7, ResultIs
<1>10. rows[i].agents =
         UNION {l.agents : l \in {y \in ToSet(locs) : y.exists /\ \E p \in {rows[i].path} \cup rows[i].also : IsPrefix(y.path, p)}}
  BY <1>7 DEF Attributed
<1> QED BY <1>5, <1>7, <1>8, <1>9, <1>10

\* Rows are in the order of their paths, and no two are of one bundle.
LEMMA RowsDiffer ==
  ASSUME AuditInv, ReportsAll
  PROVE  /\ Len(rows) \in Nat /\ DOMAIN rows = 1..Len(rows)
         /\ \A i, j \in DOMAIN rows : i < j => rows[i].real # rows[j].real /\ Less(rows[i].path, rows[j].path)
         /\ \A x \in DOMAIN d.order : \E i \in DOMAIN rows : rows[i].real = d.order[x]
<1>1. /\ CommandOK /\ WalkInv /\ walking = "done"
      /\ fs \in FileSystems /\ roots \in Seq(Seq(Int)) /\ WalkOK(d, stack, turn)
  BY DEF AuditInv, WalkInv, ReportsAll
<1>2. PICK found \in Candidates, outcome \in Outcomes :
        /\ DOMAIN rows = 1..Len(found) /\ Len(rows) = Len(found) /\ Len(found) \in Nat
        /\ \A k \in 1..Len(found) : rows[k] = Row(found[k], Attributed(found[k]), Load(found[k].real, outcome))
  BY <1>1, RowsAre
<1>3. \A k \in 1..Len(found) : rows[k].real = found[k].real /\ rows[k].path = found[k].path
  BY <1>2 DEF Row
<1>4. \A i, j \in 1..Len(found) : i < j => Less(found[i].path, found[j].path) /\ found[i].real # found[j].real
  BY <1>1, FoundSorted
<1>5. ASSUME NEW x \in DOMAIN d.order PROVE \E i \in DOMAIN rows : rows[i].real = d.order[x]
  <2>1. PICK c : c = Candidate(d.reach[x])
    OBVIOUS
  <2>2. c \in Found /\ c.real = d.order[x]
    BY <1>1, <2>1, CandidateIs DEF Found
  <2>3. PICK k \in 1..Len(found) : found[k] = c
    BY <1>1, <2>2, FoundSorted
  <2> QED BY <1>2, <1>3, <2>2, <2>3
<1> QED BY <1>2, <1>3, <1>4, <1>5

\* Each bundle of the walk is held by the root that led to it, and by every folder
\* on the way.
LEMMA OrderIsHeld ==
  ASSUME WalkInv, walking = "done", NEW x \in DOMAIN d.order
  PROVE  \E r \in ToSet(roots) : Holds(r, d.order[x])
<1>1. fs \in FileSystems /\ roots \in Seq(Seq(Int)) /\ WalkOK(d, stack, turn)
  BY DEF WalkInv
<1>2. /\ d.reach \in Seq(Seq(ReachType)) /\ Len(d.reach) = Len(d.order) /\ d.reach[x] # <<>>
      /\ \A k \in DOMAIN d.reach[x] : EntryOK(d.reach[x][k]) /\ d.reach[x][k].real = d.order[x]
      /\ d.order \in Seq(Seq(Int))
  BY <1>1, WalkTyped DEF WalkOK, OrderOK
<1>3. d.reach[x] \in Seq(ReachType)
  BY <1>2
<1>4. PICK e : e = d.reach[x][1]
  OBVIOUS
<1>5. e \in ReachType /\ EntryOK(e) /\ e.real = d.order[x]
  BY <1>2, <1>3, <1>4
<1>6. e.root \in ToSet(roots) /\ e.root \in OnTheWay(e.root, e.path)
  BY <1>5, RootOnTheWay DEF EntryOK, ReachType
<1> QED BY <1>5, <1>6 DEF EntryOK

\* The rows of a search are exactly what its roots hold (discover.go: "Discover finds
\* every skill bundle at or below the given roots"): once each, in the order of the
\* paths, whatever the order of the roots and however links cross.
THEOREM RowsAreWhatRootsHold == Spec => []RowsAreTheFolders
<1>1. AuditInv => RowsAreTheFolders
  <2> SUFFICES ASSUME AuditInv, at = "write", ~Single
               PROVE  /\ \A i, j \in DOMAIN rows : i < j => rows[i].real # rows[j].real /\ Less(rows[i].path, rows[j].path)
                      /\ \A i \in DOMAIN rows :
                           /\ \A p \in {rows[i].path} \cup rows[i].also : EvalSymlinks(p) = rows[i].real
                           /\ \A p \in rows[i].also : Less(rows[i].path, p)
                      /\ LET real == {rows[i].real : i \in DOMAIN rows}
                             held == {p.real : p \in UNION {Places(r) : r \in ToSet(roots)}}
                         IN real \subseteq held /\ (Complete => real = held)
    BY DEF RowsAreTheFolders
  <2>1. /\ ReportsAll /\ WalkInv /\ walking = "done" /\ WalkOK(d, stack, turn)
    BY DEF AuditInv, Control, Reported, ReportsOne, ReportsAll, WalkInv
  <2>2. \A i, j \in DOMAIN rows : i < j => rows[i].real # rows[j].real /\ Less(rows[i].path, rows[j].path)
    BY <2>1, RowsDiffer
  <2>3. \A i \in DOMAIN rows :
          /\ \A p \in {rows[i].path} \cup rows[i].also : EvalSymlinks(p) = rows[i].real
          /\ \A p \in rows[i].also : Less(rows[i].path, p)
    BY <2>1, RowIs
  <2>4. ASSUME NEW i \in DOMAIN rows PROVE rows[i].real \in {p.real : p \in UNION {Places(r) : r \in ToSet(roots)}}
    <3>1. PICK x \in DOMAIN d.order : rows[i].real = d.order[x]
      BY <2>1, RowIs
    <3>2. PICK r \in ToSet(roots) : Holds(r, d.order[x])
      BY <2>1, OrderIsHeld
    <3>3. PICK p \in Places(r) : p.real = rows[i].real
      BY <3>1, <3>2 DEF Holds
    <3> QED BY <3>2, <3>3
  <2>5. ASSUME Complete, NEW r \in ToSet(roots), NEW p \in Places(r)
        PROVE  \E i \in DOMAIN rows : rows[i].real = p.real
    <3>1. ~d.stopped /\ d.pruned = {}
      BY <2>1, <2>5, NotLimited DEF Complete
    <3>2. ~UnreadableAbove(p.spot)
      BY <2>5 DEF Complete, UnreadableAbove
    <3>3. Kept(d, p.spot, p.real)
      BY <2>1, <3>1, <3>2, Reached
    <3>4. PICK x \in DOMAIN d.order : d.order[x] = p.real
      BY <3>1, <3>3 DEF Kept
    <3> QED BY <2>1, <3>4, RowsDiffer
  <2> QED BY <2>2, <2>3, <2>4, <2>5
<1> QED BY <1>1, AuditInvariant, PTL

-----------------------------------------------------------------------------
(* The text of a report of many. *)

LEMMA StatusesAre ==
  /\ \A s \in Statuses : StatusRank(s) \in 0..3
  /\ \A s, t \in Statuses : StatusRank(s) = StatusRank(t) => s = t
  /\ \A s, t \in Statuses : StatusRank(s) <= StatusRank(t) /\ s \in {"fail", "error"} => t \in {"fail", "error"}
<1>1. StatusRank("pass") = 0
  BY DEF StatusRank
<1>2. StatusRank("warn") = 1
  BY DEF StatusRank
<1>3. StatusRank("fail") = 2
  BY DEF StatusRank
<1>4. StatusRank("error") = 3
  BY DEF StatusRank
<1> QED BY <1>1, <1>2, <1>3, <1>4 DEF Statuses

\* The rows of a report, as a set.
LEMMA RowSet ==
  ASSUME AuditInv, ReportsAll
  PROVE  /\ IsFiniteSet(ToSet(rows))
         /\ \A r \in ToSet(rows) :
              /\ r.path \in Seq(Int) /\ r.status \in Statuses /\ r.score \in Int
              /\ r.agents \subseteq Int /\ IsFiniteSet(r.agents)
         /\ \A r, s \in ToSet(rows) : r.path = s.path => r = s
         /\ WorstFails <=> \E r \in ToSet(rows) : r.status \in {"fail", "error"}
<1>1. PICK n : n = Len(rows)
  OBVIOUS
<1>2. /\ n \in Nat /\ DOMAIN rows = 1..n
      /\ \A i, j \in 1..n : i < j => Less(rows[i].path, rows[j].path)
  BY <1>1, RowsDiffer
<1>3. ToSet(rows) = {rows[i] : i \in 1..n}
  BY <1>2 DEF ToSet
<1>4. IsFiniteSet(ToSet(rows))
  <2>1. PICK S : S = 1..n
    OBVIOUS
  <2>2. IsFiniteSet(S) /\ DOMAIN rows = S
    BY <1>2, <2>1, FS_Interval
  <2>3. IsFiniteSet({rows[i] : i \in S})
    BY ONLY <2>2, ImageIsFinite
  <2> QED BY <1>3, <2>1, <2>3
<1>5. ASSUME NEW i \in 1..n
      PROVE  /\ rows[i].path \in Seq(Int) /\ rows[i].status \in Statuses /\ rows[i].score \in Int
             /\ rows[i].agents \subseteq Int /\ IsFiniteSet(rows[i].agents)
  <2>1. /\ rows[i].path \in Seq(Int) /\ rows[i].status \in Statuses /\ rows[i].score \in Int
        /\ rows[i].agents =
             UNION {l.agents : l \in {y \in ToSet(locs) : y.exists /\ \E p \in {rows[i].path} \cup rows[i].also : IsPrefix(y.path, p)}}
    BY <1>2, RowIs
  <2>2. PICK some : some = {y \in ToSet(locs) : y.exists /\ \E p \in {rows[i].path} \cup rows[i].also : IsPrefix(y.path, p)}
    OBVIOUS
  <2>3. PICK sets : sets = {l.agents : l \in some}
    OBVIOUS
  <2>4. LocsOK
    BY DEF AuditInv, CommandOK
  <2>5. \A l \in some : FolderOK(l)
    <3>1. \A l \in ToSet(locs) : \E k \in DOMAIN locs : locs[k] = l
      BY DEF ToSet
    <3> QED BY <2>2, <2>4, <3>1 DEF LocsOK
  <2>6. IsFiniteSet(some)
    <3>1. PICK m, S : m = Len(locs) /\ S = 1..m
      OBVIOUS
    <3>2. m \in Nat /\ DOMAIN locs = S
      BY <2>4, <3>1 DEF LocsOK
    <3>3. IsFiniteSet(S)
      BY <3>1, <3>2, FS_Interval
    <3>4. IsFiniteSet({locs[k] : k \in S})
      BY ONLY <3>2, <3>3, ImageIsFinite
    <3>5. some \subseteq {locs[k] : k \in S}
      BY <2>2, <3>2 DEF ToSet
    <3> QED BY <3>4, <3>5, FS_Subset
  <2>7. IsFiniteSet(sets)
    <3>1. PICK f : f = [l \in some |-> l.agents]
      OBVIOUS
    <3>2. IsFiniteSet({f[l] : l \in some})
      BY <2>6, <3>1, ImageIsFinite
    <3>3. {f[l] : l \in some} = sets
      BY <2>3, <3>1
    <3> QED BY <3>2, <3>3
  <2>8. \A s \in sets : IsFiniteSet(s) /\ s \subseteq Int
    BY <2>3, <2>5 DEF FolderOK
  <2>9. IsFiniteSet(UNION sets)
    BY <2>7, <2>8, FS_UNION
  <2>10. rows[i].agents = UNION sets
    BY <2>1, <2>2, <2>3
  <2> QED BY <2>1, <2>8, <2>9, <2>10
<1>6. \A i, j \in 1..n : rows[i].path = rows[j].path => i = j
  <2> TAKE i, j \in 1..n
  <2>1. ~Less(rows[i].path, rows[i].path)
    BY <1>5, LessIsOrder
  <2> QED BY <1>2, <2>1
<1>7. \A r, s \in ToSet(rows) : r.path = s.path => r = s
  BY <1>3, <1>6
<1>8. WorstFails <=> \E r \in ToSet(rows) : r.status \in {"fail", "error"}
  BY <1>2, <1>3 DEF WorstFails
<1> QED BY <1>3, <1>4, <1>5, <1>7, <1>8

\* A table has each of its rows once, the worst first.
LEMMA TableIs ==
  ASSUME AuditInv, ReportsAll, NEW some, some \subseteq ToSet(rows)
  PROVE  /\ ToSet(WorstFirst(some)) = some
         /\ DOMAIN WorstFirst(some) = 1..Len(WorstFirst(some)) /\ Len(WorstFirst(some)) \in Nat
         /\ \A i, j \in DOMAIN WorstFirst(some) : i < j => Worse(WorstFirst(some)[i], WorstFirst(some)[j])
<1>1. /\ IsFiniteSet(some)
      /\ \A r \in some : r.path \in Seq(Int) /\ r.status \in Statuses /\ r.score \in Int
      /\ \A r, s \in some : r.path = s.path => r = s
  BY RowSet, FS_Subset
<1>2. PICK before : before = {rs \in some \X some : Worse(rs[1], rs[2])}
  OBVIOUS
<1>3. \A r, s \in some : <<r, s>> \in before <=> Worse(r, s)
  BY <1>2
<1>4. \A r \in some : StatusRank(r.status) \in Int
  BY <1>1, StatusesAre
<1>5. StrictOrder(some, before)
  <2>1. ASSUME NEW r \in some PROVE ~Worse(r, r)
    <3>1. ~Less(r.path, r.path)
      BY <1>1, LessIsOrder
    <3> QED BY <1>1, <1>4, <3>1 DEF Worse
  <2>2. ASSUME NEW r \in some, NEW s \in some, NEW t \in some, Worse(r, s), Worse(s, t) PROVE Worse(r, t)
    <3>1. Less(r.path, s.path) /\ Less(s.path, t.path) => Less(r.path, t.path)
      BY <1>1, LessIsOrder
    <3>2. r.score \in Int /\ s.score \in Int /\ t.score \in Int
          /\ StatusRank(r.status) \in Int /\ StatusRank(s.status) \in Int /\ StatusRank(t.status) \in Int
      BY <1>1, <1>4
    <3> QED BY <2>2, <3>1, <3>2 DEF Worse
  <2>3. ASSUME NEW r \in some, NEW s \in some, r # s PROVE Worse(r, s) \/ Worse(s, r)
    <3>1. Less(r.path, s.path) \/ Less(s.path, r.path)
      BY <1>1, <2>3, LessIsOrder
    <3>2. r.score \in Int /\ s.score \in Int /\ StatusRank(r.status) \in Int /\ StatusRank(s.status) \in Int
      BY <1>1, <1>4
    <3>3. StatusRank(r.status) = StatusRank(s.status) => r.status = s.status
      BY <1>1, StatusesAre
    <3> QED BY <3>1, <3>2, <3>3 DEF Worse
  <2> QED BY <1>3, <2>1, <2>2, <2>3 DEF StrictOrder
<1>6. PICK t, m : t = WorstFirst(some) /\ m = Len(t)
  OBVIOUS
<1>7. t = InOrder(some, before)
  BY <1>2, <1>6 DEF WorstFirst
<1>8. /\ t \in Seq(some) /\ m \in Nat
      /\ \A x \in some : \E i \in 1..m : t[i] = x
      /\ \A i, j \in 1..m : i < j => <<t[i], t[j]>> \in before
  BY <1>1, <1>5, <1>6, <1>7, InOrderSorts
<1>9. DOMAIN t = 1..m /\ \A i \in 1..m : t[i] \in some
  BY <1>6, <1>8
<1>10. ToSet(t) = some
  BY <1>8, <1>9 DEF ToSet
<1>11. \A i, j \in DOMAIN t : i < j => Worse(t[i], t[j])
  BY <1>3, <1>8, <1>9
<1> QED BY <1>6, <1>8, <1>9, <1>10, <1>11

LEMMA GroupsAre ==
  ASSUME AuditInv, ReportsAll
  PROVE  LET all == ToSet(rows)
             named == InIdOrder(AgentsOf(all))
             groups == AgentGroups(all)
         IN \E n \in Nat :
              /\ named \in [1..n -> AgentsOf(all)] /\ (\A a \in AgentsOf(all) : \E k \in 1..n : named[k] = a)
              /\ \A i, j \in 1..n : named[i] = named[j] => i = j
              /\ DOMAIN groups = IF AgentsOf(all) = {} \/ Others(all) # {} THEN 1..(n + 1) ELSE 1..n
              /\ \A k \in 1..n : groups[k] = {r \in all : named[k] \in r.agents}
              /\ (AgentsOf(all) = {} \/ Others(all) # {}) => groups[n + 1] = Others(all)
<1>1. PICK all : all = ToSet(rows)
  OBVIOUS
<1>2. PICK ids : ids = AgentsOf(all)
  OBVIOUS
<1>3. IsFiniteSet(ids) /\ ids \subseteq Int
  <2>1. PICK f, sets : f = [r \in all |-> r.agents] /\ sets = {f[r] : r \in all}
    OBVIOUS
  <2>2. IsFiniteSet(all) /\ \A r \in all : r.agents \subseteq Int /\ IsFiniteSet(r.agents)
    BY <1>1, RowSet
  <2>3. IsFiniteSet(sets)
    BY <2>1, <2>2, ImageIsFinite
  <2>4. \A s \in sets : IsFiniteSet(s) /\ s \subseteq Int
    BY <2>1, <2>2
  <2>5. IsFiniteSet(UNION sets)
    BY <2>3, <2>4, FS_UNION
  <2>6. ids = UNION sets
    BY <1>2, <2>1 DEF AgentsOf
  <2> QED BY <2>4, <2>5, <2>6
<1>4. PICK before : before = {ab \in ids \X ids : ab[1] < ab[2]}
  OBVIOUS
<1>5. StrictOrder(ids, before)
  <2>1. \A a, b \in ids : <<a, b>> \in before <=> a < b
    BY <1>4
  <2> QED BY <1>3, <2>1 DEF StrictOrder
<1>6. PICK named, n : named = InIdOrder(ids) /\ n = Len(named)
  OBVIOUS
<1>7. /\ named \in Seq(ids) /\ n \in Nat
      /\ \A x \in ids : \E i \in 1..n : named[i] = x
      /\ \A i, j \in 1..n : i < j => named[i] # named[j]
  <2>1. named = InOrder(ids, before)
    BY <1>4, <1>6 DEF InIdOrder
  <2>2. LET s == InOrder(ids, before)
        IN /\ Cardinality(ids) \in Nat /\ s \in Seq(ids) /\ Len(s) = Cardinality(ids)
           /\ \A x \in ids : \E i \in 1..Len(s) : s[i] = x
           /\ \A i, j \in 1..Len(s) : i < j => s[i] # s[j] /\ <<s[i], s[j]>> \in before
    BY <1>3, <1>5, InOrderSorts
  <2>3. /\ Cardinality(ids) \in Nat /\ named \in Seq(ids) /\ Len(named) = Cardinality(ids)
        /\ \A x \in ids : \E i \in 1..Len(named) : named[i] = x
        /\ \A i, j \in 1..Len(named) : i < j => named[i] # named[j]
    BY <2>1, <2>2
  <2> QED BY <1>6, <2>3
<1>8. named \in [1..n -> ids] /\ DOMAIN named = 1..n
  BY <1>6, <1>7
<1>9. \A i, j \in 1..n : named[i] = named[j] => i = j
  BY <1>7
<1>10. PICK heads : heads = [i \in 1..n |-> {r \in all : named[i] \in r.agents}]
  OBVIOUS
<1>11. PICK P : P = SUBSET all
  OBVIOUS
<1>12. heads \in Seq(P) /\ Len(heads) = n
  <2>1. heads \in [1..n -> P]
    BY <1>10, <1>11
  <2> QED BY <1>7, <2>1
<1>13. PICK rest : rest = IF ids = {} \/ Others(all) # {} THEN <<Others(all)>> ELSE <<>>
  OBVIOUS
<1>14. rest \in Seq(P) /\ Len(rest) = (IF ids = {} \/ Others(all) # {} THEN 1 ELSE 0)
       /\ ((ids = {} \/ Others(all) # {}) => rest[1] = Others(all))
  <2>1. Others(all) \in P
    BY <1>11 DEF Others
  <2> QED BY <1>13, <2>1
<1>15. PICK groups : groups = heads \o rest
  OBVIOUS
<1>16. groups = AgentGroups(all)
  BY <1>2, <1>6, <1>8, <1>10, <1>13, <1>15 DEF AgentGroups
<1>17. /\ groups \in Seq(P) /\ Len(groups) = n + Len(rest)
       /\ \A i \in 1..(n + Len(rest)) : groups[i] = IF i <= n THEN heads[i] ELSE rest[i - n]
  BY <1>12, <1>14, <1>15, ConcatProperties
<1>18. DOMAIN groups = IF ids = {} \/ Others(all) # {} THEN 1..(n + 1) ELSE 1..n
  <2>1. PICK m : m = Len(rest)
    OBVIOUS
  <2>2. DOMAIN groups = 1..(n + m) /\ m = (IF ids = {} \/ Others(all) # {} THEN 1 ELSE 0)
    BY <1>14, <1>17, <2>1
  <2> QED BY <1>7, <2>2
<1>19. \A k \in 1..n : groups[k] = {r \in all : named[k] \in r.agents}
  <2> TAKE k \in 1..n
  <2>1. k <= n /\ k \in 1..(n + Len(rest))
    BY <1>7, <1>14
  <2> QED BY <1>10, <1>17, <2>1
<1>20. (ids = {} \/ Others(all) # {}) => groups[n + 1] = Others(all)
  <2> SUFFICES ASSUME ids = {} \/ Others(all) # {} PROVE groups[n + 1] = Others(all)
    OBVIOUS
  <2>1. PICK k : k = n + 1
    OBVIOUS
  <2>2. k \in 1..(n + Len(rest)) /\ ~(k <= n) /\ k - n = 1
    BY <1>7, <1>14, <2>1
  <2> QED BY <1>14, <1>17, <2>1, <2>2
<1>21. /\ named \in [1..n -> ids] /\ (\A a \in ids : \E k \in 1..n : named[k] = a)
       /\ \A i, j \in 1..n : named[i] = named[j] => i = j
  BY <1>7, <1>8, <1>9
<1>22. named = InIdOrder(AgentsOf(all)) /\ groups = AgentGroups(all) /\ n \in Nat
  BY <1>2, <1>6, <1>7, <1>16
<1>23. /\ named \in [1..n -> AgentsOf(all)] /\ (\A a \in AgentsOf(all) : \E k \in 1..n : named[k] = a)
       /\ \A i, j \in 1..n : named[i] = named[j] => i = j
       /\ DOMAIN groups = IF AgentsOf(all) = {} \/ Others(all) # {} THEN 1..(n + 1) ELSE 1..n
       /\ \A k \in 1..n : groups[k] = {r \in all : named[k] \in r.agents}
       /\ (AgentsOf(all) = {} \/ Others(all) # {}) => groups[n + 1] = Others(all)
  BY ONLY <1>2, <1>18, <1>19, <1>20, <1>21
<1> QED BY ONLY <1>1, <1>22, <1>23

\* As many tables list a row as agents load it; one, when none does.
LEMMA ListedOften ==
  ASSUME AuditInv, ReportsAll, NEW r \in ToSet(rows)
  PROVE  LET groups == AgentGroups(ToSet(rows))
         IN Cardinality({k \in DOMAIN groups : r \in groups[k]}) = IF r.agents = {} THEN 1 ELSE Cardinality(r.agents)
<1>1. PICK all, ids : all = ToSet(rows) /\ ids = AgentsOf(all)
  OBVIOUS
<1>2. PICK named, groups : named = InIdOrder(ids) /\ groups = AgentGroups(all)
  OBVIOUS
<1>3. PICK n \in Nat :
        /\ named \in [1..n -> ids] /\ (\A a \in ids : \E k \in 1..n : named[k] = a)
        /\ \A i, j \in 1..n : named[i] = named[j] => i = j
        /\ DOMAIN groups = IF ids = {} \/ Others(all) # {} THEN 1..(n + 1) ELSE 1..n
        /\ \A k \in 1..n : groups[k] = {x \in all : named[k] \in x.agents}
        /\ (ids = {} \/ Others(all) # {}) => groups[n + 1] = Others(all)
  BY <1>1, <1>2, GroupsAre
<1>4. PICK mine : mine = {k \in DOMAIN groups : r \in groups[k]}
  OBVIOUS
<1>5. CASE r.agents = {}
  <2>1. r \in Others(all)
    BY <1>1, <1>5 DEF Others
  <2>2. DOMAIN groups = 1..(n + 1) /\ groups[n + 1] = Others(all)
    BY <1>3, <2>1
  <2>3. \A k \in 1..n : r \notin groups[k]
    BY <1>3, <1>5
  <2>4. mine = {n + 1}
    <3>1. \A k \in 1..(n + 1) : k \in 1..n \/ k = n + 1
      BY <1>3
    <3>2. n + 1 \in 1..(n + 1)
      BY <1>3
    <3> QED BY <1>4, <2>1, <2>2, <2>3, <3>1, <3>2
  <2>5. PICK k : k = n + 1
    OBVIOUS
  <2>6. Cardinality({k}) = 1
    BY FS_Singleton
  <2> QED BY <1>1, <1>2, <1>4, <1>5, <2>4, <2>5, <2>6
<1>6. CASE r.agents # {}
  <2>1. r \notin Others(all) /\ r.agents \subseteq ids
    BY <1>1, <1>6 DEF Others, AgentsOf
  <2>2. mine = {k \in 1..n : named[k] \in r.agents}
    <3>1. \A k \in DOMAIN groups : k \in 1..n \/ (k = n + 1 /\ groups[k] = Others(all))
      BY <1>3
    <3>2. \A k \in 1..n : k \in DOMAIN groups
      BY <1>3
    <3> QED BY <1>1, <1>3, <1>4, <2>1, <3>1, <3>2
  <2>3. PICK f : f = [k \in mine |-> named[k]]
    OBVIOUS
  <2>4. f \in Bijection(mine, r.agents)
    <3>1. f \in [mine -> r.agents] /\ \A y \in r.agents : \E x \in mine : f[x] = y
      BY <1>3, <2>1, <2>2, <2>3
    <3>2. \A x, y \in mine : f[x] = f[y] => x = y
      BY <1>3, <2>2, <2>3
    <3>3. f \in Surjection(mine, r.agents) /\ f \in Injection(mine, r.agents)
      BY ONLY <3>1, <3>2 DEF Surjection, Injection, IsInjective
    <3> QED BY ONLY <3>3 DEF Bijection
  <2>5. IsFiniteSet(mine)
    <3>1. IsFiniteSet(1..n) /\ mine \subseteq 1..n
      BY <1>3, <2>2, FS_Interval
    <3> QED BY <3>1, FS_Subset
  <2>6. Cardinality(mine) = Cardinality(r.agents)
    BY ONLY <2>4, <2>5, FS_Bijection DEF ExistsBijection
  <2> QED BY <1>1, <1>2, <1>4, <1>6, <2>6
<1> QED BY <1>5, <1>6

\* The text of a report agrees with the exit code and hides nothing: every bundle is
\* in a table, under every agent that loads it; one that failed or could not be
\* loaded is told in detail and stands above those of its table that did not
\* (report.MultiText, agentGroups, WorstFirst).
THEOREM TextHidesNothing == Spec => []ReportHidesNothing
<1>1. AuditInv => ReportHidesNothing
  <2> SUFFICES ASSUME AuditInv, at = "exited", roots # <<>>, rows # <<>>, NEW text \in MultiText
               PROVE  LET bad == {r \in ToSet(rows) : r.status \in {"fail", "error"}}
                          Table(k) == text.tables[k]
                      IN /\ exit \in {0, 1} => (exit = 1 <=> bad \cap ToSet(text.details) # {})
                         /\ bad \subseteq ToSet(text.details)
                         /\ \A r \in ToSet(rows) :
                              Cardinality({k \in DOMAIN text.tables : r \in ToSet(Table(k))})
                                = IF r.agents = {} THEN 1 ELSE Cardinality(r.agents)
                         /\ \A k \in DOMAIN text.tables : \A i, j \in DOMAIN Table(k) :
                              i < j => Table(k)[i] \in bad \/ Table(k)[j] \notin bad
    BY DEF ReportHidesNothing
  <2>1. ReportsAll /\ (exit \in {0, 1} => (exit = 1 <=> WorstFails))
    BY DEF AuditInv, Control, Reported, ReportsOne
  <2>2. PICK all, groups : all = ToSet(rows) /\ groups = AgentGroups(all)
    OBVIOUS
  <2>3. PICK bad : bad = {r \in all : r.status \in {"fail", "error"}}
    OBVIOUS
  <2>4. PICK details : details = {r \in all : r.status # "pass"}
    OBVIOUS
  <2>5. text = [tables |-> [k \in DOMAIN groups |-> WorstFirst(groups[k])], details |-> WorstFirst(details)]
    BY <2>2, <2>4 DEF MultiText
  <2>6. /\ DOMAIN text.tables = DOMAIN groups /\ text.details = WorstFirst(details)
        /\ \A k \in DOMAIN groups : text.tables[k] = WorstFirst(groups[k])
    BY <2>5
  <2>7. \A k \in DOMAIN groups : groups[k] \subseteq all
    <3>1. PICK ids, named : ids = AgentsOf(all) /\ named = InIdOrder(ids)
      OBVIOUS
    <3>2. PICK n \in Nat :
            /\ DOMAIN groups = IF ids = {} \/ Others(all) # {} THEN 1..(n + 1) ELSE 1..n
            /\ \A k \in 1..n : groups[k] = {x \in all : named[k] \in x.agents}
            /\ (ids = {} \/ Others(all) # {}) => groups[n + 1] = Others(all)
      BY <2>1, <2>2, <3>1, GroupsAre
    <3>3. \A k \in DOMAIN groups : k \in 1..n \/ (k = n + 1 /\ groups[k] = Others(all))
      BY <3>2
    <3>4. Others(all) \subseteq all
      BY DEF Others
    <3> QED BY <3>2, <3>3, <3>4
  <2>8. \A k \in DOMAIN groups :
          /\ ToSet(text.tables[k]) = groups[k]
          /\ \A i, j \in DOMAIN text.tables[k] : i < j => Worse(text.tables[k][i], text.tables[k][j])
    BY <2>1, <2>2, <2>6, <2>7, TableIs
  <2>9. ToSet(text.details) = details
    BY <2>1, <2>2, <2>4, <2>6, TableIs
  <2>10. bad \subseteq details
    BY <2>3, <2>4
  <2>11. WorstFails <=> bad # {}
    BY <2>1, <2>2, <2>3, RowSet
  <2>12. exit \in {0, 1} => (exit = 1 <=> bad \cap ToSet(text.details) # {})
    BY <2>1, <2>9, <2>10, <2>11
  <2>13. ASSUME NEW r \in all
         PROVE  Cardinality({k \in DOMAIN text.tables : r \in ToSet(text.tables[k])})
                  = IF r.agents = {} THEN 1 ELSE Cardinality(r.agents)
    <3>1. {k \in DOMAIN text.tables : r \in ToSet(text.tables[k])} = {k \in DOMAIN groups : r \in groups[k]}
      BY <2>6, <2>8
    <3> QED BY <2>1, <2>2, <3>1, ListedOften
  <2>14. ASSUME NEW k \in DOMAIN text.tables, NEW i \in DOMAIN text.tables[k], NEW j \in DOMAIN text.tables[k], i < j
         PROVE  text.tables[k][i] \in bad \/ text.tables[k][j] \notin bad
    <3>1. PICK r, s : r = text.tables[k][i] /\ s = text.tables[k][j]
      OBVIOUS
    <3>2. Worse(r, s)
      BY <2>6, <2>8, <2>14, <3>1
    <3>3. r \in all /\ s \in all
      <4>1. r \in ToSet(text.tables[k]) /\ s \in ToSet(text.tables[k])
        BY <3>1 DEF ToSet
      <4> QED BY <2>6, <2>7, <2>8, <4>1
    <3>4. r.status \in Statuses /\ s.status \in Statuses
      BY <2>1, <2>2, <3>3, RowSet
    <3>5. StatusRank(s.status) <= StatusRank(r.status)
      BY <3>2, <3>4, StatusesAre DEF Worse
    <3>6. s.status \in {"fail", "error"} => r.status \in {"fail", "error"}
      BY <3>4, <3>5, StatusesAre
    <3> QED BY <2>3, <3>1, <3>3, <3>6
  <2> QED BY <2>2, <2>3, <2>9, <2>10, <2>12, <2>13, <2>14
<1> QED BY <1>1, AuditInvariant, PTL

-----------------------------------------------------------------------------
(* The folders that Resolve lists are those that the agents read. *)

LEMMA AboveIs ==
  ASSUME NEW dir \in Seq(Int), NEW n \in 0..Len(dir)
  PROVE  /\ Above(dir, n) \in Seq(Int) /\ Len(Above(dir, n)) = Len(dir) - n
         /\ \A i \in 1..(Len(dir) - n) : Above(dir, n)[i] = dir[i]
         /\ n = 0 => Above(dir, n) = dir
<1>1. PICK k, u : k = Len(dir) - n /\ u = Above(dir, n)
  OBVIOUS
<1>2. Len(dir) \in Nat /\ k \in 0..Len(dir)
  BY <1>1
<1>3. \A i \in 1..k : dir[i] \in Int /\ 1 + i - 1 = i
  BY <1>2
<1>4. u = SubSeq(dir, 1, k)
  BY <1>1 DEF Above
<1>5. u \in Seq(Int) /\ Len(u) = k /\ \A i \in 1..k : u[i] = dir[i]
  BY <1>2, <1>3, <1>4, SubSeqProperties
<1>6. n = 0 => u = dir
  <2> SUFFICES ASSUME n = 0 PROVE u = dir
    OBVIOUS
  <2>1. Len(u) = Len(dir) /\ \A i \in 1..Len(dir) : u[i] = dir[i]
    BY <1>1, <1>2, <1>5
  <2> QED BY <1>5, <2>1, SameSeq
<1> QED BY <1>1, <1>5, <1>6

LEMMA AboveOrder ==
  ASSUME NEW dir \in Seq(Int), NEW n \in 0..Len(dir), NEW k \in 0..Len(dir)
  PROVE  /\ IsPrefix(Above(dir, n), Above(dir, k)) <=> k <= n
         /\ IsStrictPrefix(Above(dir, n), Above(dir, k)) <=> k < n
<1>1. PICK u, v : u = Above(dir, n) /\ v = Above(dir, k)
  OBVIOUS
<1>2. /\ u \in Seq(Int) /\ Len(u) = Len(dir) - n /\ \A i \in 1..(Len(dir) - n) : u[i] = dir[i]
      /\ v \in Seq(Int) /\ Len(v) = Len(dir) - k /\ \A i \in 1..(Len(dir) - k) : v[i] = dir[i]
  BY <1>1, AboveIs
<1>3. Len(dir) \in Nat
  OBVIOUS
<1>4. IsPrefix(u, v) <=> Len(u) <= Len(v) /\ \A i \in 1..Len(u) : u[i] = v[i]
  <2>1. u \in Seq(Int) /\ v \in Seq(Int)
    BY <1>2
  <2> QED BY ONLY <2>1, IntPrefixIs
<1>5. IsPrefix(u, v) <=> k <= n
  BY <1>2, <1>3, <1>4
<1>6. k < n => u # v
  BY <1>2, <1>3
<1>7. k = n => u = v
  BY <1>1
<1>8. IsStrictPrefix(u, v) <=> k < n
  BY <1>3, <1>5, <1>6, <1>7 DEF IsStrictPrefix
<1> QED BY <1>1, <1>5, <1>8

\* The directories of a project entry, listed and described.
LEMMA DirsAreBases ==
  ASSUME NEW env, NEW dir \in Seq(Int), NEW e, e.scope = "project", e.walkUp \in BOOLEAN
  PROVE  ToSet(ProjectDirs(dir, e.walkUp, env)) = Bases(e, env, dir)
<1>1. PICK N : N = Len(dir)
  OBVIOUS
<1>2. N \in Nat
  BY <1>1
<1>3. PICK found : found = {n \in 0..N : n < MaxWalkUp /\ HoldsGit(Above(dir, n), env)}
  OBVIOUS
<1>4. found \subseteq Nat /\ found \subseteq 0..N /\ MaxWalkUp \in Nat
  BY <1>2, <1>3, RegistryIsParsed
<1> DEFINE Between(u) == \E g \in {Above(dir, n) : n \in 0..N} :
                           /\ HoldsGit(g, env) /\ IsPrefix(g, u) /\ N - Len(g) < MaxWalkUp
                           /\ \A v \in {Above(dir, n) : n \in 0..N} : IsStrictPrefix(g, v) => ~HoldsGit(v, env)
<1>5. Bases(e, env, dir) = {dir} \cup {u \in {Above(dir, n) : n \in 1..N} : e.walkUp /\ Between(u)}
  BY <1>1 DEF Bases
<1>6. PICK m : m = CHOOSE x \in found : \A k \in found : x <= k
  OBVIOUS
<1>7. ProjectDirs(dir, e.walkUp, env)
        = IF ~e.walkUp \/ found = {} THEN <<dir>> ELSE [n \in 1..(m + 1) |-> Above(dir, n - 1)]
  BY <1>1, <1>3, <1>6 DEF ProjectDirs
<1>8. \A n \in 0..N : Len(Above(dir, n)) = N - n /\ N - Len(Above(dir, n)) = n
  <2> TAKE n \in 0..N
  <2>1. PICK k : k = Len(Above(dir, n))
    OBVIOUS
  <2>2. k = N - n
    BY <1>1, <2>1, AboveIs
  <2> QED BY <1>2, <2>1, <2>2
<1>9. ASSUME NEW n \in 1..N, Between(Above(dir, n))
      PROVE  \E k \in found : n <= k /\ \A j \in 0..N : j < k => ~HoldsGit(Above(dir, j), env)
  <2>1. PICK k \in 0..N :
          /\ HoldsGit(Above(dir, k), env) /\ IsPrefix(Above(dir, k), Above(dir, n)) /\ N - Len(Above(dir, k)) < MaxWalkUp
          /\ \A v \in {Above(dir, j) : j \in 0..N} : IsStrictPrefix(Above(dir, k), v) => ~HoldsGit(v, env)
    BY <1>9
  <2>2. k < MaxWalkUp
    BY <1>8, <2>1
  <2>3. n <= k
    BY <1>1, <1>2, <2>1, AboveOrder
  <2>4. \A j \in 0..N : j < k => ~HoldsGit(Above(dir, j), env)
    BY <1>1, <2>1, AboveOrder
  <2> QED BY <1>3, <2>1, <2>2, <2>3, <2>4
<1>10. ASSUME NEW k \in found, NEW n \in 1..k, \A j \in 0..N : j < k => ~HoldsGit(Above(dir, j), env)
       PROVE  Between(Above(dir, n))
  <2>1. k \in 0..N /\ n \in 0..N /\ n <= k /\ HoldsGit(Above(dir, k), env) /\ k < MaxWalkUp
    BY <1>2, <1>3, <1>4
  <2>2. IsPrefix(Above(dir, k), Above(dir, n))
    BY <1>1, <2>1, AboveOrder
  <2>3. \A v \in {Above(dir, j) : j \in 0..N} : IsStrictPrefix(Above(dir, k), v) => ~HoldsGit(v, env)
    BY <1>1, <1>10, <2>1, AboveOrder
  <2>4. N - Len(Above(dir, k)) < MaxWalkUp
    BY <1>8, <2>1
  <2> QED BY <2>1, <2>2, <2>3, <2>4
<1> HIDE DEF Between
<1>11. CASE ~e.walkUp \/ found = {}
  <2>1. \A n \in 1..N : ~(e.walkUp /\ Between(Above(dir, n)))
    BY <1>9, <1>11
  <2>2. Bases(e, env, dir) = {dir}
    BY <1>5, <2>1
  <2>3. ToSet(<<dir>>) = {dir}
    BY DEF ToSet
  <2> QED BY <1>7, <1>11, <2>2, <2>3
<1>12. CASE e.walkUp /\ found # {}
  <2>1. m \in found /\ \A k \in found : m <= k
    <3>1. \E x \in found : \A k \in found : x <= k
      BY <1>4, <1>12, LeastExists
    <3> QED BY <1>6, <3>1
  <2>2. m \in Nat /\ m <= N
    BY <1>2, <1>4, <2>1
  <2>3. \A j \in 0..N : j < m => ~HoldsGit(Above(dir, j), env)
    <3> TAKE j \in 0..N
    <3> SUFFICES ASSUME j < m, HoldsGit(Above(dir, j), env) PROVE FALSE
      OBVIOUS
    <3>1. m \in Nat /\ m < MaxWalkUp /\ j < MaxWalkUp
      BY <1>3, <1>4, <2>1, <2>2
    <3>2. j \in found
      BY <1>3, <3>1
    <3> QED BY <2>1, <2>2, <3>2
  <2>4. \A n \in 1..N : Between(Above(dir, n)) <=> n <= m
    <3> TAKE n \in 1..N
    <3>1. ASSUME Between(Above(dir, n)) PROVE n <= m
      <4>1. PICK k \in found : n <= k /\ \A j \in 0..N : j < k => ~HoldsGit(Above(dir, j), env)
        BY <1>9, <3>1
      <4>2. ~(m < k)
        BY <1>3, <2>1, <4>1
      <4> QED BY <1>4, <2>2, <4>1, <4>2
    <3>2. ASSUME n <= m PROVE Between(Above(dir, n))
      <4>1. n \in 1..m
        BY <2>2, <3>2
      <4> QED BY <1>10, <2>1, <2>3, <4>1
    <3> QED BY <3>1, <3>2
  <2>5. Bases(e, env, dir) = {dir} \cup {Above(dir, n) : n \in 1..m}
    <3>1. \A n \in 1..m : n \in 1..N
      BY <1>2, <2>2
    <3>2. \A n \in 1..N : n <= m => n \in 1..m
      BY <1>2, <2>2
    <3> QED BY <1>5, <1>12, <2>2, <2>4, <3>1, <3>2
  <2>6. dir = Above(dir, 0)
    <3>1. 0 \in 0..N
      BY <1>2
    <3> QED BY <1>1, <3>1, AboveIs
  <2>7. PICK dirs : dirs = [n \in 1..(m + 1) |-> Above(dir, n - 1)]
    OBVIOUS
  <2>8. ToSet(dirs) = {Above(dir, n - 1) : n \in 1..(m + 1)}
    BY <2>7 DEF ToSet
  <2>9. {Above(dir, n - 1) : n \in 1..(m + 1)} = {Above(dir, n) : n \in 0..m}
    <3>1. \A n \in 1..(m + 1) : n - 1 \in 0..m
      BY <2>2
    <3>2. ASSUME NEW n \in 0..m PROVE \E k \in 1..(m + 1) : Above(dir, k - 1) = Above(dir, n)
      <4>1. PICK k : k = n + 1
        OBVIOUS
      <4>2. k \in 1..(m + 1) /\ k - 1 = n
        BY <2>2, <4>1
      <4> QED BY <4>2
    <3> QED BY <3>1, <3>2
  <2>10. {Above(dir, n) : n \in 0..m} = {Above(dir, 0)} \cup {Above(dir, n) : n \in 1..m}
    <3>1. 0..m = {0} \cup 1..m
      BY <2>2
    <3> QED BY <3>1
  <2> QED BY <1>7, <1>12, <2>5, <2>6, <2>7, <2>8, <2>9, <2>10
<1> QED BY <1>11, <1>12

\* A path that a call for an entry is for, and one of the entry from one of its bases.
IsCalled(a, e, env, filter, dir, p) == \E c \in ToSet(Adds(a, e, env, filter, dir)) : c.path = p
IsMeant(e, env, filter, dir, p) ==
  Selected(e, env, filter) /\ \E b \in Bases(e, env, dir), x \in Expand(e.path, env) : p = b \o x

\* What the calls for one entry are for: its paths from each of its bases.
LEMMA CallsOfEntry ==
  ASSUME NEW env, NEW filter, NEW dir, MachineOK(env, filter, dir),
         NEW a \in ToSet(Registry), NEW e \in ToSet(a.locations)
  PROVE  \A p : IsCalled(a, e, env, filter, dir, p) <=> IsMeant(e, env, filter, dir, p)
<1> SUFFICES ASSUME NEW p
             PROVE (\E c \in ToSet(Adds(a, e, env, filter, dir)) : c.path = p)
                     <=> Selected(e, env, filter) /\ \E b \in Bases(e, env, dir), x \in Expand(e.path, env) : p = b \o x
  BY DEF IsCalled, IsMeant
<1> DEFINE At(q) == [path |-> q, agent |-> a.id, source |-> a.source, scope |-> e.scope, legacy |-> e.legacy]
           y == CHOOSE x \in Expand(e.path, env) : TRUE
           dirs == ProjectDirs(dir, e.walkUp, env)
<1>1. Adds(a, e, env, filter, dir)
        = IF ~Selected(e, env, filter) \/ Expand(e.path, env) = {} THEN <<>>
          ELSE IF e.scope # "project" THEN <<At(y)>> ELSE [i \in DOMAIN dirs |-> At(dirs[i] \o y)]
  BY DEF Adds
<1>2. e \in Entries1 /\ e.walkUp \in BOOLEAN
  BY RegistryIsTyped DEF Entries1
<1>3. Expand(e.path, env) # {} => Expand(e.path, env) = {y} /\ y \in Seq(Int)
  BY <1>2, ExpandIs
<1>4. dir \in Seq(Int)
  BY DEF MachineOK
<1>5. \A q : At(q).path = q
  OBVIOUS
<1> HIDE DEF At, y, dirs
<1>6. CASE ~Selected(e, env, filter) \/ Expand(e.path, env) = {}
  <2>1. ToSet(Adds(a, e, env, filter, dir)) = {}
    <3>1. Adds(a, e, env, filter, dir) = <<>>
      BY <1>1, <1>6
    <3>2. ToSet(<<>>) = {}
      BY DEF ToSet
    <3> QED BY <3>1, <3>2
  <2> QED BY <1>6, <2>1
<1>7. CASE Selected(e, env, filter) /\ Expand(e.path, env) # {}
  <2>1. CASE e.scope # "project"
    <3>1. ToSet(Adds(a, e, env, filter, dir)) = {At(y)}
      <4>1. ToSet(<<At(y)>>) = {At(y)}
        BY DEF ToSet
      <4> QED BY <1>1, <1>7, <2>1, <4>1
    <3>2. Bases(e, env, dir) = {<<>>}
      BY <2>1 DEF Bases
    <3>3. <<>> \o y = y
      <4>1. y \in Seq(Int)
        BY <1>3, <1>7
      <4> QED BY <4>1, ConcatEmptySeq
    <3> QED BY <1>3, <1>5, <1>7, <3>1, <3>2, <3>3
  <2>2. CASE e.scope = "project"
    <3>1. PICK adds : adds = [i \in DOMAIN dirs |-> At(dirs[i] \o y)]
      OBVIOUS
    <3>2. ToSet(adds) = {At(dirs[i] \o y) : i \in DOMAIN dirs}
      BY <3>1 DEF ToSet
    <3>3. ToSet(dirs) = Bases(e, env, dir)
      BY <1>2, <1>4, <2>2, DirsAreBases DEF dirs
    <3>4. ToSet(dirs) = {dirs[i] : i \in DOMAIN dirs}
      BY DEF ToSet
    <3>5. Adds(a, e, env, filter, dir) = adds
      BY <1>1, <1>7, <2>2, <3>1
    <3>6. (\E c \in ToSet(adds) : c.path = p) <=> \E i \in DOMAIN dirs : dirs[i] \o y = p
      BY <1>5, <3>2
    <3>7. (\E i \in DOMAIN dirs : dirs[i] \o y = p) <=> \E b \in Bases(e, env, dir) : p = b \o y
      BY <3>3, <3>4
    <3> QED BY <1>3, <1>7, <3>5, <3>6, <3>7
  <2> QED BY <2>1, <2>2
<1> QED BY <1>6, <1>7

\* The calls name the agent whose entry they are for.
LEMMA CallsName ==
  ASSUME NEW env, NEW filter, NEW dir, NEW a, NEW e, NEW c \in ToSet(Adds(a, e, env, filter, dir))
  PROVE  c.agent = a.id
<1> DEFINE At(q) == [path |-> q, agent |-> a.id, source |-> a.source, scope |-> e.scope, legacy |-> e.legacy]
           y == CHOOSE x \in Expand(e.path, env) : TRUE
           dirs == ProjectDirs(dir, e.walkUp, env)
<1>1. Adds(a, e, env, filter, dir)
        = IF ~Selected(e, env, filter) \/ Expand(e.path, env) = {} THEN <<>>
          ELSE IF e.scope # "project" THEN <<At(y)>> ELSE [i \in DOMAIN dirs |-> At(dirs[i] \o y)]
  BY DEF Adds
<1>2. \A q : At(q).agent = a.id
  OBVIOUS
<1> HIDE DEF At, y, dirs
<1>3. PICK adds : adds = Adds(a, e, env, filter, dir)
  OBVIOUS
<1>4. PICK i \in DOMAIN adds : adds[i] = c
  BY <1>3 DEF ToSet
<1>5. adds # <<>>
  BY <1>4
<1>6. CASE e.scope # "project"
  <2>1. adds = <<At(y)>>
    BY <1>1, <1>3, <1>5, <1>6
  <2> QED BY <1>2, <1>4, <2>1
<1>7. CASE e.scope = "project"
  <2>1. adds = [k \in DOMAIN dirs |-> At(dirs[k] \o y)]
    BY <1>1, <1>3, <1>5, <1>7
  <2> QED BY <1>2, <1>4, <2>1
<1> QED BY <1>6, <1>7

\* The agents of a selection are those it names.
LEMMA SelectedAre ==
  ASSUME NEW ids \in Seq(Int), Known(ids)
  PROVE  ToSet(SelectAgents(ids)) =
           {a \in ToSet(Registry) : a.id \in IF ids = <<>> THEN {b.id : b \in ToSet(Registry)} ELSE ToSet(ids)}
<1>1. \A a, b \in ToSet(Registry) : a.id = b.id => a = b
  BY RegistryIsParsed DEF ParseAccepts, ToSet
<1>2. CASE ids = <<>>
  BY <1>2 DEF SelectAgents
<1>3. CASE ids # <<>>
  <2>1. SelectAgents(ids) = [i \in DOMAIN ids |-> CHOOSE a \in ToSet(Registry) : a.id = ids[i]]
    BY <1>3 DEF SelectAgents
  <2>2. \A i \in DOMAIN ids : LET b == CHOOSE a \in ToSet(Registry) : a.id = ids[i]
                              IN b \in ToSet(Registry) /\ b.id = ids[i]
    BY DEF Known
  <2>3. ToSet(SelectAgents(ids)) = {CHOOSE a \in ToSet(Registry) : a.id = ids[i] : i \in DOMAIN ids}
    BY <2>1 DEF ToSet
  <2>4. ASSUME NEW a PROVE a \in ToSet(SelectAgents(ids)) <=> a \in ToSet(Registry) /\ a.id \in ToSet(ids)
    <3>1. a \in ToSet(SelectAgents(ids)) => a \in ToSet(Registry) /\ a.id \in ToSet(ids)
      BY <2>2, <2>3 DEF ToSet
    <3>2. ASSUME a \in ToSet(Registry), a.id \in ToSet(ids) PROVE a \in ToSet(SelectAgents(ids))
      <4>1. PICK i \in DOMAIN ids : ids[i] = a.id
        BY <3>2 DEF ToSet
      <4>2. (CHOOSE x \in ToSet(Registry) : x.id = ids[i]) = a
        BY <1>1, <2>2, <3>2, <4>1
      <4> QED BY <2>3, <4>2
    <3> QED BY <3>1, <3>2
  <2> QED BY <1>3, <2>4
<1> QED BY <1>2, <1>3

\* The folders that Resolve gives, with their agents, are those that the agents read.
LEMMA FoldersAgree ==
  ASSUME AuditInv, Resolves, SelectionKnown
  PROVE  /\ \A p, id : (\E l \in ToSet(locs) : l.path = p /\ id \in l.agents) <=> id \in Chosen /\ p \in Folders[id]
         /\ \A l \in ToSet(locs) : FolderOK(l)
<1>1. PICK env, filter, dir : env = cmd.env /\ filter = cmd.filter /\ dir = cmd.dir
  OBVIOUS
<1>2. CommandOK /\ cmd \in Commands /\ LocsOK
  BY DEF AuditInv, CommandOK
<1>3. MachineOK(env, filter, dir)
  BY <1>1, <1>2, MachineIsOK
<1>4. PICK adds : adds = Calls(env, filter, dir)
  OBVIOUS
<1>5. ToSet(locs) = FoldersIn(adds)
  BY <1>1, <1>2, <1>4 DEF CommandOK
<1>6. PICK agents : agents = SelectAgents(filter.agents)
  OBVIOUS
<1>7. /\ adds \in Seq(CallType) /\ DOMAIN adds = 1..Len(adds)
      /\ \A x : x \in ToSet(adds) <=>
           \E a \in ToSet(agents) : \E e \in ToSet(a.locations) : x \in ToSet(Adds(a, e, env, filter, dir))
  <2>1. adds \in Seq(CallType)
    BY <1>3, <1>4, CallsAre
  <2>2. \A x : x \in ToSet(adds) <=>
           \E a \in ToSet(agents) : \E e \in ToSet(a.locations) : x \in ToSet(Adds(a, e, env, filter, dir))
    BY <1>3, <1>4, <1>6, CallsAre
  <2> QED BY <2>1, <2>2
<1>8. ToSet(agents) = {a \in ToSet(Registry) : a.id \in Chosen}
  BY <1>1, <1>3, <1>6, SelectedAre DEF MachineOK, Chosen
<1>9. ASSUME NEW p, NEW id
      PROVE (\E l \in ToSet(locs) : l.path = p /\ id \in l.agents) <=> \E c \in ToSet(adds) : c.path = p /\ c.agent = id
  <2>1. \A k \in 1..Len(adds) :
          /\ Folder(adds, adds[k].path).path = adds[k].path
          /\ Folder(adds, adds[k].path).agents = {adds[i].agent : i \in {x \in 1..Len(adds) : adds[x].path = adds[k].path}}
    <3> TAKE k \in 1..Len(adds)
    <3>1. adds \in Seq(CallType)
      BY <1>7
    <3>2. PICK l : l = Folder(adds, adds[k].path)
      OBVIOUS
    <3>3. /\ l.path = adds[k].path
          /\ l.agents = {adds[i].agent : i \in {x \in 1..Len(adds) : adds[x].path = l.path}}
      BY <3>1, <3>2, FolderIs
    <3> QED BY <3>2, <3>3
  <2>2. ToSet(locs) = {Folder(adds, q) : q \in {adds[i].path : i \in 1..Len(adds)}}
    BY <1>5, <1>7 DEF FoldersIn
  <2>3. ASSUME NEW l \in ToSet(locs), l.path = p, id \in l.agents PROVE \E c \in ToSet(adds) : c.path = p /\ c.agent = id
    <3>1. PICK k \in 1..Len(adds) : l = Folder(adds, adds[k].path)
      BY <2>2
    <3>2. adds[k].path = p
      BY <2>1, <2>3, <3>1
    <3>3. id \in {adds[i].agent : i \in {x \in 1..Len(adds) : adds[x].path = adds[k].path}}
      BY <2>1, <2>3, <3>1
    <3>4. PICK i \in 1..Len(adds) : adds[i].path = p /\ adds[i].agent = id
      BY <3>2, <3>3
    <3> QED BY <1>7, <3>4 DEF ToSet
  <2>4. ASSUME NEW c \in ToSet(adds), c.path = p, c.agent = id PROVE \E l \in ToSet(locs) : l.path = p /\ id \in l.agents
    <3>1. PICK k \in 1..Len(adds) : adds[k] = c
      BY <1>7 DEF ToSet
    <3>2. PICK l : l = Folder(adds, adds[k].path)
      OBVIOUS
    <3>3. l \in ToSet(locs)
      BY <2>2, <3>2
    <3>4. l.path = p /\ id \in l.agents
      BY <2>1, <2>4, <3>1, <3>2
    <3> QED BY <3>3, <3>4
  <2> QED BY <2>3, <2>4
<1>10. ASSUME NEW p, NEW id
       PROVE (\E c \in ToSet(adds) : c.path = p /\ c.agent = id)
               <=> \E a \in ToSet(agents) : a.id = id /\ \E e \in ToSet(a.locations) :
                      \E c \in ToSet(Adds(a, e, env, filter, dir)) : c.path = p
  BY <1>7, CallsName
<1>11. ASSUME NEW a \in ToSet(Registry), NEW p
       PROVE  (\E e \in ToSet(a.locations) : \E c \in ToSet(Adds(a, e, env, filter, dir)) : c.path = p)
                <=> p \in FoldersOf(a, env, filter, dir)
  <2>1. p \in FoldersOf(a, env, filter, dir) <=>
          \E e \in ToSet(a.locations) : Selected(e, env, filter) /\ \E b \in Bases(e, env, dir), x \in Expand(e.path, env) : p = b \o x
    BY DEF FoldersOf
  <2>2. \A e \in ToSet(a.locations) : IsCalled(a, e, env, filter, dir, p) <=> IsMeant(e, env, filter, dir, p)
    BY <1>3, CallsOfEntry
  <2> QED BY <2>1, <2>2 DEF IsCalled, IsMeant
<1>12. ASSUME NEW id \in Chosen, NEW p
       PROVE  p \in Folders[id] <=> \E a \in ToSet(Registry) : a.id = id /\ p \in FoldersOf(a, env, filter, dir)
  <2>1. Folders[id] = UNION {FoldersOf(a, env, filter, dir) : a \in {x \in ToSet(Registry) : x.id = id}}
    BY <1>1 DEF Folders
  <2> QED BY <2>1
<1>13. ASSUME NEW p, NEW id
       PROVE  (\E a \in ToSet(agents) : a.id = id /\ \E e \in ToSet(a.locations) :
                      \E c \in ToSet(Adds(a, e, env, filter, dir)) : c.path = p)
               <=> id \in Chosen /\ p \in Folders[id]
  BY <1>8, <1>11, <1>12
<1>14. \A p, id : (\E l \in ToSet(locs) : l.path = p /\ id \in l.agents) <=> id \in Chosen /\ p \in Folders[id]
  BY <1>9, <1>10, <1>13
<1>15. \A l \in ToSet(locs) : FolderOK(l)
  BY <1>2 DEF LocsOK, ToSet
<1> QED BY <1>14, <1>15

-----------------------------------------------------------------------------
(* Each agent is told. *)

\* What leads to the bundle of a row, and whom that tells of it.
LEMMA RowEntries ==
  ASSUME AuditInv, ReportsAll, NEW i \in DOMAIN rows
  PROVE  \E x \in DOMAIN d.order :
           /\ rows[i].real = d.order[x] /\ 1 \in DOMAIN d.reach[x]
           /\ \A k \in DOMAIN d.reach[x] :
                d.reach[x][k] \in ReachType /\ EntryOK(d.reach[x][k]) /\ d.reach[x][k].real = rows[i].real
           /\ \A id : id \in rows[i].agents <=>
                \E l \in ToSet(locs), k \in DOMAIN d.reach[x] : l.exists /\ IsPrefix(l.path, d.reach[x][k].path) /\ id \in l.agents
<1>1. WalkInv /\ fs \in FileSystems /\ roots \in Seq(Seq(Int)) /\ WalkOK(d, stack, turn)
  BY DEF AuditInv, WalkInv, ReportsAll
<1>2. PICK x \in DOMAIN d.order :
        /\ rows[i].real = d.order[x]
        /\ {rows[i].path} \cup rows[i].also = {d.reach[x][k].path : k \in DOMAIN d.reach[x]}
        /\ rows[i].agents =
             UNION {l.agents : l \in {y \in ToSet(locs) : y.exists /\ \E p \in {rows[i].path} \cup rows[i].also : IsPrefix(y.path, p)}}
  BY RowIs
<1>3. /\ d.reach \in Seq(Seq(ReachType)) /\ Len(d.reach) = Len(d.order) /\ d.reach[x] # <<>>
      /\ \A k \in DOMAIN d.reach[x] : EntryOK(d.reach[x][k]) /\ d.reach[x][k].real = d.order[x]
      /\ d.order \in Seq(Seq(Int))
  BY <1>1, WalkTyped DEF WalkOK, OrderOK
<1>4. d.reach[x] \in Seq(ReachType)
  BY <1>3
<1>5. 1 \in DOMAIN d.reach[x] /\ \A k \in DOMAIN d.reach[x] : d.reach[x][k] \in ReachType
  <2>1. PICK all : all = d.reach[x]
    OBVIOUS
  <2>2. all \in Seq(ReachType) /\ all # <<>>
    BY <1>3, <1>4, <2>1
  <2>3. 1 \in DOMAIN all /\ \A k \in DOMAIN all : all[k] \in ReachType
    BY <2>2
  <2> QED BY <2>1, <2>3
<1>6. PICK paths : paths = {rows[i].path} \cup rows[i].also
  OBVIOUS
<1>7. \A q : q \in paths <=> \E k \in DOMAIN d.reach[x] : q = d.reach[x][k].path
  BY <1>2, <1>6
<1>8. ASSUME NEW id
      PROVE  id \in rows[i].agents <=> \E l \in ToSet(locs) : l.exists /\ id \in l.agents /\ \E p \in paths : IsPrefix(l.path, p)
  BY <1>2, <1>6
<1>9. ASSUME NEW id
      PROVE  id \in rows[i].agents <=>
               \E l \in ToSet(locs), k \in DOMAIN d.reach[x] : l.exists /\ IsPrefix(l.path, d.reach[x][k].path) /\ id \in l.agents
  BY <1>7, <1>8
<1> QED BY <1>2, <1>3, <1>5, <1>9

\* A folder holds what a place below it holds.
LEMMA HoldsMore ==
  ASSUME fs \in FileSystems, NEW l \in Seq(Int), NEW m \in Seq(Int), EvalSymlinks(m) \in Below(l), NEW b, Holds(m, b)
  PROVE  Holds(l, b)
<1>1. PICK p \in Places(m) : p.real = b
  BY DEF Holds
<1>2. Below(m) \subseteq Below(l)
  BY BelowWithin
<1>3. EvalSymlinks(m) \notin SkillFiles
  <2>1. EvalSymlinks(m) \in fs.dirs
    BY BelowIs
  <2> QED BY <2>1, FilesAreNotDirs
<1>4. CASE \E u \in Below(m) \cap fs.skills : p = [spot |-> u, real |-> u]
  <2>1. PICK u \in Below(m) \cap fs.skills : p.real = u
    BY <1>4
  <2>2. u \in Below(l) \cap fs.skills
    BY <1>2, <2>1
  <2>3. Holds(l, u)
    BY <2>2, PlacesAre
  <2> QED BY <1>1, <2>1, <2>3
<1>5. CASE \E c \in DOMAIN fs.links : /\ Front(c) \in Below(m) \ fs.skills /\ IsBundleDir(fs.links[c])
                                      /\ p = [spot |-> c, real |-> fs.links[c]]
  <2>1. PICK c \in DOMAIN fs.links : Front(c) \in Below(m) \ fs.skills /\ IsBundleDir(fs.links[c]) /\ p.real = fs.links[c]
    BY <1>5
  <2>2. Front(c) \in Below(l) \ fs.skills
    BY <1>2, <2>1
  <2>3. Holds(l, fs.links[c])
    BY <2>1, <2>2, PlacesAre
  <2> QED BY <1>1, <2>1, <2>3
<1> QED BY <1>3, <1>4, <1>5 DEF Places

\* Two prefixes of a path: the longer one is on the way from the shorter.
LEMMA OnTheWayOr ==
  ASSUME NEW l \in Seq(Int), NEW root \in Seq(Int), NEW path \in Seq(Int), IsPrefix(l, path), IsPrefix(root, path)
  PROVE  l \in OnTheWay(root, path) \/ IsPrefix(l, root)
<1>1. Len(l) \in Nat /\ Len(root) \in Nat /\ Len(path) \in Nat /\ Len(l) <= Len(path)
  BY PrefixIs
<1>2. CASE Len(root) <= Len(l)
  <2>1. Len(l) \in Len(root)..Len(path)
    BY <1>1, <1>2
  <2>2. SubSeq(path, 1, Len(l)) = l
    <3>1. l \in OnTheWay(l, path)
      BY RootOnTheWay
    <3>2. PICK u : u = SubSeq(path, 1, Len(l))
      OBVIOUS
    <3>3. u \in Seq(Int) /\ Len(u) = Len(l) /\ \A i \in 1..Len(l) : u[i] = path[i]
      BY <1>1, <3>2, SubSeqProperties
    <3>4. \A i \in 1..Len(l) : l[i] = path[i]
      BY PrefixIs
    <3>5. u = l
      BY <3>3, <3>4, SameSeq
    <3> QED BY <3>2, <3>5
  <2> QED BY <2>1, <2>2 DEF OnTheWay
<1>3. CASE Len(l) <= Len(root)
  BY <1>3, PrefixOrder
<1> QED BY <1>1, <1>2, <1>3

\* The spot of a place is below the directory that the folder is.
LEMMA SpotBelow ==
  ASSUME fs \in FileSystems, NEW l \in Seq(Int), NEW q \in Places(l)
  PROVE  IsPrefix(EvalSymlinks(l), q.spot)
<1>1. PICK top : top = EvalSymlinks(l)
  OBVIOUS
<1>2. top \in Seq(Int)
  BY <1>1, EvalIs
<1>3. \A u \in Below(l) : u \in Seq(Int) /\ IsPrefix(top, u)
  BY <1>1, BelowIs
<1>4. CASE \E u \in Below(l) \cap fs.skills : q = [spot |-> u, real |-> u]
  BY <1>1, <1>3, <1>4
<1>5. CASE \E c \in DOMAIN fs.links : /\ Front(c) \in Below(l) \ fs.skills /\ IsBundleDir(fs.links[c])
                                      /\ q = [spot |-> c, real |-> fs.links[c]]
  <2>1. PICK c \in DOMAIN fs.links : Front(c) \in Below(l) /\ q.spot = c
    BY <1>5
  <2>2. c \in Seq(Int) /\ c # <<>> /\ IsPrefix(top, Front(c))
    BY <1>3, <2>1, TreeFacts
  <2>3. IsPrefix(top, c)
    BY <1>2, <2>2, PrefixOrder
  <2> QED BY <1>1, <2>1, <2>3
<1>6. CASE q = [spot |-> top, real |-> top]
  BY <1>1, <1>2, <1>6, PrefixOrder
<1> QED BY <1>1, <1>4, <1>5, <1>6 DEF Places

\* The facts about a report of what is installed.
LEMMA Installed ==
  ASSUME AuditInv, at = "write", cmd.installed
  PROVE  /\ ReportsAll /\ WalkInv /\ walking = "done" /\ fs \in FileSystems /\ WalkOK(d, stack, turn)
         /\ Resolves /\ SelectionKnown /\ LocsOK
         /\ ToSet(roots) = ToSet(cmd.args) \cup ToSet(ExistingRoots) /\ ToSet(roots) \subseteq Seq(Int)
<1>1. ReportsAll
  BY DEF AuditInv, Control, Reported, ReportsOne, Single
<1>2. WalkInv /\ walking = "done" /\ fs \in FileSystems /\ WalkOK(d, stack, turn) /\ roots \in Seq(Seq(Int))
  BY <1>1 DEF AuditInv, WalkInv, ReportsAll
<1>3. Resolves /\ SelectionKnown
  BY DEF AuditInv, Control, Asked, Resolves
<1>4. CommandOK /\ LocsOK
  BY DEF AuditInv, CommandOK
<1>5. ToSet(roots) = ToSet(cmd.args) \cup ToSet(ExistingRoots)
  BY <1>1, <1>4, RequestedIs DEF ReportsAll
<1>6. ToSet(roots) \subseteq Seq(Int)
  BY <1>2 DEF ToSet
<1> QED BY <1>1, <1>2, <1>3, <1>4, <1>5, <1>6

\* A row without an agent is of a bundle that a named path holds.
LEMMA SomeoneIsTold ==
  ASSUME AuditInv, at = "write", cmd.installed, NEW i \in DOMAIN rows, rows[i].agents = {}
  PROVE  \E a \in ToSet(cmd.args) : Holds(a, rows[i].real)
<1>1. /\ ReportsAll /\ LocsOK /\ ToSet(roots) = ToSet(cmd.args) \cup ToSet(ExistingRoots)
      /\ ToSet(roots) \subseteq Seq(Int)
  BY Installed
<1>2. PICK x \in DOMAIN d.order :
        /\ 1 \in DOMAIN d.reach[x]
        /\ \A k \in DOMAIN d.reach[x] :
             d.reach[x][k] \in ReachType /\ EntryOK(d.reach[x][k]) /\ d.reach[x][k].real = rows[i].real
        /\ \A id : id \in rows[i].agents <=>
             \E l \in ToSet(locs), k \in DOMAIN d.reach[x] : l.exists /\ IsPrefix(l.path, d.reach[x][k].path) /\ id \in l.agents
  BY <1>1, RowEntries
<1>3. PICK e : e = d.reach[x][1]
  OBVIOUS
<1>4. e.root \in ToSet(roots) /\ IsPrefix(e.root, e.path) /\ e.path \in Seq(Int) /\ e.root \in Seq(Int)
  BY <1>2, <1>3 DEF EntryOK, ReachType
<1>5. Holds(e.root, rows[i].real)
  <2>1. e.root \in OnTheWay(e.root, e.path)
    BY <1>4, RootOnTheWay
  <2> QED BY <1>2, <1>3, <2>1 DEF EntryOK
<1>6. e.root \notin ToSet(ExistingRoots)
  <2> SUFFICES ASSUME e.root \in ToSet(ExistingRoots) PROVE FALSE
    OBVIOUS
  <2>1. PICK l \in ToSet(locs) : l.exists /\ e.root = l.path
    BY <1>1, ExistingAre
  <2>2. FolderOK(l)
    BY <1>1 DEF LocsOK, ToSet
  <2>3. PICK id : id \in l.agents
    BY <2>2 DEF FolderOK
  <2>4. id \in rows[i].agents
    BY <1>2, <1>3, <1>4, <2>1, <2>3
  <2> QED BY <2>4
<1> QED BY <1>1, <1>4, <1>5, <1>6

\* An agent that a row names reads a folder that holds the bundle, if no root that
\* leads to the bundle is in a folder of that agent by its name alone.
LEMMA NobodyElseIsTold ==
  ASSUME AuditInv, at = "write", cmd.installed, NEW i \in DOMAIN rows, NEW id \in rows[i].agents,
         \A l \in ToSet(locs) : id \in l.agents =>
           \A q \in ToSet(roots) : Holds(q, rows[i].real) => ComesBy(l.path, q)
  PROVE  \E l \in ToSet(locs) : id \in l.agents /\ IsDir(EvalSymlinks(l.path)) /\ Holds(l.path, rows[i].real)
<1>1. /\ ReportsAll /\ LocsOK /\ fs \in FileSystems /\ ToSet(roots) \subseteq Seq(Int)
  BY Installed
<1>2. PICK x \in DOMAIN d.order :
        /\ \A k \in DOMAIN d.reach[x] :
             d.reach[x][k] \in ReachType /\ EntryOK(d.reach[x][k]) /\ d.reach[x][k].real = rows[i].real
        /\ \E l \in ToSet(locs), k \in DOMAIN d.reach[x] : l.exists /\ IsPrefix(l.path, d.reach[x][k].path) /\ id \in l.agents
  BY <1>1, RowEntries
<1>3. PICK l \in ToSet(locs), k \in DOMAIN d.reach[x] : l.exists /\ IsPrefix(l.path, d.reach[x][k].path) /\ id \in l.agents
  BY <1>2
<1>4. PICK e : e = d.reach[x][k]
  OBVIOUS
<1>5. /\ e.real = rows[i].real /\ e.root \in ToSet(roots) /\ IsPrefix(e.root, e.path)
      /\ e.path \in Seq(Int) /\ e.root \in Seq(Int) /\ \A m \in OnTheWay(e.root, e.path) : Holds(m, e.real)
  BY <1>2, <1>4 DEF EntryOK, ReachType
<1>6. FolderOK(l)
  BY <1>1 DEF LocsOK, ToSet
<1>7. l.path \in Seq(Int) /\ IsDir(EvalSymlinks(l.path))
  BY <1>3, <1>6 DEF FolderOK
<1>8. Holds(l.path, rows[i].real)
  <2>1. CASE l.path \in OnTheWay(e.root, e.path)
    BY <1>5, <2>1
  <2>2. CASE IsPrefix(l.path, e.root)
    <3>2. Holds(e.root, e.real)
      BY <1>5, RootOnTheWay
    <3>1. EvalSymlinks(e.root) \in Below(l.path)
      BY <1>3, <1>5, <2>2, <3>2 DEF ComesBy
    <3> QED BY <1>1, <1>5, <1>7, <3>1, <3>2, HoldsMore
  <2> QED BY <1>3, <1>4, <1>5, <1>7, <2>1, <2>2, OnTheWayOr
<1> QED BY <1>3, <1>7, <1>8

\* After a complete walk, a row names each agent that reads a folder that holds its
\* bundle, if no root that leads to the bundle is behind a link.
LEMMA EveryoneIsTold ==
  ASSUME AuditInv, at = "write", cmd.installed, Complete, NEW i \in DOMAIN rows, Straight(rows[i].real),
         NEW l \in ToSet(locs), NEW id \in l.agents, IsDir(EvalSymlinks(l.path)), Holds(l.path, rows[i].real)
  PROVE  id \in rows[i].agents
<1>1. /\ ReportsAll /\ LocsOK /\ fs \in FileSystems /\ WalkInv /\ walking = "done" /\ WalkOK(d, stack, turn)
      /\ ToSet(roots) = ToSet(cmd.args) \cup ToSet(ExistingRoots)
  BY Installed
<1>2. PICK x \in DOMAIN d.order :
        /\ rows[i].real = d.order[x]
        /\ \A a : a \in rows[i].agents <=>
             \E m \in ToSet(locs), k \in DOMAIN d.reach[x] : m.exists /\ IsPrefix(m.path, d.reach[x][k].path) /\ a \in m.agents
  BY <1>1, RowEntries
<1>3. FolderOK(l)
  BY <1>1 DEF LocsOK, ToSet
<1>4. l.exists /\ l.path \in Seq(Int)
  BY <1>3 DEF FolderOK
<1>5. l.path \in ToSet(roots) /\ EvalSymlinks(l.path) = l.path
  BY <1>1, <1>4, ExistingAre DEF Straight, Unlinked
<1>6. PICK q \in Places(l.path) : q.real = rows[i].real
  BY DEF Holds
<1>7. ~d.stopped /\ d.pruned = {}
  BY <1>1, NotLimited DEF Complete
<1>8. ~UnreadableAbove(q.spot)
  BY DEF Complete, UnreadableAbove
<1>9. Kept(d, q.spot, q.real)
  BY <1>1, <1>5, <1>7, <1>8, Reached
<1>10. PICK y \in DOMAIN d.order : d.order[y] = q.real /\ \E k \in DOMAIN d.reach[y] : d.reach[y][k].path = q.spot
  BY <1>6, <1>7, <1>9 DEF Kept
<1>11. y = x
  BY <1>1, <1>2, <1>6, <1>10 DEF WalkOK, OrderOK
<1>12. IsPrefix(l.path, q.spot)
  BY <1>1, <1>4, <1>5, SpotBelow
<1> QED BY <1>2, <1>4, <1>10, <1>11, <1>12

\* Who is told of a bundle, but for the two ways by name: the folders of Resolve are
\* those that the agents read, said without its calls.
LEMMA ToldInv == AuditInv => AgentsAreTold
<1> SUFFICES ASSUME AuditInv, at = "write", cmd.installed PROVE AgentsAreTold
  BY DEF AgentsAreTold
<1>1. PICK all : all = UNION {Folders[id] : id \in Chosen}
  OBVIOUS
<1>2. PICK held : held = [p \in all |-> IF IsDir(EvalSymlinks(p)) THEN {q.real : q \in Places(p)} ELSE {}]
  OBVIOUS
<1>3. PICK named : named = {q.real : q \in UNION {Places(a) : a \in ToSet(cmd.args)}}
  OBVIOUS
<1>4. /\ \A p, id : (\E l \in ToSet(locs) : l.path = p /\ id \in l.agents) <=> id \in Chosen /\ p \in Folders[id]
      /\ \A l \in ToSet(locs) : FolderOK(l)
  BY Installed, FoldersAgree
<1>5. \A b : \A p \in all : b \in held[p] <=> IsDir(EvalSymlinks(p)) /\ Holds(p, b)
  BY <1>2 DEF Holds
<1>6. ASSUME NEW l \in ToSet(locs) PROVE l.path \in all
  <2>1. PICK id : id \in l.agents
    BY <1>4 DEF FolderOK
  <2> QED BY <1>1, <1>4, <2>1
<1>7. ASSUME NEW i \in DOMAIN rows, rows[i].agents = {} PROVE rows[i].real \in named
  <2>1. PICK a \in ToSet(cmd.args) : Holds(a, rows[i].real)
    BY <1>7, SomeoneIsTold
  <2>2. PICK q \in Places(a) : q.real = rows[i].real
    BY <2>1 DEF Holds
  <2> QED BY <1>3, <2>2
<1>11. PICK asked : asked = [q \in ToSet(roots) |-> {p.real : p \in Places(q)}]
  OBVIOUS
<1>12. \A b : \A q \in ToSet(roots) : b \in asked[q] <=> Holds(q, b)
  BY <1>11 DEF Holds
<1>8. ASSUME NEW i \in DOMAIN rows, NEW id \in rows[i].agents,
             ~\E p \in Folders[id] : \E q \in ToSet(roots) : rows[i].real \in asked[q] /\ ~ComesBy(p, q)
      PROVE  id \in Chosen /\ \E p \in Folders[id] : rows[i].real \in held[p]
  <2>1. \A l \in ToSet(locs) : id \in l.agents =>
          \A q \in ToSet(roots) : Holds(q, rows[i].real) => ComesBy(l.path, q)
    BY <1>4, <1>8, <1>12
  <2>2. PICK l \in ToSet(locs) : id \in l.agents /\ IsDir(EvalSymlinks(l.path)) /\ Holds(l.path, rows[i].real)
    BY <2>1, NobodyElseIsTold
  <2>3. id \in Chosen /\ l.path \in Folders[id] /\ l.path \in all
    BY <1>4, <1>6, <2>2
  <2> QED BY <1>5, <2>2, <2>3
<1>13. ASSUME NEW i \in DOMAIN rows, NEW id \in rows[i].agents PROVE id \in Chosen
  <2>1. ReportsAll /\ LocsOK
    BY Installed
  <2>2. \E l \in ToSet(locs) : id \in l.agents
    BY <2>1, RowEntries
  <2> QED BY <1>4, <2>2
<1>9. ASSUME NEW i \in DOMAIN rows, Complete,
             \A q \in ToSet(roots) : rows[i].real \in asked[q] => EvalSymlinks(q) = q,
             NEW id \in Chosen, NEW p \in Folders[id], rows[i].real \in held[p]
      PROVE  id \in rows[i].agents
  <2>1. p \in all
    BY <1>1
  <2>2. PICK l \in ToSet(locs) : l.path = p /\ id \in l.agents
    BY <1>4
  <2>3. IsDir(EvalSymlinks(l.path)) /\ Holds(l.path, rows[i].real)
    BY <1>5, <1>9, <2>1, <2>2
  <2>4. Straight(rows[i].real)
    BY <1>9, <1>12 DEF Straight, Unlinked
  <2> QED BY <1>9, <2>2, <2>3, <2>4, EveryoneIsTold
<1>10. ASSUME NEW i \in DOMAIN rows
       PROVE  LET holders == {id \in Chosen : \E p \in Folders[id] : rows[i].real \in held[p]}
                  ways == {q \in ToSet(roots) : rows[i].real \in asked[q]}
                  byName == {id \in Chosen : \E p \in Folders[id] : \E q \in ways : ~ComesBy(p, q)}
              IN /\ rows[i].agents # {} \/ rows[i].real \in named
                 /\ rows[i].agents \subseteq holders \cup byName
                 /\ (Complete /\ \A q \in ways : EvalSymlinks(q) = q) => holders \subseteq rows[i].agents
  <2>1. PICK holders : holders = {id \in Chosen : \E p \in Folders[id] : rows[i].real \in held[p]}
    OBVIOUS
  <2>2. PICK ways : ways = {q \in ToSet(roots) : rows[i].real \in asked[q]}
    OBVIOUS
  <2>3. PICK byName : byName = {id \in Chosen : \E p \in Folders[id] : \E q \in ways : ~ComesBy(p, q)}
    OBVIOUS
  <2>4. rows[i].agents # {} \/ rows[i].real \in named
    BY <1>7
  <2>5. rows[i].agents \subseteq holders \cup byName
    BY <1>8, <1>13, <2>1, <2>2, <2>3
  <2>6. (Complete /\ \A q \in ways : EvalSymlinks(q) = q) => holders \subseteq rows[i].agents
    BY <1>9, <2>1, <2>2
  <2> QED BY <2>1, <2>2, <2>3, <2>4, <2>5, <2>6
<1> QED BY <1>1, <1>2, <1>3, <1>10, <1>11, Zenon DEF AgentsAreTold

\* `locations` lists the folders that the chosen agents read, and no other.
LEMMA ListedInv == AuditInv => FoldersAreListed
<1> SUFFICES ASSUME AuditInv, Listing
             PROVE  {l.path : l \in ToSet(locs)} = UNION {Folders[id] : id \in Chosen}
  BY DEF FoldersAreListed
<1>1. Resolves /\ SelectionKnown
  BY DEF AuditInv, Control, Asked, Resolves, Listing
<1>2. /\ \A p, id : (\E l \in ToSet(locs) : l.path = p /\ id \in l.agents) <=> id \in Chosen /\ p \in Folders[id]
      /\ \A l \in ToSet(locs) : \E id : id \in l.agents
  BY <1>1, FoldersAgree DEF FolderOK
<1> QED BY <1>2

-----------------------------------------------------------------------------
(***************************************************************************)
(* The counts of `locations`. A walk within the limits of a file system    *)
(* without closed directories is never cut short: each bundle it adds is   *)
(* one of the file system's, and no frame is deeper than its directory.    *)
(***************************************************************************)
Unhindered(v, st) ==
  /\ ~v.stopped /\ v.pruned = {} /\ \A n \in v.errs : n.kind # "unreadable"
  /\ \A i \in DOMAIN v.order : v.order[i] \in fs.skills
  /\ \A f \in ToSet(st) : f.depth <= Len(f.real)

Numbers == limits.depth \in Int /\ limits.bundles \in Int

LEMMA SkillsAreFinite ==
  ASSUME fs \in FileSystems
  PROVE  IsFiniteSet(fs.skills) /\ Cardinality(fs.skills) \in Nat
<1>1. IsFiniteSet(fs.dirs) /\ fs.skills \subseteq fs.dirs
  BY FileSystemsAreTrees
<1>2. IsFiniteSet(fs.skills)
  BY <1>1, FS_Subset
<1> QED BY <1>2, FS_CardinalityType

\* So many different elements are as many as their set has.
LEMMA DifferentAreCounted ==
  ASSUME NEW S, NEW s \in Seq(S), \A i, j \in DOMAIN s : s[i] = s[j] => i = j
  PROVE  IsFiniteSet(ToSet(s)) /\ Cardinality(ToSet(s)) = Len(s)
<1>1. PICK n : n = Len(s)
  OBVIOUS
<1>2. n \in Nat /\ DOMAIN s = 1..n
  BY <1>1
<1>3. IsFiniteSet(1..n) /\ Cardinality(1..n) = n
  BY <1>2, FS_Interval
<1>4. s \in [1..n -> ToSet(s)] /\ \A x \in ToSet(s) : \E i \in 1..n : s[i] = x
  BY <1>2 DEF ToSet
<1>5. s \in Bijection(1..n, ToSet(s))
  BY <1>2, <1>4 DEF Bijection, Injection, Surjection, IsInjective
<1>6. ExistsBijection(1..n, ToSet(s))
  BY <1>5 DEF ExistsBijection
<1> QED BY <1>1, <1>3, <1>6, FS_Bijection

\* There is room for every bundle.
LEMMA AddFits ==
  ASSUME fs \in FileSystems, Numbers, Cardinality(fs.skills) <= limits.bundles,
         NEW v \in DiscovererType, OrderOK(v), NEW st, Unhindered(v, st), NEW r \in ReachType, r.real \in fs.skills
  PROVE  Unhindered(Add(v, r), st)
<1>1. PICK w : w = Add(v, r)
  OBVIOUS
<1>2. /\ v.order \in Seq(Seq(Int)) /\ v.reach \in Seq(Seq(ReachType)) /\ v.errs \subseteq NoteType
      /\ v.seen \subseteq Seq(Int) /\ v.pruned \subseteq Seq(Int) /\ v.stopped \in BOOLEAN
      /\ r.real \in Seq(Int)
  BY DEF DiscovererType, ReachType
<1>3. /\ ~v.stopped /\ v.pruned = {} /\ \A n \in v.errs : n.kind # "unreadable"
      /\ \A i \in DOMAIN v.order : v.order[i] \in fs.skills
      /\ \A f \in ToSet(st) : f.depth <= Len(f.real)
  BY DEF Unhindered
<1>4. CASE \E i \in DOMAIN v.order : v.order[i] = r.real
  <2>1. PICK reach : w = [v EXCEPT !.reach = reach]
    BY <1>1, <1>4 DEF Add
  <2>2. w.order = v.order /\ w.errs = v.errs /\ w.pruned = v.pruned /\ w.stopped = v.stopped
    BY <2>1 DEF DiscovererType
  <2> QED BY <1>1, <1>3, <2>2 DEF Unhindered
<1>5. CASE ~(\E i \in DOMAIN v.order : v.order[i] = r.real)
  <2>1. PICK order : order = Append(v.order, r.real)
    OBVIOUS
  <2>2. PICK n : n = Len(v.order)
    OBVIOUS
  <2>3. /\ n \in Nat /\ DOMAIN v.order = 1..n /\ order \in Seq(Seq(Int)) /\ Len(order) = n + 1 /\ DOMAIN order = 1..(n + 1)
        /\ (\A i \in 1..n : order[i] = v.order[i]) /\ order[n + 1] = r.real
    BY <1>2, <2>1, <2>2, AppendProperties
  <2>4. \A i \in 1..(n + 1) : i \in 1..n \/ i = n + 1
    BY <2>3
  <2>5. \A i, j \in 1..(n + 1) : order[i] = order[j] => i = j
    <3>1. \A i, j \in 1..n : v.order[i] = v.order[j] => i = j
      BY <2>3 DEF OrderOK
    <3>2. \A i \in 1..n : v.order[i] # r.real
      BY <1>5, <2>3
    <3> QED BY <2>3, <2>4, <3>1, <3>2
  <2>6. \A i \in 1..(n + 1) : order[i] \in fs.skills
    BY <1>3, <2>3, <2>4
  <2>7. n + 1 <= Cardinality(fs.skills)
    <3>1. Cardinality(ToSet(order)) = n + 1
      <4>1. \A i, j \in DOMAIN order : order[i] = order[j] => i = j
        BY <2>3, <2>5
      <4> QED BY <2>3, <4>1, DifferentAreCounted
    <3>2. ToSet(order) \subseteq fs.skills
      BY <2>3, <2>6 DEF ToSet
    <3> QED BY <3>1, <3>2, SkillsAreFinite, FS_Subset
  <2>8. ~(Len(v.order) >= limits.bundles)
    BY <2>2, <2>3, <2>7, SkillsAreFinite DEF Numbers
  <2>9. PICK reach : w = [v EXCEPT !.order = order, !.reach = reach]
    BY <1>1, <1>5, <2>1, <2>8 DEF Add
  <2>10. w.order = order /\ w.errs = v.errs /\ w.pruned = v.pruned /\ w.stopped = v.stopped
    BY <2>9 DEF DiscovererType
  <2> QED BY <1>1, <1>3, <2>3, <2>6, <2>10 DEF Unhindered
<1> QED BY <1>4, <1>5

\* walk up to its loop meets neither the cap nor a closed directory.
LEMMA EnterFits ==
  ASSUME fs \in FileSystems, fs.closed = {}, Numbers, Cardinality(fs.skills) <= limits.bundles,
         d \in DiscovererType, OrderOK(d), NEW st, Unhindered(d, st),
         NEW path \in Seq(Int), NEW real \in fs.dirs, NEW root \in Seq(Int), NEW depth \in Int, depth <= Len(real)
  PROVE  /\ Unhindered(Enter(path, real, root), st)
         /\ \A f \in ToSet(Opened(path, real, root, depth)) : f.depth <= Len(f.real)
<1>1. \A u : Searchable(u)
  BY DEF Searchable
<1>2. \A f \in ToSet(Opened(path, real, root, depth)) : f.depth <= Len(f.real)
  <2>1. PICK f : f = Frame(path, real, root, depth)
    OBVIOUS
  <2>2. f.depth = depth /\ f.real = real
    BY <2>1 DEF Frame
  <2>3. ToSet(<<f>>) = {f} /\ ToSet(<<>>) = {}
    BY DEF ToSet
  <2>4. Opened(path, real, root, depth) \in {<<f>>, <<>>}
    BY <2>1 DEF Opened
  <2> QED BY <2>2, <2>3, <2>4
<1>3. Unhindered(Enter(path, real, root), st)
  <2>1. CASE d.stopped \/ real \in d.seen
    BY <2>1 DEF Enter
  <2>2. CASE ~d.stopped /\ real \notin d.seen
    <3>1. PICK v : v = [d EXCEPT !.seen = d.seen \cup {real}]
      OBVIOUS
    <3>2. /\ v \in DiscovererType /\ v.order = d.order /\ v.reach = d.reach /\ v.stopped = d.stopped
          /\ v.seen = d.seen \cup {real} /\ v.errs = d.errs /\ v.pruned = d.pruned
      BY <3>1, TreeFacts DEF DiscovererType
    <3>3. OrderOK(v) /\ Unhindered(v, st)
      BY <3>2, NotedKeeps DEF Unhindered
    <3>4. CASE IsBundleDir(real)
      <4>1. PICK r : r = Reach(path, real, root, FALSE, FALSE)
        OBVIOUS
      <4>2. r \in ReachType /\ r.real \in fs.skills
        BY <3>4, <4>1, TreeFacts DEF Reach, ReachType, IsBundleDir
      <4>3. Unhindered(Add(v, r), st)
        BY <3>2, <3>3, <4>2, AddFits
      <4>4. Enter(path, real, root) = Add(v, r)
        BY <2>2, <3>1, <3>4, <4>1 DEF Enter
      <4> QED BY <4>3, <4>4
    <3>5. CASE ~IsBundleDir(real)
      <4>1. Enter(path, real, root) = v
        BY <1>1, <2>2, <3>1, <3>5 DEF Enter
      <4> QED BY <3>3, <4>1
    <3> QED BY <3>4, <3>5
  <2> QED BY <2>1, <2>2
<1> QED BY <1>2, <1>3

\* The frames after an entry was taken: those there were, and those it opened.
LEMMA TakenFits ==
  ASSUME fs \in FileSystems, roots \in Seq(Seq(Int)), WalkOK(d, stack, turn), TakesEntry,
         \A f \in ToSet(stack) : f.depth <= Len(f.real),
         NEW o \in Seq(FrameType), \A f \in ToSet(o) : f.depth <= Len(f.real)
  PROVE  \A f \in ToSet(Taken \o o) : f.depth <= Len(f.real)
<1>1. PICK g : g = [Top EXCEPT !.rest = @ \ {NextName}]
  OBVIOUS
<1>2. stack \in Seq(FrameType) /\ stack # <<>> /\ Top \in FrameType /\ Top = stack[Len(stack)]
  BY EntryIs DEF WalkOK, TakesEntry
<1>3. g \in FrameType /\ g.depth = Top.depth /\ g.real = Top.real
  BY <1>1, <1>2 DEF FrameType
<1>4. PICK u : u = Front(stack)
  OBVIOUS
<1>5. u \in Seq(FrameType) /\ Len(u) = Len(stack) - 1 /\ (\A i \in 1..(Len(stack) - 1) : u[i] = stack[i]) /\ Len(stack) >= 1
  BY <1>2, <1>4, FrontIs
<1>6. g.depth <= Len(g.real)
  <2>1. Len(stack) \in DOMAIN stack
    BY <1>2, <1>5
  <2>2. Top \in ToSet(stack)
    BY <1>2, <2>1 DEF ToSet
  <2> QED BY <1>3, <2>2
<1>7. \A f \in ToSet(u) : f.depth <= Len(f.real)
  <2> SUFFICES ASSUME NEW i \in DOMAIN u PROVE u[i].depth <= Len(u[i].real)
    BY DEF ToSet
  <2>1. i \in 1..(Len(stack) - 1) /\ i \in DOMAIN stack
    BY <1>2, <1>5
  <2>2. u[i] \in ToSet(stack)
    BY <1>5, <2>1 DEF ToSet
  <2> QED BY <2>2
<1>8. Taken = Append(u, g)
  BY <1>1, <1>4 DEF Taken
<1>9. PICK t : t = Append(u, g)
  OBVIOUS
<1>10. t \in Seq(FrameType) /\ \A f \in ToSet(t) : f \in ToSet(u) \/ f = g
  <2>1. /\ t \in Seq(FrameType) /\ Len(t) = Len(u) + 1 /\ (\A i \in 1..Len(u) : t[i] = u[i]) /\ t[Len(u) + 1] = g
    BY <1>3, <1>5, <1>9, AppendProperties
  <2>2. DOMAIN t = 1..(Len(u) + 1) /\ DOMAIN u = 1..Len(u) /\ Len(u) \in Nat
    BY <1>5, <2>1
  <2>3. \A i \in DOMAIN t : i \in DOMAIN u \/ i = Len(u) + 1
    BY <2>2
  <2> QED BY <2>1, <2>2, <2>3 DEF ToSet
<1>11. ToSet(t \o o) = ToSet(t) \cup ToSet(o)
  BY <1>10, ConcatSet
<1> QED BY <1>6, <1>7, <1>8, <1>9, <1>10, <1>11

\* No step of a walk within the limits, from directories, hinders it.
LEMMA WalkFits ==
  ASSUME WalkInv, Walk, WithinLimits, Numbers, Unhindered(d, stack),
         \A r \in ToSet(roots) : IsDir(EvalSymlinks(r))
  PROVE  Unhindered(d', stack') /\ walking' # "failed"
<1>1. fs \in FileSystems /\ roots \in Seq(Seq(Int)) /\ walking = "on"
  BY DEF WalkInv, Walk, RootMissing, RootFile, RootDir, RootTurn, BetweenRoots, Link, SkipName, Prune, Descend,
         TakesEntry, Leave, EndWalk
<1>2. WalkOK(d, stack, turn)
  BY <1>1 DEF WalkInv
<1>3. /\ fs.closed = {} /\ Cardinality(fs.skills) <= limits.bundles /\ \A u \in fs.dirs : Len(u) <= limits.depth
      /\ d \in DiscovererType /\ OrderOK(d) /\ stack \in Seq(FrameType)
      /\ \A f \in ToSet(stack) : f.depth <= Len(f.real)
  BY <1>2 DEF WithinLimits, WalkOK, Unhindered
<1>4. ASSUME RootTurn
      PROVE  IsDir(EvalSymlinks(roots[turn])) /\ EvalSymlinks(roots[turn]) \in fs.dirs /\ ~IsSkillFile(EvalSymlinks(roots[turn]))
  <2>1. roots[turn] \in ToSet(roots) /\ EvalSymlinks(roots[turn]) \in Seq(Int)
    BY <1>1, <1>2, <1>4, RootIs
  <2>2. IsDir(EvalSymlinks(roots[turn])) /\ EvalSymlinks(roots[turn]) \in fs.dirs
    BY <2>1 DEF IsDir
  <2> QED BY <1>1, <2>1, <2>2, SkillFileIs
<1>5. ASSUME TakesEntry, NEW v, Unhindered(v, stack)
      PROVE  Unhindered(v, Taken)
  <2>1. PICK o : o = <<>>
    OBVIOUS
  <2>2. o \in Seq(FrameType) /\ \A f \in ToSet(o) : f.depth <= Len(f.real)
    BY <2>1 DEF ToSet
  <2>3. \A f \in ToSet(Taken \o o) : f.depth <= Len(f.real)
    BY <1>1, <1>2, <1>3, <1>5, <2>2, TakenFits
  <2>4. Taken \in Seq(FrameType)
    <3>1. stack \in Seq(FrameType) /\ stack # <<>> /\ Top \in FrameType
      BY <1>1, <1>2, <1>5, EntryIs DEF WalkOK, TakesEntry
    <3>2. Front(stack) \in Seq(FrameType)
      BY <3>1, FrontIs
    <3>3. [Top EXCEPT !.rest = Top.rest \ {NextName}] \in FrameType
      BY <3>1 DEF FrameType
    <3> QED BY <3>2, <3>3, AppendIs DEF Taken
  <2>5. Taken \o o = Taken
    BY <2>1, <2>4, ConcatEmptySeq
  <2> QED BY <1>5, <2>3, <2>5 DEF Unhindered
<1>6. CASE RootMissing
  BY <1>4, <1>6 DEF RootMissing
<1>7. CASE RootFile
  BY <1>4, <1>7 DEF RootFile
<1>8. CASE RootDir
  <2>1. PICK r, real : r = roots[turn] /\ real = EvalSymlinks(roots[turn])
    OBVIOUS
  <2>2. RootTurn /\ d' = Enter(r, real, r) /\ stack' = Opened(r, real, r, 0) /\ walking' = walking
    BY <1>8, <2>1 DEF RootDir
  <2>3. r \in Seq(Int) /\ real \in fs.dirs /\ real \in Seq(Int)
    BY <1>1, <1>2, <1>4, <2>1, <2>2, RootIs
  <2>4. 0 \in Int /\ 0 <= Len(real)
    BY <2>3
  <2>5. /\ Unhindered(d', stack)
        /\ \A f \in ToSet(stack') : f.depth <= Len(f.real)
    BY <1>1, <1>3, <2>2, <2>3, <2>4, EnterFits
  <2> QED BY <1>1, <2>2, <2>5 DEF Unhindered
<1>9. CASE Link
  <2>1. PICK t : t = fs.links[ChildReal]
    OBVIOUS
  <2>2. /\ TakesEntry /\ ChildReal \in DOMAIN fs.links /\ stack' = Taken /\ walking' = walking
        /\ d' = IF ~IsDir(t) THEN d
                ELSE IF IsBundleDir(t) THEN Add(d, Reach(ChildPath, t, Top.root, TRUE, FALSE))
                ELSE [d EXCEPT !.errs = @ \cup {Note(ChildPath, "not followed")}]
    BY <1>9, <2>1 DEF Link
  <2>3. Unhindered(d', stack)
    <3>1. CASE ~IsDir(t)
      BY <2>2, <3>1
    <3>2. CASE IsDir(t) /\ IsBundleDir(t)
      <4>1. PICK r : r = Reach(ChildPath, t, Top.root, TRUE, FALSE)
        OBVIOUS
      <4>2. ChildPath \in Seq(Int) /\ Top.root \in Seq(Int) /\ t \in Seq(Int) /\ t \in fs.skills
        BY <1>1, <1>2, <2>2, <3>2, EntryIs, BundlesAreDirs
      <4>3. r \in ReachType /\ r.real \in fs.skills
        BY <4>1, <4>2 DEF Reach, ReachType
      <4> QED BY <1>1, <1>3, <2>2, <3>2, <4>1, <4>3, AddFits
    <3>3. CASE IsDir(t) /\ ~IsBundleDir(t)
      <4>1. PICK n : n = Note(ChildPath, "not followed")
        OBVIOUS
      <4>2. n.kind = "not followed"
        BY <4>1 DEF Note
      <4>3. d' = [d EXCEPT !.errs = d.errs \cup {n}]
        BY <2>2, <3>3, <4>1
      <4>4. d'.order = d.order /\ d'.errs = d.errs \cup {n} /\ d'.stopped = d.stopped /\ d'.pruned = d.pruned
        BY <1>3, <4>3 DEF DiscovererType
      <4> QED BY <4>2, <4>4 DEF Unhindered
    <3> QED BY <3>1, <3>2, <3>3
  <2> QED BY <1>1, <1>5, <2>2, <2>3
<1>10. CASE SkipName
  BY <1>1, <1>5, <1>10 DEF SkipName
<1>11. ASSUME TakesEntry, ChildReal \in fs.dirs PROVE Top.depth + 1 <= limits.depth /\ Top.depth + 1 <= Len(ChildReal)
  <2>1. Top.real \in Seq(Int) /\ Top.depth \in Int /\ ChildReal \in Seq(Int) /\ ChildReal # <<>> /\ Front(ChildReal) = Top.real
        /\ Top = stack[Len(stack)] /\ Len(stack) \in Nat \ {0}
    BY <1>1, <1>2, <1>11, EntryIs
  <2>2. Len(Top.real) = Len(ChildReal) - 1
    BY <2>1, FrontIs
  <2>3. Top \in ToSet(stack)
    <3>1. Len(stack) \in DOMAIN stack
      BY <1>3, <2>1
    <3> QED BY <2>1, <3>1 DEF ToSet
  <2>4. Top.depth <= Len(Top.real) /\ Len(ChildReal) <= limits.depth
    BY <1>3, <1>11, <2>3
  <2>5. limits.depth \in Int /\ Len(Top.real) \in Nat /\ Len(ChildReal) \in Nat
    BY <2>1 DEF Numbers
  <2> QED BY <2>1, <2>2, <2>4, <2>5
<1>12. CASE Prune
  <2>1. TakesEntry /\ ChildReal \in fs.dirs /\ Top.depth + 1 > limits.depth
    BY <1>12 DEF Prune
  <2>2. Top.depth \in Int /\ limits.depth \in Int
    BY <1>1, <1>2, <2>1, EntryIs DEF Numbers
  <2> QED BY <1>11, <2>1, <2>2
<1>13. CASE Descend
  <2>1. PICK o, z, g : o = Opened(ChildPath, ChildReal, Top.root, z) /\ z = Top.depth + 1 /\ g = Top.root
    OBVIOUS
  <2>2. /\ TakesEntry /\ ChildReal \in fs.dirs /\ d' = Enter(ChildPath, ChildReal, g)
        /\ stack' = Taken \o o /\ walking' = walking
    BY <1>13, <2>1 DEF Descend
  <2>3. ChildPath \in Seq(Int) /\ g \in Seq(Int) /\ z \in Int /\ z <= Len(ChildReal) /\ ChildReal \in Seq(Int)
    BY <1>1, <1>2, <1>11, <2>1, <2>2, EntryIs
  <2>4. Unhindered(d', stack) /\ \A f \in ToSet(o) : f.depth <= Len(f.real)
    BY <1>1, <1>3, <2>1, <2>2, <2>3, EnterFits
  <2>5. o \in Seq(FrameType)
    <3>1. PICK f : f = Frame(ChildPath, ChildReal, g, z)
      OBVIOUS
    <3>2. f \in FrameType
      BY <1>1, <2>3, <3>1, EntriesAre DEF Frame, FrameType
    <3>3. o \in {<<f>>, <<>>}
      BY <2>1, <3>1 DEF Opened
    <3>4. PICK S : S = FrameType
      OBVIOUS
    <3>5. <<f>> \in Seq(S) /\ <<>> \in Seq(S)
      BY <3>2, <3>4
    <3> QED BY <3>3, <3>4, <3>5
  <2>6. \A f \in ToSet(stack') : f.depth <= Len(f.real)
    BY <1>1, <1>2, <1>3, <2>2, <2>4, <2>5, TakenFits
  <2> QED BY <1>1, <2>2, <2>4, <2>6 DEF Unhindered
<1>14. CASE Leave
  <2>1. stack # <<>> /\ stack' = Front(stack) /\ d' = d /\ walking' = walking
    BY <1>14 DEF Leave
  <2>2. PICK u, n : u = Front(stack) /\ n = Len(stack)
    OBVIOUS
  <2>3. u \in Seq(FrameType) /\ Len(u) = n - 1 /\ (\A i \in 1..(n - 1) : u[i] = stack[i]) /\ n >= 1 /\ n \in Nat
    BY <1>3, <2>1, <2>2, FrontIs
  <2>4. \A f \in ToSet(u) : f \in ToSet(stack)
    <3> SUFFICES ASSUME NEW i \in DOMAIN u PROVE u[i] \in ToSet(stack)
      BY DEF ToSet
    <3>1. i \in 1..(n - 1) /\ i \in DOMAIN stack
      BY <1>3, <2>2, <2>3
    <3> QED BY <2>3, <3>1 DEF ToSet
  <2>5. \A f \in ToSet(u) : f.depth <= Len(f.real)
    BY <1>3, <2>4
  <2> QED BY <1>1, <2>1, <2>2, <2>5 DEF Unhindered
<1>15. CASE EndWalk
  BY <1>15 DEF EndWalk
<1> QED BY <1>6, <1>7, <1>8, <1>9, <1>10, <1>12, <1>13, <1>14, <1>15 DEF Walk

\* How many skills a scan of the ith folder would find.
Skills(i) == IF locs[i].exists THEN Cardinality({q.real : q \in Places(locs[i].path)}) ELSE 0

CountedFrom(n) == n \in Nat /\ n <= Len(locs) /\ (WithinLimits => \A i \in 1..n : counts[i] = Skills(i))

CountInv ==
  /\ cmd.verb = "locations" => limits = DefaultLimits
  /\ at = "start" => counts = <<>>
  /\ at \in {"list", "count"} \/ Listing => CountedFrom(Len(counts))
  /\ Listing => Len(counts) = Len(locs)
  /\ at = "count" => /\ Len(counts) < Len(locs) /\ Listed.exists /\ roots = <<Listed.path>>
                     /\ walking \in {"on", "failed", "done"}
                     /\ WithinLimits => walking # "failed" /\ Unhindered(d, stack)

LEMMA SameCounts ==
  ASSUME fs' = fs, locs' = locs, limits' = limits
  PROVE  /\ WithinLimits' <=> WithinLimits
         /\ \A i : Skills(i)' = Skills(i)
         /\ \A v, st : Unhindered(v, st)' <=> Unhindered(v, st)
         /\ (counts' = counts => Listed' = Listed)
         /\ \A n : counts' = counts => (CountedFrom(n)' <=> CountedFrom(n))
<1>1. WithinLimits' <=> WithinLimits
  BY DEF WithinLimits
<1>2. \A i : Skills(i)' = Skills(i)
  BY SamePlaces DEF Skills
<1>3. \A v, st : Unhindered(v, st)' <=> Unhindered(v, st)
  BY DEF Unhindered
<1> QED BY <1>1, <1>2, <1>3 DEF Listed, CountedFrom

\* One count more.
LEMMA OneMore ==
  ASSUME counts \in Seq(Nat), CountedFrom(Len(counts)), Len(counts) < Len(locs), Len(locs) \in Nat,
         fs' = fs, locs' = locs, limits' = limits,
         NEW n \in Nat, counts' = Append(counts, n), WithinLimits => n = Skills(Len(counts) + 1)
  PROVE  CountedFrom(Len(counts))'
<1>1. PICK k : k = Len(counts)
  OBVIOUS
<1>2. /\ k \in Nat /\ Len(counts') = k + 1 /\ counts'[k + 1] = n /\ \A i \in 1..k : counts'[i] = counts[i]
  BY <1>1, AppendProperties
<1>3. WithinLimits => n = Skills(k + 1) /\ \A i \in 1..k : counts[i] = Skills(i)
  BY <1>1 DEF CountedFrom
<1>4. \A i \in 1..(k + 1) : i \in 1..k \/ i = k + 1
  BY <1>2
<1>5. k + 1 \in Nat /\ k + 1 <= Len(locs)
  BY <1>1, <1>2
<1>6. WithinLimits => \A i \in 1..(k + 1) : counts'[i] = Skills(i)
  BY <1>2, <1>3, <1>4
<1>7. CountedFrom(k + 1)'
  BY <1>5, <1>6, SameCounts DEF CountedFrom
<1> QED BY <1>2, <1>7

\* A walk that nothing hindered finds what the folder holds, and so counts it.
LEMMA WalkCounts ==
  ASSUME AuditInv, CountInv, at = "count", walking = "done", WithinLimits, NEW found \in Candidates
  PROVE  Len(found) = Skills(Len(counts) + 1)
<1>1. fs \in FileSystems /\ roots \in Seq(Seq(Int)) /\ WalkOK(d, stack, turn) /\ WalkInv
  BY DEF AuditInv, WalkInv
<1>2. PICK l : l = Listed
  OBVIOUS
<1>3. Unhindered(d, stack) /\ roots = <<l.path>> /\ l.exists
  BY <1>2 DEF CountInv
<1>4. ToSet(roots) = {l.path}
  BY <1>3 DEF ToSet
<1>5. d.order \in Seq(Seq(Int)) /\ \A i, j \in DOMAIN d.order : d.order[i] = d.order[j] => i = j
  BY <1>1, WalkTyped DEF WalkOK, OrderOK
<1>6. Len(found) = Cardinality(ToSet(d.order))
  <2>1. Len(found) = Len(d.order)
    BY <1>1, FoundSorted
  <2> QED BY <1>5, <2>1, DifferentAreCounted
<1>7. ASSUME NEW q \in Places(l.path) PROVE q.real \in ToSet(d.order)
  <2>1. ~d.stopped /\ d.pruned = {} /\ \A n \in d.errs : n.kind # "unreadable"
    BY <1>3 DEF Unhindered
  <2>2. ~UnreadableAbove(q.spot)
    BY <2>1 DEF UnreadableAbove, Notes
  <2>3. l.path \in ToSet(roots)
    BY <1>4
  <2>4. Kept(d, q.spot, q.real)
    BY <1>1, <2>1, <2>2, <2>3, Reached
  <2> QED BY <2>1, <2>4 DEF Kept, ToSet
<1>8. ASSUME NEW x \in DOMAIN d.order PROVE \E q \in Places(l.path) : q.real = d.order[x]
  <2>1. Holds(l.path, d.order[x])
    BY <1>1, <1>4, OrderIsHeld
  <2> QED BY <2>1 DEF Holds
<1>9. ToSet(d.order) = {q.real : q \in Places(l.path)}
  <2>1. \A b \in ToSet(d.order) : \E x \in DOMAIN d.order : b = d.order[x]
    BY DEF ToSet
  <2> QED BY <1>7, <1>8, <2>1
<1> QED BY <1>2, <1>3, <1>6, <1>9 DEF Skills, Listed

\* The folder that is listed next.
LEMMA ListedIs ==
  ASSUME AuditInv, Len(counts) < Len(locs)
  PROVE  /\ counts \in Seq(Nat) /\ Len(counts) \in Nat /\ Len(locs) \in Nat
         /\ Listed.exists => IsDir(EvalSymlinks(Listed.path))
<1>1. /\ counts \in Seq(Nat) /\ Len(counts) \in Nat /\ Len(locs) \in Nat
      /\ \A i \in 1..Len(locs) : FolderOK(locs[i])
  BY DEF AuditInv, Control, CommandOK, LocsOK
<1>2. PICK k : k = Len(counts) + 1
  OBVIOUS
<1>3. k \in 1..Len(locs)
  BY <1>1, <1>2
<1>4. FolderOK(Listed)
  BY <1>1, <1>2, <1>3 DEF Listed
<1> QED BY <1>1, <1>4 DEF FolderOK

\* Each step of a command keeps what it counted.
LEMMA CountsKeep ==
  ASSUME AuditInv, CountInv, [Next]_vars
  PROVE  CountInv'
<1>1. /\ CommandOK /\ WalkInv /\ Control
      /\ cmd.verb = "locations" => limits = DefaultLimits
      /\ at = "start" => counts = <<>>
      /\ at \in {"list", "count"} \/ Listing => CountedFrom(Len(counts))
      /\ Listing => Len(counts) = Len(locs)
      /\ at = "count" => /\ Len(counts) < Len(locs) /\ Listed.exists /\ roots = <<Listed.path>>
                         /\ walking \in {"on", "failed", "done"}
                         /\ WithinLimits => walking # "failed" /\ Unhindered(d, stack)
  BY DEF AuditInv, CountInv
<1>2. counts \in Seq(Nat) /\ locs \in Seq(ToSet(locs)) /\ Len(locs) \in Nat
  BY <1>1 DEF Control, CommandOK, LocsOK
<1>3. fs' = fs /\ cmd' = cmd /\ locs' = locs /\ limits' = limits
  BY DEF Next, vars, walkVars, same, Exit, RejectFlags, NoHome, RejectSelection, NoLocations, ChooseSingle, ChooseMany,
         RefuseSingle, ScanSingle, RefuseCard, Search, StartWalk, WalkOn, RefuseMany, ScanAll, CreateFails, WriteFails, Finish,
         ListLocations, ListMissing, OpenListed, CountOn, CountListed, ListDone, Exited,
         Walk, RootMissing, RootFile, RootDir, Link, SkipName, Prune, Descend, Leave, EndWalk
<1>4. (cmd.verb = "locations" => limits = DefaultLimits)'
  BY <1>1, <1>3
<1>5. ASSUME at' \notin {"start", "list", "count"}, ~Listing' PROVE CountInv'
  BY <1>4, <1>5 DEF CountInv
<1>6. CASE RejectFlags \/ NoHome \/ RejectSelection \/ NoLocations \/ RefuseSingle \/ RefuseCard \/ RefuseMany \/ CreateFails \/ WriteFails
  <2>1. at' = "exited" /\ exit' # 0
    BY <1>6 DEF RejectFlags, NoHome, RejectSelection, NoLocations, RefuseSingle, RefuseCard, RefuseMany, CreateFails, WriteFails, Exit
  <2> QED BY <1>5, <2>1 DEF Listing
<1>7. CASE Finish
  <2>1. at' = "exited" /\ cmd.verb = "scan"
    BY <1>1, <1>7 DEF Finish, Exit, Control, Reported
  <2> QED BY <1>3, <1>5, <2>1 DEF Listing
<1>8. CASE ChooseSingle \/ ChooseMany \/ ScanSingle \/ Search \/ WalkOn \/ ScanAll
  <2>1. at' \in {"single", "many", "write", "walk"}
    BY <1>8 DEF ChooseSingle, ChooseMany, ScanSingle, Search, WalkOn, ScanAll
  <2> QED BY <1>5, <2>1 DEF Listing
<1>9. CASE ListLocations
  <2>1. at = "start" /\ at' = "list" /\ counts' = counts /\ counts = <<>>
    BY <1>1, <1>9 DEF ListLocations, Started
  <2>2. CountedFrom(Len(counts))'
    <3>1. Len(counts') = 0 /\ Len(locs') \in Nat
      BY <1>2, <1>3, <2>1
    <3> QED BY <3>1 DEF CountedFrom
  <2> QED BY <1>4, <2>1, <2>2 DEF CountInv, Listing
<1>10. CASE ListMissing
  <2>1. at = "list" /\ at' = at /\ Len(counts) < Len(locs) /\ ~Listed.exists /\ counts' = Append(counts, 0)
    BY <1>10 DEF ListMissing
  <2>2. 0 = Skills(Len(counts) + 1)
    BY <2>1 DEF Skills, Listed
  <2>3. CountedFrom(Len(counts))
    BY <1>1, <2>1
  <2>4. 0 \in Nat
    OBVIOUS
  <2>5. CountedFrom(Len(counts))'
    BY ONLY <1>2, <1>3, <2>1, <2>2, <2>3, <2>4, OneMore
  <2> QED BY <1>4, <2>1, <2>5 DEF CountInv, Listing
<1>11. CASE OpenListed
  <2>1. /\ at = "list" /\ at' = "count" /\ Len(counts) < Len(locs) /\ Listed.exists
        /\ roots' = <<Listed.path>> /\ stack' = <<>> /\ d' = NewDiscoverer /\ walking' = "on" /\ counts' = counts
    BY <1>11 DEF OpenListed
  <2>2. Listed' = Listed /\ (CountedFrom(Len(counts)) => CountedFrom(Len(counts))')
    BY <1>3, <2>1, SameCounts
  <2>3. Unhindered(d', stack')
    <3>1. Unhindered(NewDiscoverer, <<>>)
      BY DEF Unhindered, NewDiscoverer, ToSet
    <3> QED BY <2>1, <3>1
  <2>4. Unhindered(d, stack)'
    BY <2>3, <1>3 DEF Unhindered
  <2> QED BY <1>1, <1>3, <1>4, <2>1, <2>2, <2>4 DEF CountInv, Listing
<1>12. CASE CountOn
  <2>1. at = "count" /\ Walk /\ at' = at /\ counts' = counts /\ exit' = exit
    BY <1>12 DEF CountOn
  <2>2. roots' = roots /\ walking' \in {"on", "failed", "done"}
    BY <1>1, <2>1 DEF Walk, RootMissing, RootFile, RootDir, Link, SkipName, Prune, Descend, Leave, EndWalk
  <2>3. Listed' = Listed /\ (CountedFrom(Len(counts)) => CountedFrom(Len(counts))')
    BY <1>3, <2>1, SameCounts
  <2>4. ASSUME WithinLimits PROVE walking' # "failed" /\ Unhindered(d', stack')
    <3>1. Numbers
      BY <1>1, <2>1, DefaultsAreNumbers DEF Numbers, Control
    <3>2. \A r \in ToSet(roots) : IsDir(EvalSymlinks(r))
      <4>1. IsDir(EvalSymlinks(Listed.path))
        BY <1>1, <2>1, ListedIs
      <4>2. ToSet(roots) = {Listed.path}
        BY <1>1, <2>1 DEF ToSet
      <4> QED BY <4>1, <4>2
    <3> QED BY <1>1, <2>1, <2>4, <3>1, <3>2, WalkFits
  <2>5. WithinLimits' => walking' # "failed" /\ Unhindered(d, stack)'
    BY <1>3, <2>4 DEF WithinLimits, Unhindered
  <2> QED BY <1>1, <1>3, <1>4, <2>1, <2>2, <2>3, <2>5 DEF CountInv, Listing
<1>13. CASE CountListed
  <2>1. at = "count" /\ at' = "list" /\ Len(counts) < Len(locs)
    BY <1>1, <1>13 DEF CountListed
  <2>2. PICK found, n : found \in Candidates /\ counts' = Append(counts, n) /\ n = IF walking = "done" THEN Len(found) ELSE 0
    BY <1>13 DEF CountListed
  <2>3. n \in Nat
    <3>1. CASE walking = "done"
      <4>1. fs \in FileSystems /\ roots \in Seq(Seq(Int)) /\ WalkOK(d, stack, turn)
        BY <1>1, <3>1 DEF WalkInv
      <4> QED BY <2>2, <3>1, <4>1, FoundSorted
    <3>2. CASE walking # "done"
      BY <2>2, <3>2
    <3> QED BY <3>1, <3>2
  <2>4. WithinLimits => n = Skills(Len(counts) + 1)
    <3>1. ASSUME WithinLimits PROVE walking = "done"
      BY <1>1, <1>13, <2>1, <3>1 DEF CountListed
    <3> QED BY <2>1, <2>2, <3>1, WalkCounts
  <2>5. CountedFrom(Len(counts))
    BY <1>1, <2>1
  <2>6. CountedFrom(Len(counts))'
    BY ONLY <1>2, <1>3, <2>1, <2>2, <2>3, <2>4, <2>5, OneMore
  <2> QED BY <1>4, <2>1, <2>6 DEF CountInv, Listing
<1>14. CASE ListDone
  <2>1. at = "list" /\ at' = "exited" /\ Len(counts) = Len(locs) /\ counts' = counts
    BY <1>14 DEF ListDone, Exit
  <2>2. CountedFrom(Len(counts)) => CountedFrom(Len(counts))'
    BY <1>3, <2>1, SameCounts
  <2> QED BY <1>1, <1>3, <1>4, <2>1, <2>2 DEF CountInv
<1>15. CASE UNCHANGED vars
  <2>1. /\ at' = at /\ counts' = counts /\ exit' = exit /\ roots' = roots /\ walking' = walking /\ d' = d /\ stack' = stack
    BY <1>15 DEF vars, walkVars
  <2>2. Listed' = Listed /\ (CountedFrom(Len(counts)) => CountedFrom(Len(counts))') /\ (Listing' <=> Listing)
    BY <1>3, <2>1, SameCounts DEF Listing
  <2>3. (WithinLimits' <=> WithinLimits) /\ (Unhindered(d, stack)' <=> Unhindered(d, stack))
    BY <1>3, <2>1 DEF WithinLimits, Unhindered
  <2> QED BY <1>1, <1>3, <1>4, <2>1, <2>2, <2>3 DEF CountInv
<1> QED BY <1>6, <1>7, <1>8, <1>9, <1>10, <1>11, <1>12, <1>13, <1>14, <1>15 DEF Next, Exited

\* Which agents a row names, for every tree, registry and command line: those that
\* read a folder holding its bundle, but for the two cases in which attributeAgents,
\* which compares paths by name, tells too many (a requested path in a folder by its
\* name alone) or may tell too few (a root behind a link). And `locations` lists the
\* folders that the agents read, each with the number of skills that a scan of it
\* would find.
THEOREM EachAgentHears == Spec => []EachAgentIsTold
<1>1. AuditInv /\ CountInv => EachAgentIsTold
  <2> SUFFICES ASSUME AuditInv, CountInv PROVE SkillsAreCounted
    BY ToldInv, ListedInv DEF EachAgentIsTold
  <2> SUFFICES ASSUME Listing, WithinLimits, NEW i \in DOMAIN locs PROVE counts[i] = Skills(i)
    BY DEF SkillsAreCounted, Skills
  <2>1. i \in 1..Len(counts)
    BY DEF CountInv, AuditInv, CommandOK, LocsOK
  <2> QED BY <2>1 DEF CountInv, CountedFrom
<1>2. Init => CountInv
  BY DEF Init, CountInv, Listing
<1>3. AuditInv /\ CountInv /\ [Next]_vars => CountInv'
  BY CountsKeep
<1> QED BY <1>1, <1>2, <1>3, AuditInvariant, PTL DEF Spec
=============================================================================
