----------------------------- MODULE MerkleTree -----------------------------
(***************************************************************************)
(* The two hash trees surfaceguard relies on: the SGMT-1 tree over a       *)
(* bundle's files (pkg/attest/merkle.go), built level by level, and the    *)
(* RFC 6962 tree of a transparency log, of which pkg/attest/oms/tlog.go    *)
(* only ever sees one leaf, one path and one root.                         *)
(*                                                                         *)
(* SHA-256 is a free constructor: a hash is the tuple of what was hashed,  *)
(* so two hashes are equal exactly when their inputs are. A leaf's input   *)
(* is a non-empty sequence; NoDigest stands for bytes of another length.   *)
(***************************************************************************)
EXTENDS Integers, Sequences

NoDigest == << >>

\* leafHash, TlogEntry.LeafHash: the 0x00 prefix and the leaf's content.
LeafHash(body) == <<0>> \o body

\* interiorHash, hashChildren: the 0x01 prefix and the two children.
HashChildren(left, right) == <<1, left, right>>

-----------------------------------------------------------------------------
\* Mutant: an odd node is paired with itself.
LevelAboveDoubled(level) ==
  [i \in 1..((Len(level) + 1) \div 2) |->
     HashChildren(level[2 * i - 1],
                  IF 2 * i > Len(level) THEN level[2 * i - 1] ELSE level[2 * i])]

\* The body of MerkleRoot's loop: neighbours are paired, an odd node is
\* promoted unchanged.
LevelAbove(level) ==
  [i \in 1..((Len(level) + 1) \div 2) |->
     IF 2 * i > Len(level) THEN level[2 * i - 1]
     ELSE HashChildren(level[2 * i - 1], level[2 * i])]

LeafHashes(leaves, n) == [i \in 1..n |-> LeafHash(leaves[i])]

\* The levels of the tree, the leaf hashes first.
Levels(leaves) ==
  LET level[h \in 0..Len(leaves)] ==
        IF h = 0 THEN LeafHashes(leaves, Len(leaves)) ELSE LevelAbove(level[h - 1])
  IN level

\* MerkleRoot of a non-empty sequence of leaves: one level above another, until
\* one node is left.
MerkleRoot(leaves) ==
  LET level == Levels(leaves)
      height == CHOOSE h \in 0..Len(leaves) :
                  Len(level[h]) = 1 /\ \A g \in 0..(h - 1) : Len(level[g]) > 1
  IN level[height][1]

-----------------------------------------------------------------------------
(***************************************************************************)
(* The log's side, by RFC 6962's own recursion: the hash of the nodes      *)
(* lo+1..hi of a level, and the audit path of leaf m (counted from 0) in a *)
(* tree of the first n leaves.                                             *)
(***************************************************************************)
\* The largest power of two smaller than n.
Split(n) == CHOOSE k \in {2^e : e \in 0..n} : k < n /\ n <= 2 * k

Subtrees(level) ==
  LET n == Len(level)
      hash[r \in (0..n) \X (0..n)] ==
        LET lo == r[1]  hi == r[2]  k == Split(hi - lo)
        IN IF hi - lo <= 1 THEN level[hi]
           ELSE HashChildren(hash[<<lo, lo + k>>], hash[<<lo + k, hi>>])
  IN hash

TreeHash(leaves, n) == Subtrees(LeafHashes(leaves, n))[<<0, n>>]

\* The paths from node m + 1 of a level up to the subtrees that hold it.
PathsUp(level, m) ==
  LET n == Len(level)
      hash == Subtrees(level)
      path[r \in (0..n) \X (0..n)] ==
        LET lo == r[1]  hi == r[2]  k == Split(hi - lo)
        IN IF hi - lo <= 1 THEN << >>
           ELSE IF m < lo + k THEN Append(path[<<lo, lo + k>>], hash[<<lo + k, hi>>])
           ELSE Append(path[<<lo + k, hi>>], hash[<<lo, lo + k>>])
  IN path

AuditPath(leaves, m, n) == PathsUp(LeafHashes(leaves, n), m)[<<0, n>>]

-----------------------------------------------------------------------------
(***************************************************************************)
(* The bundle's side. An inclusion proof is [index, size, root, hashes].   *)
(***************************************************************************)
Bit(n, i) == (n \div 2^i) % 2

\* bits.Len64(index XOR (size - 1)): how many low bits the two differ within.
Inner(index, size) ==
  CHOOSE i \in 0..size :
    /\ index \div 2^i = (size - 1) \div 2^i
    /\ \A j \in 0..(i - 1) : index \div 2^j # (size - 1) \div 2^j

Ones(n) ==
  LET ones[i \in 0..n] == IF i = 0 THEN 0 ELSE ones[i \div 2] + (i % 2)
  IN ones
OnesCount(n) == Ones(n)[n]

\* bits.OnesCount64(index >> inner): the border hashes, one for each subtree
\* wholly to the left.
Border(index, size) == OnesCount(index \div 2^Inner(index, size))

\* What rootFromInclusionProof refuses to compute on.
WellFormedProof(p) ==
  /\ p.size > 0 /\ p.index \in 0..(p.size - 1)
  /\ Len(p.hashes) = Inner(p.index, p.size) + Border(p.index, p.size)
  /\ \A i \in DOMAIN p.hashes : p.hashes[i] # NoDigest

\* Mutant: the border is folded by the bits of the index as well.
RootFromInclusionProofByBits(leaf, p) ==
  LET up[i \in 0..Len(p.hashes)] ==
        IF i = 0 THEN leaf
        ELSE IF Bit(p.index, i - 1) = 0 THEN HashChildren(up[i - 1], p.hashes[i])
        ELSE HashChildren(p.hashes[i], up[i - 1])
  IN up[Len(p.hashes)]

\* rootFromInclusionProof: fold the inner hashes to the side the index's bits
\* say, and the border hashes to the left.
Folded(leaf, p) ==
  LET up[i \in 0..Len(p.hashes)] ==
        IF i = 0 THEN leaf
        ELSE IF i <= Inner(p.index, p.size) /\ Bit(p.index, i - 1) = 0
        THEN HashChildren(up[i - 1], p.hashes[i])
        ELSE HashChildren(p.hashes[i], up[i - 1])
  IN up
RootFromInclusionProof(leaf, p) == Folded(leaf, p)[Len(p.hashes)]

\* TlogEntry.VerifyInclusion for an entry that carries a proof.
VerifyInclusion(body, p) ==
  /\ WellFormedProof(p)
  /\ RootFromInclusionProof(LeafHash(body), p) = p.root

\* The proof an honest log gives for its leaf m when it has n.
HonestProof(leaves, m, n) ==
  [index |-> m, size |-> n, root |-> TreeHash(leaves, n), hashes |-> AuditPath(leaves, m, n)]

-----------------------------------------------------------------------------
(***************************************************************************)
(* What the two trees promise, up to max leaves.                           *)
(***************************************************************************)
LeafSequences(max) == UNION {[1..n -> {<<1>>, <<2>>}] : n \in 1..max}

RootsNameLeaves(max) ==
  LET root == [s \in LeafSequences(max) |-> MerkleRoot(s)]
  IN /\ \A s, u \in LeafSequences(max) : root[s] = root[u] => s = u
     /\ \A s \in LeafSequences(max) : root[s] = TreeHash(s, Len(s))

\* A log of n distinct leaves, and what a signature file may offer as evidence:
\* every audit path of every smaller log, whole or without its last hash; for
\* its own leaves, a leaf of no log, and bodies that read like an interior node.
SampleLog(n) == [i \in 1..n |-> <<i + 1>>]
Paths(n) ==
  {AuditPath(SampleLog(n), r[1], r[2]) : r \in {x \in (0..(n - 1)) \X (1..n) : x[1] < x[2]}}
OfferedPaths(n) == Paths(n) \cup {SubSeq(p, 1, Len(p) - 1) : p \in {q \in Paths(n) : q # << >>}}
OfferedBodies(n) ==
  {<<i + 1>> : i \in 1..(n + 1)}
  \cup {h \in UNION {{p[i] : i \in DOMAIN p} : p \in Paths(n)} : h[1] = 1}

ProofsHold(max) ==
  \A n \in 1..max :
    LET log == SampleLog(n)  root == TreeHash(log, n)
    IN /\ \A m \in 0..(n - 1) : VerifyInclusion(log[m + 1], HonestProof(log, m, n))
       /\ \A m \in 0..n, hashes \in OfferedPaths(n), body \in OfferedBodies(n) :
            VerifyInclusion(body, [index |-> m, size |-> n, root |-> root, hashes |-> hashes])
              => m < n /\ body = log[m + 1]
=============================================================================
