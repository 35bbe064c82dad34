---------------------------- MODULE MerkleProofs ----------------------------
(***************************************************************************)
(* What the functions of internal/merkle compute, for trees of every size: *)
(* the proofs the prover side builds are accepted, and nothing else is.    *)
(* Each recursive function is first shown to satisfy its own equation (by  *)
(* module Recursion); the claims about trees then go by induction on the   *)
(* size of the tree, with a set of sizes in place of a predicate.          *)
(***************************************************************************)
EXTENDS Merkle, SequenceTheorems, TLAPS

-----------------------------------------------------------------------------
(* Sizes: the power of two at which a tree of n leaves is split.           *)

PowerBody(p, f, n) == IF n <= 1 THEN 1 ELSE 2 * f[(n + 1) \div 2]

Power == INSTANCE Recursion WITH Def <- PowerBody

(* PowerAtLeast satisfies its equation.                                    *)
LEMMA PowerEquation ==
    \A n \in Nat : PowerAtLeast[n] =
        IF n <= 1 THEN 1 ELSE 2 * PowerAtLeast[(n + 1) \div 2]
<1> DEFINE p == 0
           D == Nat
           rank == [n \in D |-> n]
<1>1. rank \in [D -> Nat]
  OBVIOUS
<1>2. \A g, h : \A n \in D :
          (\A y \in D : rank[y] < rank[n] => g[y] = h[y])
              => PowerBody(p, g, n) = PowerBody(p, h, n)
  <2> SUFFICES ASSUME NEW g, NEW h, NEW n \in D,
                      \A y \in D : rank[y] < rank[n] => g[y] = h[y]
               PROVE  PowerBody(p, g, n) = PowerBody(p, h, n)
    OBVIOUS
  <2>1. CASE n <= 1
    BY <2>1 DEF PowerBody
  <2>2. CASE ~ (n <= 1)
    <3>1. (n + 1) \div 2 \in Nat /\ (n + 1) \div 2 < n
      BY <2>2
    <3>2. g[(n + 1) \div 2] = h[(n + 1) \div 2]
      BY <3>1
    <3> QED
      BY <2>2, <3>2 DEF PowerBody
  <2> QED
    BY <2>1, <2>2
<1> HIDE DEF p, D, rank
<1>3. \E f : f = [n \in D |-> PowerBody(p, f, n)]
  BY <1>1, <1>2, Power!RecursionHasSolution
<1>4. PowerAtLeast = [n \in Nat |-> PowerBody(p, PowerAtLeast, n)]
  BY <1>3 DEF D, PowerAtLeast, PowerBody
<1> HIDE DEF PowerAtLeast
<1>5. \A n \in Nat : PowerAtLeast[n] = PowerBody(p, PowerAtLeast, n)
  BY <1>4
<1> QED
  BY <1>5 DEF PowerBody

(* The power is at least n, and below 2n: at most 2(n - 1) from 2 on.      *)
LEMMA PowerBounds ==
    \A n \in Nat : /\ PowerAtLeast[n] \in Nat
                   /\ PowerAtLeast[n] >= 1
                   /\ PowerAtLeast[n] >= n
                   /\ n >= 2 => PowerAtLeast[n] <= 2 * (n - 1)
<1> DEFINE T == {n \in Nat : /\ PowerAtLeast[n] \in Nat
                             /\ PowerAtLeast[n] >= 1
                             /\ PowerAtLeast[n] >= n
                             /\ n >= 2 => PowerAtLeast[n] <= 2 * (n - 1)}
<1>1. ASSUME NEW n \in Nat, \A m \in Nat : m < n => m \in T
      PROVE  n \in T
  <2>1. CASE n <= 1
    BY <2>1, PowerEquation
  <2>2. CASE ~ (n <= 1)
    <3> DEFINE m == (n + 1) \div 2
    <3>1. m \in Nat /\ m < n /\ m >= 1 /\ 2 * m >= n /\ 2 * m <= n + 1
      BY <2>2
    <3>2. PowerAtLeast[n] = 2 * PowerAtLeast[m]
      BY <2>2, PowerEquation
    <3>3. m \in T
      BY <3>1, <1>1
    <3> HIDE DEF m
    <3>4. CASE m = 1
      <4>1. n = 2 /\ PowerAtLeast[1] = 1
        BY <2>2, <3>1, <3>4, PowerEquation
      <4> QED
        BY <4>1, <3>2, <3>4
    <3>5. CASE m # 1
      BY <2>2, <3>1, <3>2, <3>3, <3>5
    <3> QED
      BY <3>4, <3>5
  <2> QED
    BY <2>1, <2>2
<1> HIDE DEF T
<1>2. \A n \in Nat : n \in T
  BY <1>1, Power!StrongInduction
<1> QED
  BY <1>2 DEF T

(* A tree of two leaves or more is split into two trees that are not empty.*)
LEMMA SplitBounds ==
    ASSUME NEW n \in Nat, n >= 2
    PROVE  /\ SplitPoint(n) \in Nat
           /\ 1 <= SplitPoint(n)
           /\ SplitPoint(n) < n
           /\ PowerAtLeast[n] = 2 * SplitPoint(n)
           /\ SplitPoint(n) = PowerAtLeast[(n + 1) \div 2]
<1> DEFINE m == (n + 1) \div 2
<1>1. m \in Nat
  OBVIOUS
<1>2. PowerAtLeast[n] = 2 * PowerAtLeast[m]
  BY PowerEquation
<1>3. /\ PowerAtLeast[m] \in Nat
      /\ PowerAtLeast[m] >= 1
  BY <1>1, PowerBounds
<1>4. PowerAtLeast[n] <= 2 * (n - 1)
  BY PowerBounds
<1> HIDE DEF m
<1>5. SplitPoint(n) = PowerAtLeast[m]
  BY <1>2, <1>3 DEF SplitPoint
<1> QED
  BY <1>2, <1>3, <1>4, <1>5 DEF m

LEMMA SplitOfSingle == SplitPoint(1) = 0
BY PowerEquation DEF SplitPoint

(* A tree that reaches beyond the split of a larger one is split at the    *)
(* same place: why the left subtree of the old tree is that of the new one.*)
LEMMA SplitStable ==
    ASSUME NEW n \in Nat, NEW m \in Nat,
           n >= 2, SplitPoint(n) < m, m <= n
    PROVE  SplitPoint(m) = SplitPoint(n)
<1> DEFINE T == {a \in Nat : \A b \in Nat :
                   a >= 2 /\ SplitPoint(a) < b /\ b <= a
                       => PowerAtLeast[b] = PowerAtLeast[a]}
<1>1. ASSUME NEW a \in Nat, \A c \in Nat : c < a => c \in T
      PROVE  a \in T
  <2> SUFFICES ASSUME NEW b \in Nat, a >= 2, SplitPoint(a) < b, b <= a
               PROVE  PowerAtLeast[b] = PowerAtLeast[a]
    OBVIOUS
  <2> DEFINE c == (a + 1) \div 2
             d == (b + 1) \div 2
  <2>1. /\ SplitPoint(a) = PowerAtLeast[c]
        /\ PowerAtLeast[a] = 2 * PowerAtLeast[c]
        /\ SplitPoint(a) \in Nat
        /\ SplitPoint(a) >= 1
    BY SplitBounds
  <2>2. b >= 2
    BY <2>1
  <2>3. PowerAtLeast[b] = 2 * PowerAtLeast[d]
    BY <2>2, PowerEquation
  <2>4. /\ c \in Nat /\ d \in Nat /\ d <= c /\ c < a /\ 1 <= d
        /\ 2 * d >= b
    BY <2>2
  <2> HIDE DEF c, d
  <2>5. CASE c <= 1
    BY <2>5, <2>4, <2>1, <2>3
  <2>6. CASE ~ (c <= 1)
    <3>1. PowerAtLeast[c] = 2 * SplitPoint(c) /\ SplitPoint(c) \in Nat
      BY <2>4, <2>6, SplitBounds
    <3>2. SplitPoint(c) < d
      BY <3>1, <2>1, <2>4
    <3>3. c \in T
      BY <2>4, <1>1
    <3>4. PowerAtLeast[d] = PowerAtLeast[c]
      BY <3>2, <3>3, <2>4, <2>6
    <3> QED
      BY <3>4, <2>1, <2>3
  <2> QED
    BY <2>5, <2>6, <2>4
<1> HIDE DEF T
<1>2. \A a \in Nat : a \in T
  BY <1>1, Power!StrongInduction
<1>3. PowerAtLeast[m] = PowerAtLeast[n]
  BY <1>2 DEF T
<1> QED
  BY <1>3 DEF SplitPoint

-----------------------------------------------------------------------------
(* Hashes, as terms: injective, and no leaf is an internal node.           *)

LEMMA InternalInjective ==
    ASSUME NEW a, NEW b, NEW c, NEW d, HashInternal(a, b) = HashInternal(c, d)
    PROVE  a = c /\ b = d
BY DEF HashInternal

LEMMA LeafInjective ==
    ASSUME NEW a, NEW b, HashLeaf(a) = HashLeaf(b)
    PROVE  a = b
BY DEF HashLeaf

LEMMA LeafIsNotInternal ==
    ASSUME NEW a, NEW b, NEW c
    PROVE  HashLeaf(a) # HashInternal(b, c)
<1>1. HashLeaf(a)[1] = "leaf" /\ HashInternal(b, c)[1] = "node"
  BY DEF HashLeaf, HashInternal
<1> QED
  BY <1>1

-----------------------------------------------------------------------------
(* Subtrees.                                                               *)

(* The length of a slice, below which its subtrees are looked up.          *)
SliceRank == [r \in Slices |-> r[2] - r[1]]

LEMMA SliceFacts ==
    /\ SliceRank \in [Slices -> Nat]
    /\ \A l, h \in Nat : l < h => /\ <<l, h>> \in Slices
                                  /\ SliceRank[<<l, h>>] = h - l
    /\ \A r \in Slices : /\ r[1] \in Nat
                         /\ r[2] \in Nat
                         /\ r[1] < r[2]
                         /\ r = <<r[1], r[2]>>
                         /\ SliceRank[r] = r[2] - r[1]
BY DEF SliceRank, Slices

(* The two halves of a slice of two leaves or more are shorter slices.     *)
LEMMA HalvesAreSlices ==
    ASSUME NEW l \in Nat, NEW h \in Nat, l < h, h - l # 1
    PROVE  LET mid == l + SplitPoint(h - l)
           IN  /\ mid \in Nat /\ l < mid /\ mid < h
               /\ <<l, mid>> \in Slices
               /\ SliceRank[<<l, mid>>] < SliceRank[<<l, h>>]
               /\ <<mid, h>> \in Slices
               /\ SliceRank[<<mid, h>>] < SliceRank[<<l, h>>]
<1> DEFINE k == SplitPoint(h - l)
<1>1. h - l \in Nat /\ h - l >= 2
  OBVIOUS
<1>2. k \in Nat /\ 1 <= k /\ k < h - l
  BY <1>1, SplitBounds
<1> HIDE DEF k
<1>3. l + k \in Nat /\ l < l + k /\ l + k < h
  BY <1>2
<1> QED
  BY <1>3, SliceFacts DEF k

SubtreeBody(leaves, sub, r) ==
    LET l == r[1]
        h == r[2]
        mid == l + SplitPoint(h - l)
    IN  IF h - l = 1
        THEN leaves[h]
        ELSE HashInternal(sub[<<l, mid>>], sub[<<mid, h>>])

Subtree == INSTANCE Recursion WITH Def <- SubtreeBody

(* buildSubtree: a single leaf is itself, anything longer is the node over *)
(* the subtrees of its two halves.                                         *)
LEMMA SubtreeEquation ==
    ASSUME NEW leaves, NEW l \in Nat, NEW h \in Nat, l < h
    PROVE  /\ h - l = 1 => BuildSubtree(leaves, l, h) = leaves[h]
           /\ h - l # 1 =>
                LET mid == l + SplitPoint(h - l)
                IN  BuildSubtree(leaves, l, h) =
                      HashInternal(BuildSubtree(leaves, l, mid),
                                   BuildSubtree(leaves, mid, h))
<1> DEFINE D == Slices
           rank == SliceRank
           sub == CHOOSE f : f = [r \in D |-> SubtreeBody(leaves, f, r)]
<1>1. rank \in [D -> Nat]
  BY SliceFacts
<1>2. \A f, g : \A r \in D :
          (\A y \in D : rank[y] < rank[r] => f[y] = g[y])
              => SubtreeBody(leaves, f, r) = SubtreeBody(leaves, g, r)
  <2> SUFFICES ASSUME NEW f, NEW g, NEW r \in D,
                      \A y \in D : rank[y] < rank[r] => f[y] = g[y]
               PROVE  SubtreeBody(leaves, f, r) = SubtreeBody(leaves, g, r)
    OBVIOUS
  <2> DEFINE mid == r[1] + SplitPoint(r[2] - r[1])
  <2>1. CASE r[2] - r[1] = 1
    BY <2>1 DEF SubtreeBody
  <2>2. CASE r[2] - r[1] # 1
    <3>1. f[<<r[1], mid>>] = g[<<r[1], mid>>] /\ f[<<mid, r[2]>>] = g[<<mid, r[2]>>]
      BY <2>2, HalvesAreSlices, SliceFacts
    <3> QED
      BY <2>2, <3>1 DEF SubtreeBody
  <2> QED
    BY <2>1, <2>2
<1> HIDE DEF D, rank
<1>3. \E f : f = [r \in D |-> SubtreeBody(leaves, f, r)]
  BY <1>1, <1>2, Subtree!RecursionHasSolution
<1>4. sub = [r \in D |-> SubtreeBody(leaves, sub, r)]
  BY <1>3
<1>5. \A a, b : BuildSubtree(leaves, a, b) = sub[<<a, b>>]
  BY DEF BuildSubtree, SubtreeBody, D
<1> HIDE DEF sub
<1>6. sub[<<l, h>>] = SubtreeBody(leaves, sub, <<l, h>>)
  BY <1>4, SliceFacts DEF D
<1> QED
  BY <1>5, <1>6 DEF SubtreeBody

(* The same, for a slice given by where it starts and how long it is.      *)
LEMMA SubtreeSplit ==
    ASSUME NEW leaves, NEW l \in Nat, NEW n \in Nat
    PROVE  /\ n = 1 => BuildSubtree(leaves, l, l + n) = leaves[l + 1]
           /\ n >= 2 => BuildSubtree(leaves, l, l + n) =
                          HashInternal(BuildSubtree(leaves, l, l + SplitPoint(n)),
                                       BuildSubtree(leaves, l + SplitPoint(n), l + n))
<1> DEFINE h == l + n
<1>1. ASSUME n >= 1
      PROVE  h \in Nat /\ l < h /\ h - l = n
  BY <1>1
<1> HIDE DEF h
<1>2. CASE n = 1
  <2>1. BuildSubtree(leaves, l, h) = leaves[h]
    BY <1>1, <1>2, SubtreeEquation
  <2> QED
    BY <1>2, <2>1 DEF h
<1>3. CASE n >= 2
  <2>1. h - l = n /\ h - l # 1 /\ h \in Nat /\ l < h
    BY <1>1, <1>3
  <2>2. BuildSubtree(leaves, l, h) =
          HashInternal(BuildSubtree(leaves, l, l + SplitPoint(h - l)),
                       BuildSubtree(leaves, l + SplitPoint(h - l), h))
    BY <2>1, SubtreeEquation
  <2> QED
    BY <1>3, <2>1, <2>2 DEF h
<1> QED
  BY <1>2, <1>3

(* leaves[l:h] and others[o:o+h-l] hold the same hashes.                   *)
SameLeaves(leaves, l, others, o, n) ==
    \A i \in 1 .. n : leaves[l + i] = others[o + i]

(* A subtree is a function of its own leaves.                              *)
LEMMA SubtreeOfSameLeaves ==
    ASSUME NEW leaves, NEW others, NEW l \in Nat, NEW o \in Nat,
           NEW n \in Nat, n >= 1, SameLeaves(leaves, l, others, o, n)
    PROVE  BuildSubtree(leaves, l, l + n) = BuildSubtree(others, o, o + n)
<1> DEFINE Holds(a, b, m) ==
              SameLeaves(leaves, a, others, b, m) =>
                  BuildSubtree(leaves, a, a + m) = BuildSubtree(others, b, b + m)
           T == {m \in Nat : m >= 1 => \A a, b \in Nat : Holds(a, b, m)}
<1>1. ASSUME NEW m \in Nat, \A j \in Nat : j < m => j \in T
      PROVE  m \in T
  <2> SUFFICES ASSUME m >= 1, NEW a \in Nat, NEW b \in Nat,
                      SameLeaves(leaves, a, others, b, m)
               PROVE  BuildSubtree(leaves, a, a + m) = BuildSubtree(others, b, b + m)
    OBVIOUS
  <2>1. CASE m = 1
    <3>1. /\ BuildSubtree(leaves, a, a + 1) = leaves[a + 1]
          /\ BuildSubtree(others, b, b + 1) = others[b + 1]
      BY <2>1, SubtreeSplit
    <3> QED
      BY <2>1, <3>1 DEF SameLeaves
  <2>2. CASE m # 1
    <3> DEFINE k == SplitPoint(m)
    <3>0. m >= 2
      BY <2>2
    <3>1. k \in Nat /\ 1 <= k /\ k < m
      BY <3>0, SplitBounds
    <3>2. /\ BuildSubtree(leaves, a, a + m) =
               HashInternal(BuildSubtree(leaves, a, a + k),
                            BuildSubtree(leaves, a + k, a + m))
          /\ BuildSubtree(others, b, b + m) =
               HashInternal(BuildSubtree(others, b, b + k),
                            BuildSubtree(others, b + k, b + m))
      BY <3>0, SubtreeSplit
    <3> HIDE DEF k
    <3>3. /\ m - k \in Nat /\ m - k >= 1 /\ m - k < m
          /\ a + k \in Nat /\ (a + k) + (m - k) = a + m
          /\ b + k \in Nat /\ (b + k) + (m - k) = b + m
      BY <3>1
    <3>4. BuildSubtree(leaves, a, a + k) = BuildSubtree(others, b, b + k)
      <4>1. SameLeaves(leaves, a, others, b, k)
        BY <3>1 DEF SameLeaves
      <4>2. k \in T
        BY <3>1, <1>1
      <4> QED
        BY <4>1, <4>2, <3>1
    <3>5. BuildSubtree(leaves, a + k, a + m) = BuildSubtree(others, b + k, b + m)
      <4>1. SameLeaves(leaves, a + k, others, b + k, m - k)
        <5> SUFFICES ASSUME NEW i \in 1 .. (m - k)
                     PROVE  leaves[a + k + i] = others[b + k + i]
          BY DEF SameLeaves
        <5>1. /\ k + i \in 1 .. m
              /\ a + k + i = a + (k + i)
              /\ b + k + i = b + (k + i)
          BY <3>1
        <5> QED
          BY <5>1 DEF SameLeaves
      <4>2. m - k \in T
        BY <3>3, <1>1
      <4>3. Holds(a + k, b + k, m - k)
        BY <4>2, <3>3
      <4> QED
        BY <4>1, <4>3, <3>3
    <3> QED
      BY <3>2, <3>4, <3>5
  <2> QED
    BY <2>1, <2>2
<1> HIDE DEF T
<1>2. \A m \in Nat : m \in T
  BY <1>1, Power!StrongInduction
<1> QED
  BY <1>2 DEF T

(* leaves[l:l+n] holds leaf hashes only.                                   *)
LeafHashes(leaves, l, n) ==
    \A i \in 1 .. n : \E data : leaves[l + i] = HashLeaf(data)

(* A single leaf has a leaf hash, anything longer has an internal one.     *)
LEMMA SingleLeafHash ==
    ASSUME NEW leaves, NEW l \in Nat, LeafHashes(leaves, l, 1)
    PROVE  \E data : /\ BuildSubtree(leaves, l, l + 1) = HashLeaf(data)
                     /\ leaves[l + 1] = HashLeaf(data)
<1>1. BuildSubtree(leaves, l, l + 1) = leaves[l + 1]
  BY SubtreeSplit
<1> QED
  BY <1>1 DEF LeafHashes

LEMMA SubtreeIsNoLeaf ==
    ASSUME NEW leaves, NEW l \in Nat, NEW n \in Nat, n >= 2, NEW data
    PROVE  BuildSubtree(leaves, l, l + n) # HashLeaf(data)
<1>1. BuildSubtree(leaves, l, l + n) =
        HashInternal(BuildSubtree(leaves, l, l + SplitPoint(n)),
                     BuildSubtree(leaves, l + SplitPoint(n), l + n))
  BY SubtreeSplit
<1> QED
  BY <1>1, LeafIsNotInternal

(* Trees with one root have the same leaves, the same number of them       *)
(* included: the split is not part of the hash, but it can be told from    *)
(* the sizes of the halves.                                                *)
LEMMA SubtreeDeterminesLeaves ==
    ASSUME NEW leaves, NEW others, NEW l \in Nat, NEW o \in Nat,
           NEW n \in Nat, n >= 1, LeafHashes(leaves, l, n),
           NEW m \in Nat, m >= 1, LeafHashes(others, o, m),
           BuildSubtree(leaves, l, l + n) = BuildSubtree(others, o, o + m)
    PROVE  n = m /\ SameLeaves(leaves, l, others, o, n)
<1> DEFINE Holds(a, b, i, j) ==
              /\ j >= 1
              /\ LeafHashes(leaves, a, i)
              /\ LeafHashes(others, b, j)
              /\ BuildSubtree(leaves, a, a + i) = BuildSubtree(others, b, b + j)
              => i = j /\ SameLeaves(leaves, a, others, b, i)
           T == {i \in Nat : i >= 1 => \A a, b, j \in Nat : Holds(a, b, i, j)}
<1>1. ASSUME NEW i \in Nat, \A k \in Nat : k < i => k \in T
      PROVE  i \in T
  <2> SUFFICES ASSUME i >= 1, NEW a \in Nat, NEW b \in Nat, NEW j \in Nat,
                      j >= 1,
                      LeafHashes(leaves, a, i),
                      LeafHashes(others, b, j),
                      BuildSubtree(leaves, a, a + i) = BuildSubtree(others, b, b + j)
               PROVE  i = j /\ SameLeaves(leaves, a, others, b, i)
    OBVIOUS
  <2>1. CASE i = 1
    <3>1. PICK x : /\ BuildSubtree(leaves, a, a + 1) = HashLeaf(x)
                   /\ leaves[a + 1] = HashLeaf(x)
      BY <2>1, SingleLeafHash
    <3>2. j = 1
      <4>1. BuildSubtree(others, b, b + j) = HashLeaf(x)
        BY <2>1, <3>1
      <4> QED
        BY <4>1, SubtreeIsNoLeaf
    <3>3. PICK y : /\ BuildSubtree(others, b, b + 1) = HashLeaf(y)
                   /\ others[b + 1] = HashLeaf(y)
      BY <3>2, SingleLeafHash
    <3>4. leaves[a + 1] = others[b + 1]
      BY <2>1, <3>1, <3>2, <3>3
    <3> QED
      BY <2>1, <3>2, <3>4 DEF SameLeaves
  <2>2. CASE i # 1
    <3>0. i >= 2
      BY <2>2
    <3>1. j # 1
      <4> SUFFICES ASSUME j = 1
                   PROVE  FALSE
        OBVIOUS
      <4>1. PICK y : BuildSubtree(others, b, b + 1) = HashLeaf(y)
        BY SingleLeafHash
      <4> QED
        BY <3>0, <4>1, SubtreeIsNoLeaf
    <3>2. j >= 2
      BY <3>1
    <3> DEFINE k == SplitPoint(i)
               q == SplitPoint(j)
    <3>3. /\ k \in Nat /\ 1 <= k /\ k < i
          /\ q \in Nat /\ 1 <= q /\ q < j
      BY <3>0, <3>2, SplitBounds
    <3>4. BuildSubtree(leaves, a, a + i) =
               HashInternal(BuildSubtree(leaves, a, a + k),
                            BuildSubtree(leaves, a + k, a + i))
      BY <3>0, SubtreeSplit, ZenonT(60)
    <3>5. BuildSubtree(others, b, b + j) =
               HashInternal(BuildSubtree(others, b, b + q),
                            BuildSubtree(others, b + q, b + j))
      BY <3>2, SubtreeSplit, ZenonT(60)
    <3> HIDE DEF k, q
    <3>6. /\ BuildSubtree(leaves, a, a + k) = BuildSubtree(others, b, b + q)
          /\ BuildSubtree(leaves, a + k, a + i) = BuildSubtree(others, b + q, b + j)
      BY <3>4, <3>5, InternalInjective
    <3>7. /\ i - k \in Nat /\ i - k >= 1 /\ i - k < i
          /\ a + k \in Nat /\ (a + k) + (i - k) = a + i
          /\ j - q \in Nat /\ j - q >= 1
          /\ b + q \in Nat /\ (b + q) + (j - q) = b + j
      BY <3>3
    <3>8. k = q /\ SameLeaves(leaves, a, others, b, k)
      <4>1. LeafHashes(leaves, a, k) /\ LeafHashes(others, b, q)
        BY <3>3 DEF LeafHashes
      <4>2. k \in T
        BY <3>3, <1>1
      <4>3. Holds(a, b, k, q)
        BY <4>2, <3>3
      <4> QED
        BY <4>1, <4>3, <3>3, <3>6
    <3>9. i - k = j - q /\ SameLeaves(leaves, a + k, others, b + q, i - k)
      <4>1. LeafHashes(leaves, a + k, i - k)
        <5> SUFFICES ASSUME NEW x \in 1 .. (i - k)
                     PROVE  \E data : leaves[a + k + x] = HashLeaf(data)
          BY DEF LeafHashes
        <5>1. k + x \in 1 .. i /\ a + k + x = a + (k + x)
          BY <3>3
        <5> QED
          BY <5>1 DEF LeafHashes
      <4>2. LeafHashes(others, b + q, j - q)
        <5> SUFFICES ASSUME NEW x \in 1 .. (j - q)
                     PROVE  \E data : others[b + q + x] = HashLeaf(data)
          BY DEF LeafHashes
        <5>1. q + x \in 1 .. j /\ b + q + x = b + (q + x)
          BY <3>3
        <5> QED
          BY <5>1 DEF LeafHashes
      <4>3. i - k \in T
        BY <3>7, <1>1
      <4>4. Holds(a + k, b + q, i - k, j - q)
        BY <4>3, <3>7
      <4> QED
        BY <4>1, <4>2, <4>4, <3>6, <3>7
    <3>10. i = j
      BY <3>3, <3>8, <3>9
    <3>11. ASSUME NEW x \in 1 .. i
           PROVE  leaves[a + x] = others[b + x]
      <4>1. CASE x <= k
        BY <4>1, <3>3, <3>8 DEF SameLeaves
      <4>2. CASE ~ (x <= k)
        <5>1. /\ x - k \in 1 .. (i - k)
              /\ (a + k) + (x - k) = a + x
              /\ (b + k) + (x - k) = b + x
          BY <4>2, <3>3
        <5>2. leaves[(a + k) + (x - k)] = others[(b + q) + (x - k)]
          BY <5>1, <3>9 DEF SameLeaves
        <5> QED
          BY <5>1, <5>2, <3>8
      <4> QED
        BY <4>1, <4>2
    <3> QED
      BY <3>10, <3>11 DEF SameLeaves
  <2> QED
    BY <2>1, <2>2
<1> HIDE DEF T
<1>2. \A i \in Nat : i \in T
  BY <1>1, Power!StrongInduction
<1>3. Holds(l, o, n, m)
  BY <1>2 DEF T
<1> QED
  BY <1>3

-----------------------------------------------------------------------------
(* The audit path of a leaf.                                               *)

PathBody(p, path, r) ==
    LET leaves == p[1]
        index == p[2]
        l == r[1]
        h == r[2]
        mid == l + SplitPoint(h - l)
    IN  IF h - l = 1 THEN <<>>
        ELSE IF index < mid
        THEN Append(path[<<l, mid>>], BuildSubtree(leaves, mid, h))
        ELSE Append(path[<<mid, h>>], BuildSubtree(leaves, l, mid))

Path == INSTANCE Recursion WITH Def <- PathBody

(* The audit path of leaves[index] within leaves[l:h]; CollectPath looks   *)
(* it up at the whole tree.                                                *)
PathWithin(leaves, index) ==
    LET path[r \in Slices] == PathBody(<<leaves, index>>, path, r)
    IN  path

LEMMA CollectPathIsPathWithin ==
    ASSUME NEW leaves, NEW index
    PROVE  CollectPath(leaves, index) = PathWithin(leaves, index)[<<0, Len(leaves)>>]
BY DEF CollectPath, PathWithin, PathBody

(* PathWithin satisfies its equation.                                      *)
LEMMA PathEquation ==
    ASSUME NEW leaves, NEW index, NEW l \in Nat, NEW h \in Nat, l < h
    PROVE  PathWithin(leaves, index)[<<l, h>>] =
             PathBody(<<leaves, index>>, PathWithin(leaves, index), <<l, h>>)
<1> DEFINE D == Slices
           rank == SliceRank
           p == <<leaves, index>>
           path == PathWithin(leaves, index)
<1>1. rank \in [D -> Nat]
  BY SliceFacts
<1>2. \A f, g : \A r \in D :
          (\A y \in D : rank[y] < rank[r] => f[y] = g[y])
              => PathBody(p, f, r) = PathBody(p, g, r)
  <2> SUFFICES ASSUME NEW f, NEW g, NEW r \in D,
                      \A y \in D : rank[y] < rank[r] => f[y] = g[y]
               PROVE  PathBody(p, f, r) = PathBody(p, g, r)
    OBVIOUS
  <2> DEFINE mid == r[1] + SplitPoint(r[2] - r[1])
  <2>1. CASE r[2] - r[1] = 1
    BY <2>1 DEF PathBody
  <2>2. CASE r[2] - r[1] # 1
    <3>1. f[<<r[1], mid>>] = g[<<r[1], mid>>] /\ f[<<mid, r[2]>>] = g[<<mid, r[2]>>]
      BY <2>2, HalvesAreSlices, SliceFacts
    <3> QED
      BY <2>2, <3>1 DEF PathBody
  <2> QED
    BY <2>1, <2>2
<1> HIDE DEF D, rank, p
<1>3. \E f : f = [r \in D |-> PathBody(p, f, r)]
  BY <1>1, <1>2, Path!RecursionHasSolution
<1>4. path = [r \in D |-> PathBody(p, path, r)]
  BY <1>3 DEF PathWithin, D, p
<1> HIDE DEF path
<1>5. <<l, h>> \in D
  BY SliceFacts DEF D
<1>6. path[<<l, h>>] = PathBody(p, path, <<l, h>>)
  BY <1>4, <1>5
<1> QED
  BY <1>6 DEF p, path

(* collectPath: nothing for a single leaf, otherwise the path in the half  *)
(* that holds the index followed by the root of the other half.            *)
LEMMA PathOfSingle ==
    ASSUME NEW leaves, NEW index \in Nat, NEW l \in Nat
    PROVE  PathWithin(leaves, index)[<<l, l + 1>>] = <<>>
<1>1. l + 1 \in Nat /\ l < l + 1 /\ (l + 1) - l = 1
  OBVIOUS
<1>2. PathWithin(leaves, index)[<<l, l + 1>>] =
        PathBody(<<leaves, index>>, PathWithin(leaves, index), <<l, l + 1>>)
  BY <1>1, PathEquation
<1> QED
  BY <1>1, <1>2 DEF PathBody

LEMMA PathOnLeft ==
    ASSUME NEW leaves, NEW index \in Nat, NEW l \in Nat, NEW n \in Nat,
           n >= 2, index < l + SplitPoint(n)
    PROVE  PathWithin(leaves, index)[<<l, l + n>>] =
             Append(PathWithin(leaves, index)[<<l, l + SplitPoint(n)>>],
                    BuildSubtree(leaves, l + SplitPoint(n), l + n))
<1>1. l + n \in Nat /\ l < l + n /\ (l + n) - l = n /\ n # 1
  OBVIOUS
<1>2. PathWithin(leaves, index)[<<l, l + n>>] =
        PathBody(<<leaves, index>>, PathWithin(leaves, index), <<l, l + n>>)
  BY <1>1, PathEquation
<1> QED
  BY <1>1, <1>2 DEF PathBody

LEMMA PathOnRight ==
    ASSUME NEW leaves, NEW index \in Nat, NEW l \in Nat, NEW n \in Nat,
           n >= 2, ~ (index < l + SplitPoint(n))
    PROVE  PathWithin(leaves, index)[<<l, l + n>>] =
             Append(PathWithin(leaves, index)[<<l + SplitPoint(n), l + n>>],
                    BuildSubtree(leaves, l, l + SplitPoint(n)))
<1>1. l + n \in Nat /\ l < l + n /\ (l + n) - l = n /\ n # 1
  OBVIOUS
<1>2. PathWithin(leaves, index)[<<l, l + n>>] =
        PathBody(<<leaves, index>>, PathWithin(leaves, index), <<l, l + n>>)
  BY <1>1, PathEquation
<1> QED
  BY <1>1, <1>2 DEF PathBody

-----------------------------------------------------------------------------
(* The descent to an index, from the root.                                 *)

DescentBody(p, at, j) == IF j = 0 THEN [n |-> p[2], i |-> p[1]] ELSE Turn(at[j - 1])

DescentFrom == INSTANCE Recursion WITH Def <- DescentBody

LEMMA DescentEquation ==
    ASSUME NEW index, NEW treeSize, NEW j \in Nat
    PROVE  Descent(index, treeSize)[j] =
             DescentBody(<<index, treeSize>>, Descent(index, treeSize), j)
<1> DEFINE p == <<index, treeSize>>
           D == Nat
           rank == [x \in D |-> x]
           at == Descent(index, treeSize)
<1>1. rank \in [D -> Nat]
  OBVIOUS
<1>2. \A f, g : \A x \in D :
          (\A y \in D : rank[y] < rank[x] => f[y] = g[y])
              => DescentBody(p, f, x) = DescentBody(p, g, x)
  <2> SUFFICES ASSUME NEW f, NEW g, NEW x \in D,
                      \A y \in D : rank[y] < rank[x] => f[y] = g[y]
               PROVE  DescentBody(p, f, x) = DescentBody(p, g, x)
    OBVIOUS
  <2>1. CASE x = 0
    BY <2>1 DEF DescentBody
  <2>2. CASE x # 0
    <3>1. x - 1 \in Nat /\ x - 1 < x
      BY <2>2
    <3>2. f[x - 1] = g[x - 1]
      BY <3>1
    <3> QED
      BY <2>2, <3>2 DEF DescentBody
  <2> QED
    BY <2>1, <2>2
<1> HIDE DEF p, D, rank
<1>3. \E f : f = [x \in D |-> DescentBody(p, f, x)]
  BY <1>1, <1>2, DescentFrom!RecursionHasSolution
<1>4. at = [x \in D |-> DescentBody(p, at, x)]
  BY <1>3 DEF D, p, Descent, DescentBody
<1> HIDE DEF at
<1>5. at[j] = DescentBody(p, at, j)
  BY <1>4 DEF D
<1> QED
  BY <1>5 DEF at, p

LEMMA DescentStart ==
    ASSUME NEW index, NEW treeSize
    PROVE  Descent(index, treeSize)[0] = [n |-> treeSize, i |-> index]
<1>1. Descent(index, treeSize)[0] =
        DescentBody(<<index, treeSize>>, Descent(index, treeSize), 0)
  BY DescentEquation
<1> QED
  BY <1>1 DEF DescentBody

LEMMA DescentStep ==
    ASSUME NEW index, NEW treeSize, NEW j \in Nat, j # 0
    PROVE  Descent(index, treeSize)[j] = Turn(Descent(index, treeSize)[j - 1])
<1>1. Descent(index, treeSize)[j] =
        DescentBody(<<index, treeSize>>, Descent(index, treeSize), j)
  BY DescentEquation
<1> QED
  BY <1>1 DEF DescentBody

(* The first turn leads to a half of innerSize leaves and to the leaf      *)
(* `inner` in it.                                                          *)
TurnsTo(index, treeSize, inner, innerSize) ==
    Turn([n |-> treeSize, i |-> index]) = [n |-> innerSize, i |-> inner]

(* The descent below the first turn is the descent in that half.           *)
LEMMA DescentShift ==
    ASSUME NEW index, NEW treeSize, NEW inner, NEW innerSize,
           TurnsTo(index, treeSize, inner, innerSize)
    PROVE  \A j \in Nat : Descent(index, treeSize)[j + 1] =
                            Descent(inner, innerSize)[j]
<1> DEFINE T == {j \in Nat : Descent(index, treeSize)[j + 1] =
                               Descent(inner, innerSize)[j]}
<1>1. ASSUME NEW j \in Nat, \A m \in Nat : m < j => m \in T
      PROVE  j \in T
  <2> DEFINE o == j + 1
  <2>0. o \in Nat /\ o # 0 /\ o - 1 = j
    OBVIOUS
  <2> HIDE DEF o
  <2>1. Descent(index, treeSize)[o] = Turn(Descent(index, treeSize)[o - 1])
    BY <2>0, DescentStep
  <2>2. CASE j = 0
    BY <2>0, <2>1, <2>2, DescentStart DEF TurnsTo, o
  <2>3. CASE j # 0
    <3> DEFINE m == j - 1
    <3>1. m \in Nat /\ m < j /\ m + 1 = j
      BY <2>3
    <3>2. Descent(index, treeSize)[j] = Descent(inner, innerSize)[m]
      BY <3>1, <1>1
    <3>3. Descent(inner, innerSize)[j] = Turn(Descent(inner, innerSize)[m])
      BY <2>3, DescentStep
    <3> HIDE DEF m
    <3> QED
      BY <2>0, <2>1, <3>2, <3>3 DEF o
  <2> QED
    BY <2>2, <2>3
<1> HIDE DEF T
<1>2. \A j \in Nat : j \in T
  BY <1>1, Power!StrongInduction
<1> QED
  BY <1>2 DEF T

LEMMA GoRightShift ==
    ASSUME NEW index, NEW treeSize, NEW inner, NEW innerSize,
           TurnsTo(index, treeSize, inner, innerSize), NEW j \in Nat
    PROVE  GoRight(index, treeSize, j + 1) <=> GoRight(inner, innerSize, j)
<1>1. Descent(index, treeSize)[j + 1] = Descent(inner, innerSize)[j]
  BY DescentShift
<1> QED
  BY <1>1 DEF GoRight

LEMMA GoRightAtRoot ==
    ASSUME NEW index, NEW treeSize
    PROVE  GoRight(index, treeSize, 0) <=> index >= SplitPoint(treeSize)
<1>1. Descent(index, treeSize)[0] = [n |-> treeSize, i |-> index]
  BY DescentStart
<1>2. Descent(index, treeSize)[0].n = treeSize /\ Descent(index, treeSize)[0].i = index
  BY <1>1
<1> QED
  BY <1>2 DEF GoRight

-----------------------------------------------------------------------------
(* The hash an audit path folds to.                                        *)

PathHashBody(p, hash, j) ==
    LET leafHash == p[1]
        index == p[2]
        treeSize == p[3]
        proof == p[4]
    IN  IF j = 0 THEN leafHash
        ELSE IF GoRight(index, treeSize, Len(proof) - j)
        THEN HashInternal(proof[j], hash[j - 1])
        ELSE HashInternal(hash[j - 1], proof[j])

Fold == INSTANCE Recursion WITH Def <- PathHashBody

PathHash(leafHash, index, treeSize, proof) ==
    LET hash[j \in Nat] ==
            PathHashBody(<<leafHash, index, treeSize, proof>>, hash, j)
    IN  hash

LEMMA VerifyInclusionIsPathHash ==
    ASSUME NEW leafHash, NEW root, NEW index, NEW treeSize, NEW proof
    PROVE  VerifyInclusion(leafHash, root, index, treeSize, proof) <=>
             /\ index \in 0 .. (treeSize - 1)
             /\ PathHash(leafHash, index, treeSize, proof)[Len(proof)] = root
BY DEF VerifyInclusion, PathHash, PathHashBody

(* VerifyInclusion folds the proof from the leaf up; the direction of its  *)
(* j-th element comes from the turn that is as far from the end.           *)
LEMMA PathHashEquation ==
    ASSUME NEW leafHash, NEW index, NEW treeSize, NEW proof, NEW j \in Nat
    PROVE  PathHash(leafHash, index, treeSize, proof)[j] =
             PathHashBody(<<leafHash, index, treeSize, proof>>,
                          PathHash(leafHash, index, treeSize, proof), j)
<1> DEFINE p == <<leafHash, index, treeSize, proof>>
           D == Nat
           rank == [x \in D |-> x]
           hash == PathHash(leafHash, index, treeSize, proof)
<1>1. rank \in [D -> Nat]
  OBVIOUS
<1>2. \A f, g : \A x \in D :
          (\A y \in D : rank[y] < rank[x] => f[y] = g[y])
              => PathHashBody(p, f, x) = PathHashBody(p, g, x)
  <2> SUFFICES ASSUME NEW f, NEW g, NEW x \in D,
                      \A y \in D : rank[y] < rank[x] => f[y] = g[y]
               PROVE  PathHashBody(p, f, x) = PathHashBody(p, g, x)
    OBVIOUS
  <2>1. CASE x = 0
    BY <2>1 DEF PathHashBody
  <2>2. CASE x # 0
    <3>1. x - 1 \in Nat /\ x - 1 < x
      BY <2>2
    <3>2. f[x - 1] = g[x - 1]
      BY <3>1
    <3> QED
      BY <2>2, <3>2 DEF PathHashBody
  <2> QED
    BY <2>1, <2>2
<1> HIDE DEF p, D, rank
<1>3. \E f : f = [x \in D |-> PathHashBody(p, f, x)]
  BY <1>1, <1>2, Fold!RecursionHasSolution
<1>4. hash = [x \in D |-> PathHashBody(p, hash, x)]
  BY <1>3 DEF D, p, PathHash
<1> HIDE DEF hash
<1>5. hash[j] = PathHashBody(p, hash, j)
  BY <1>4 DEF D
<1> QED
  BY <1>5 DEF hash, p

LEMMA PathHashStart ==
    ASSUME NEW leafHash, NEW index, NEW treeSize, NEW proof
    PROVE  PathHash(leafHash, index, treeSize, proof)[0] = leafHash
<1>1. PathHash(leafHash, index, treeSize, proof)[0] =
             PathHashBody(<<leafHash, index, treeSize, proof>>,
                          PathHash(leafHash, index, treeSize, proof), 0)
  BY PathHashEquation
<1> QED
  BY <1>1 DEF PathHashBody

(* The direction of the j-th element, counted from the leaf, comes from    *)
(* the turn that is as far from the last one.                              *)
LEMMA PathHashStep ==
    ASSUME NEW leafHash, NEW index, NEW treeSize, NEW proof,
           NEW j \in Nat, j # 0
    PROVE  PathHash(leafHash, index, treeSize, proof)[j] =
             IF GoRight(index, treeSize, Len(proof) - j)
             THEN HashInternal(proof[j],
                               PathHash(leafHash, index, treeSize, proof)[j - 1])
             ELSE HashInternal(PathHash(leafHash, index, treeSize, proof)[j - 1],
                               proof[j])
<1>1. PathHash(leafHash, index, treeSize, proof)[j] =
             PathHashBody(<<leafHash, index, treeSize, proof>>,
                          PathHash(leafHash, index, treeSize, proof), j)
  BY PathHashEquation
<1> QED
  BY <1>1 DEF PathHashBody

(* The fold of a path with one more element on top runs, up to that        *)
(* element, as the fold of the path in the half the first turn goes to.    *)
LEMMA PathHashShift ==
    ASSUME NEW leafHash, NEW index, NEW treeSize, NEW inner, NEW innerSize,
           TurnsTo(index, treeSize, inner, innerSize),
           NEW S, NEW proof \in Seq(S), NEW top \in S
    PROVE  \A j \in 0 .. Len(proof) :
             PathHash(leafHash, index, treeSize, Append(proof, top))[j] =
               PathHash(leafHash, inner, innerSize, proof)[j]
<1> DEFINE longer == Append(proof, top)
           outerHash == PathHash(leafHash, index, treeSize, longer)
           innerHash == PathHash(leafHash, inner, innerSize, proof)
           T == {j \in Nat : j <= Len(proof) => outerHash[j] = innerHash[j]}
<1>0. /\ Len(proof) \in Nat
      /\ Len(longer) = Len(proof) + 1
      /\ \A j \in 1 .. Len(proof) : longer[j] = proof[j]
  OBVIOUS
<1> HIDE DEF longer
<1>1. ASSUME NEW j \in Nat, \A m \in Nat : m < j => m \in T
      PROVE  j \in T
  <2> SUFFICES ASSUME j <= Len(proof)
               PROVE  outerHash[j] = innerHash[j]
    OBVIOUS
  <2>1. CASE j = 0
    BY <2>1, PathHashStart
  <2>2. CASE j # 0
    <3> DEFINE m == j - 1
               t == Len(proof) - j
    <3>1. /\ m \in Nat /\ m < j /\ m <= Len(proof)
          /\ j # 0
          /\ j \in 1 .. Len(proof)
          /\ t \in Nat
          /\ Len(longer) - j = t + 1
      BY <2>2, <1>0
    <3>2. outerHash[m] = innerHash[m]
      BY <3>1, <1>1
    <3>3. GoRight(index, treeSize, t + 1) <=> GoRight(inner, innerSize, t)
      BY <3>1, GoRightShift
    <3>4. longer[j] = proof[j]
      BY <3>1, <1>0
    <3>5. outerHash[j] = IF GoRight(index, treeSize, Len(longer) - j)
                         THEN HashInternal(longer[j], outerHash[m])
                         ELSE HashInternal(outerHash[m], longer[j])
      BY <3>1, PathHashStep
    <3>6. innerHash[j] = IF GoRight(inner, innerSize, t)
                         THEN HashInternal(proof[j], innerHash[m])
                         ELSE HashInternal(innerHash[m], proof[j])
      BY <3>1, PathHashStep
    <3> HIDE DEF m, t, outerHash, innerHash
    <3> QED
      BY <3>1, <3>2, <3>3, <3>4, <3>5, <3>6
  <2> QED
    BY <2>1, <2>2
<1> HIDE DEF T
<1>2. \A j \in Nat : j \in T
  BY <1>1, Power!StrongInduction
<1> QED
  BY <1>2, <1>0 DEF T, longer

(* So the whole fold adds one node to the fold in that half.               *)
LEMMA PathHashOfLonger ==
    ASSUME NEW leafHash, NEW index, NEW treeSize, NEW inner, NEW innerSize,
           TurnsTo(index, treeSize, inner, innerSize),
           NEW S, NEW proof \in Seq(S), NEW top \in S
    PROVE  LET longer == Append(proof, top)
               below == PathHash(leafHash, inner, innerSize, proof)[Len(proof)]
           IN  PathHash(leafHash, index, treeSize, longer)[Len(longer)] =
                 IF GoRight(index, treeSize, 0)
                 THEN HashInternal(top, below) ELSE HashInternal(below, top)
<1> DEFINE longer == Append(proof, top)
           below == PathHash(leafHash, inner, innerSize, proof)[Len(proof)]
           d == Len(longer)
           hash == PathHash(leafHash, index, treeSize, longer)
<1>1. /\ d \in Nat /\ d # 0 /\ Len(longer) - d = 0
      /\ d - 1 = Len(proof)
      /\ Len(proof) \in 0 .. Len(proof)
      /\ longer[d] = top
  OBVIOUS
<1>2. hash[Len(proof)] = below
  BY <1>1, PathHashShift
<1> HIDE DEF d, longer, below
<1>3. hash[d] = IF GoRight(index, treeSize, Len(longer) - d)
                THEN HashInternal(longer[d], hash[d - 1])
                ELSE HashInternal(hash[d - 1], longer[d])
  BY <1>1, PathHashStep
<1> HIDE DEF hash
<1>4. hash[d] = IF GoRight(index, treeSize, 0)
                THEN HashInternal(top, below) ELSE HashInternal(below, top)
  BY <1>1, <1>2, <1>3
<1> QED
  BY <1>4 DEF d, hash, longer, below

(* The hashes of the subtrees of `leaves`.                                 *)
SubtreeHashes(leaves) == {BuildSubtree(leaves, r[1], r[2]) : r \in Slices}

LEMMA SubtreeIsSubtreeHash ==
    ASSUME NEW leaves, NEW l \in Nat, NEW h \in Nat, l < h
    PROVE  BuildSubtree(leaves, l, h) \in SubtreeHashes(leaves)
<1> DEFINE r == <<l, h>>
<1>1. r \in Slices /\ r[1] = l /\ r[2] = h
  BY SliceFacts
<1> HIDE DEF r
<1> QED
  BY <1>1 DEF SubtreeHashes

(* The audit path of a leaf within any slice folds to the slice's root.    *)
LEMMA PathFoldsToSubtree ==
    ASSUME NEW leaves, NEW index \in Nat, NEW l \in Nat, NEW n \in Nat,
           l <= index, index < l + n
    PROVE  LET proof == PathWithin(leaves, index)[<<l, l + n>>]
           IN  /\ proof \in Seq(SubtreeHashes(leaves))
               /\ PathHash(leaves[index + 1], index - l, n, proof)[Len(proof)]
                    = BuildSubtree(leaves, l, l + n)
<1> DEFINE S == SubtreeHashes(leaves)
           W(a, m) == PathWithin(leaves, index)[<<a, a + m>>]
           leafHash == leaves[index + 1]
           Holds(a, m) ==
              a <= index /\ index < a + m =>
                /\ W(a, m) \in Seq(S)
                /\ PathHash(leafHash, index - a, m, W(a, m))[Len(W(a, m))]
                     = BuildSubtree(leaves, a, a + m)
           T == {m \in Nat : \A a \in Nat : Holds(a, m)}
<1>1. ASSUME NEW m \in Nat, \A j \in Nat : j < m => j \in T
      PROVE  m \in T
  <2> SUFFICES ASSUME NEW a \in Nat, a <= index, index < a + m
               PROVE  /\ W(a, m) \in Seq(S)
                      /\ PathHash(leafHash, index - a, m, W(a, m))[Len(W(a, m))]
                           = BuildSubtree(leaves, a, a + m)
    OBVIOUS
  <2>1. CASE m = 1
    <3>1. W(a, m) = <<>>
      BY <2>1, PathOfSingle
    <3>2. index = a
      BY <2>1
    <3>3. BuildSubtree(leaves, a, a + m) = leaves[a + 1]
      BY <2>1, SubtreeSplit
    <3>4. PathHash(leafHash, index - a, m, <<>>)[0] = leafHash
      BY PathHashStart
    <3> QED
      BY <3>1, <3>2, <3>3, <3>4
  <2>2. CASE m # 1
    <3>0. m >= 2
      BY <2>2
    <3> DEFINE k == SplitPoint(m)
               i == index - a
    <3>1. /\ k \in Nat /\ 1 <= k /\ k < m
          /\ i \in Nat /\ i < m
          /\ m - k \in Nat /\ m - k < m
          /\ a + k \in Nat /\ (a + k) + (m - k) = a + m
          /\ a + m \in Nat
      BY <3>0, SplitBounds
    <3>2. BuildSubtree(leaves, a, a + m) =
            HashInternal(BuildSubtree(leaves, a, a + k),
                         BuildSubtree(leaves, a + k, a + m))
      BY <3>0, SubtreeSplit
    <3>3. GoRight(i, m, 0) <=> ~ (i < k)
      BY <3>1, GoRightAtRoot
    <3>4. CASE index < a + k
      <4> DEFINE inner == W(a, k)
                 top == BuildSubtree(leaves, a + k, a + m)
                 d == Len(inner)
      <4>1. W(a, m) = Append(inner, top)
        BY <3>0, <3>4, PathOnLeft
      <4>2. /\ inner \in Seq(S)
            /\ PathHash(leafHash, i, k, inner)[d] = BuildSubtree(leaves, a, a + k)
        <5>1. k \in T
          BY <3>1, <1>1
        <5> QED
          BY <5>1, <3>4
      <4>3. top \in S
        BY <3>1, SubtreeIsSubtreeHash
      <4>4. i < k
        BY <3>1, <3>4
      <4>5. TurnsTo(i, m, i, k)
        BY <4>4 DEF Turn, TurnsTo
      <4> DEFINE proof == W(a, m)
                 below == BuildSubtree(leaves, a, a + k)
                 leaf == leafHash
      <4> HIDE DEF inner, top, d, k, i, S, proof, below, leaf
      <4>6. /\ proof \in Seq(S)
            /\ PathHash(leaf, i, m, proof)[Len(proof)] =
                 IF GoRight(i, m, 0)
                 THEN HashInternal(top, below) ELSE HashInternal(below, top)
        <5>1. proof = Append(inner, top)
          BY <4>1 DEF proof
        <5>2. below = PathHash(leaf, i, k, inner)[Len(inner)]
          BY <4>2 DEF below, leaf, d
        <5>3. Append(inner, top) \in Seq(S)
          BY <4>2, <4>3
        <5>4. PathHash(leaf, i, m, Append(inner, top))[Len(Append(inner, top))] =
                IF GoRight(i, m, 0)
                THEN HashInternal(top, PathHash(leaf, i, k, inner)[Len(inner)])
                ELSE HashInternal(PathHash(leaf, i, k, inner)[Len(inner)], top)
          BY <4>2, <4>3, <4>5, PathHashOfLonger
        <5> QED
          BY <5>1, <5>2, <5>3, <5>4
      <4> QED
        BY <4>4, <4>6, <3>2, <3>3 DEF proof, below, leaf, i, top
    <3>5. CASE ~ (index < a + k)
      <4> DEFINE inner == W(a + k, m - k)
                 top == BuildSubtree(leaves, a, a + k)
                 d == Len(inner)
      <4>1. W(a, m) = Append(inner, top)
        <5>1. W(a, m) = Append(PathWithin(leaves, index)[<<a + k, a + m>>], top)
          BY <3>0, <3>5, PathOnRight
        <5> QED
          BY <5>1, <3>1
      <4>2. /\ inner \in Seq(S)
            /\ PathHash(leafHash, i - k, m - k, inner)[d] =
                 BuildSubtree(leaves, a + k, a + m)
        <5>1. m - k \in T
          BY <3>1, <1>1
        <5>2. /\ a + k <= index /\ index < (a + k) + (m - k)
              /\ index - (a + k) = i - k
          BY <3>1, <3>5
        <5>3. Holds(a + k, m - k)
          BY <5>1, <3>1
        <5> QED
          BY <5>2, <5>3, <3>1
      <4>3. top \in S
        BY <3>1, SubtreeIsSubtreeHash
      <4>4. ~ (i < k)
        BY <3>1, <3>5
      <4>5. TurnsTo(i, m, i - k, m - k)
        BY <4>4 DEF Turn, TurnsTo
      <4> DEFINE proof == W(a, m)
                 below == BuildSubtree(leaves, a + k, a + m)
                 leaf == leafHash
      <4> HIDE DEF inner, top, d, k, i, S, proof, below, leaf
      <4>6. /\ proof \in Seq(S)
            /\ PathHash(leaf, i, m, proof)[Len(proof)] =
                 IF GoRight(i, m, 0)
                 THEN HashInternal(top, below) ELSE HashInternal(below, top)
        <5>1. proof = Append(inner, top)
          BY <4>1 DEF proof
        <5>2. below = PathHash(leaf, i - k, m - k, inner)[Len(inner)]
          BY <4>2 DEF below, leaf, d
        <5>3. Append(inner, top) \in Seq(S)
          BY <4>2, <4>3
        <5>4. PathHash(leaf, i, m, Append(inner, top))[Len(Append(inner, top))] =
                IF GoRight(i, m, 0)
                THEN HashInternal(top, PathHash(leaf, i - k, m - k, inner)[Len(inner)])
                ELSE HashInternal(PathHash(leaf, i - k, m - k, inner)[Len(inner)], top)
          BY <4>2, <4>3, <4>5, PathHashOfLonger
        <5> QED
          BY <5>1, <5>2, <5>3, <5>4
      <4> QED
        BY <4>4, <4>6, <3>2, <3>3 DEF proof, below, leaf, i, top
    <3> QED
      BY <3>4, <3>5
  <2> QED
    BY <2>1, <2>2
<1> HIDE DEF T
<1>2. \A m \in Nat : m \in T
  BY <1>1, Power!StrongInduction
<1>3. Holds(l, n)
  BY <1>2 DEF T
<1> QED
  BY <1>3

(* The audit path InclusionProof returns for a leaf is accepted by         *)
(* VerifyInclusion, at that leaf's index and under the root BuildRoot      *)
(* computes, whatever the size of the tree and wherever the leaf is.       *)
THEOREM InclusionIsComplete ==
    ASSUME NEW S, NEW leaves \in Seq(S), NEW index \in 0 .. (Len(leaves) - 1)
    PROVE  VerifyInclusion(leaves[index + 1], BuildRoot(leaves), index,
                           Len(leaves), InclusionProof(leaves, index))
<1> DEFINE n == Len(leaves)
           proof == PathWithin(leaves, index)[<<0, 0 + n>>]
<1>1. /\ n \in Nat /\ index \in Nat /\ 0 <= index /\ index < 0 + n
      /\ 0 + n = n /\ index - 0 = index
  OBVIOUS
<1>2. leaves # <<>>
  BY <1>1
<1>3. InclusionProof(leaves, index) = proof
  BY <1>1, CollectPathIsPathWithin DEF InclusionProof
<1>4. BuildRoot(leaves) = BuildSubtree(leaves, 0, 0 + n)
  BY <1>1, <1>2 DEF BuildRoot
<1>5. PathHash(leaves[index + 1], index - 0, n, proof)[Len(proof)]
        = BuildSubtree(leaves, 0, 0 + n)
  <2>1. n \in Nat /\ index \in Nat /\ 0 \in Nat /\ 0 <= index /\ index < 0 + n
    BY <1>1
  <2> HIDE DEF n
  <2> QED
    BY <2>1, PathFoldsToSubtree, ZenonT(60)
<1> HIDE DEF proof
<1> QED
  BY <1>1, <1>3, <1>4, <1>5, VerifyInclusionIsPathHash

(* Where a fold that ends in the root of leaves[0:n] stands t elements     *)
(* below it: at the subtree that t turns lead to.                          *)
FoldStandsAt(leaves, hash, index, n, proof, t) ==
    LET at == Descent(index, n)[t]
    IN  /\ at.n \in Nat /\ at.i \in Nat
        /\ at.i < at.n /\ at.i <= index
        /\ hash[Len(proof) - t] =
             BuildSubtree(leaves, index - at.i, (index - at.i) + at.n)

LEMMA TurnFields ==
    ASSUME NEW at
    PROVE  /\ at.i < SplitPoint(at.n) =>
                Turn(at).n = SplitPoint(at.n) /\ Turn(at).i = at.i
           /\ ~ (at.i < SplitPoint(at.n)) =>
                /\ Turn(at).n = at.n - SplitPoint(at.n)
                /\ Turn(at).i = at.i - SplitPoint(at.n)
BY DEF Turn

(* One turn further down: an internal node has been split into the two     *)
(* hashes it was made of, and the turn picks the one the fold goes on in.  *)
LEMMA FoldTurn ==
    ASSUME NEW leaves, NEW leafHash, NEW index \in Nat, NEW n \in Nat,
           NEW S, NEW proof \in Seq(S), NEW t \in Nat, t < Len(proof),
           LeafHashes(leaves, 0, n),
           (index - Descent(index, n)[t].i) + Descent(index, n)[t].n <= n,
           FoldStandsAt(leaves, PathHash(leafHash, index, n, proof), index, n, proof, t)
    PROVE  /\ FoldStandsAt(leaves, PathHash(leafHash, index, n, proof), index, n,
                           proof, t + 1)
           /\ (index - Descent(index, n)[t + 1].i) + Descent(index, n)[t + 1].n <= n
<1> DEFINE hash == PathHash(leafHash, index, n, proof)
           at == Descent(index, n)[t]
           next == Descent(index, n)[t + 1]
           size == at.n
           i == at.i
           lo == index - i
           j == Len(proof) - t
           k == SplitPoint(size)
<1>1. /\ size \in Nat /\ i \in Nat /\ i < size /\ i <= index
      /\ hash[j] = BuildSubtree(leaves, lo, lo + size)
      /\ lo + size <= n
  BY DEF FoldStandsAt
<1>2. /\ j \in Nat /\ j # 0
      /\ Len(proof) - j = t
      /\ j - 1 = Len(proof) - (t + 1)
      /\ lo \in Nat
  <2>1. Len(proof) \in Nat
    OBVIOUS
  <2>2. lo \in Nat
    <3> HIDE DEF i, size
    <3> QED
      BY <1>1
  <2> QED
    BY <2>1, <2>2
<1>3. GoRight(index, n, t) <=> ~ (i < k)
  <2>1. GoRight(index, n, t) <=> i >= k
    BY DEF GoRight
  <2>2. k \in Int
    <3>1. CASE size = 1
      BY <3>1, SplitOfSingle
    <3>2. CASE size # 1
      BY <1>1, <3>2, SplitBounds
    <3> QED
      BY <3>1, <3>2
  <2> QED
    BY <1>1, <2>1, <2>2
<1>4. hash[j] = IF GoRight(index, n, Len(proof) - j)
                THEN HashInternal(proof[j], hash[j - 1])
                ELSE HashInternal(hash[j - 1], proof[j])
  <2>1. j \in Nat /\ j # 0
    BY <1>2
  <2> HIDE DEF j
  <2> QED
    BY <2>1, PathHashStep, SMTT(60)
<1>5. next = Turn(at)
  <2>1. t + 1 \in Nat /\ t + 1 # 0 /\ (t + 1) - 1 = t
    OBVIOUS
  <2> QED
    BY <2>1, DescentStep
<1>6. size >= 2
  <2> SUFFICES ASSUME size = 1
               PROVE  FALSE
    BY <1>1, SMTT(30)
  <2>1. LeafHashes(leaves, lo, 1)
    <3>1. lo + 1 \in 1 .. n /\ 0 + (lo + 1) = lo + 1
      <4>1. lo + 1 <= n /\ lo \in Nat
        BY <1>1, <1>2
      <4> HIDE DEF lo
      <4> QED
        BY <4>1
    <3>2. \E data : leaves[0 + (lo + 1)] = HashLeaf(data)
      BY <3>1 DEF LeafHashes
    <3> QED
      BY <3>1, <3>2 DEF LeafHashes
  <2>2. PICK data : BuildSubtree(leaves, lo, lo + 1) = HashLeaf(data)
    BY <1>2, <2>1, SingleLeafHash
  <2>3. hash[j] = HashLeaf(data)
    BY <1>1, <2>2
  <2> HIDE DEF hash, j
  <2> QED
    BY <1>4, <2>3, LeafIsNotInternal
<1>7. /\ k \in Nat /\ 1 <= k /\ k < size
  BY <1>1, <1>6, SplitBounds
<1>8. BuildSubtree(leaves, lo, lo + size) =
        HashInternal(BuildSubtree(leaves, lo, lo + k),
                     BuildSubtree(leaves, lo + k, lo + size))
  BY <1>1, <1>2, <1>6, SubtreeSplit
<1>9. /\ i < k => next.n = k /\ next.i = i
      /\ ~ (i < k) => next.n = size - k /\ next.i = i - k
  BY <1>5, TurnFields
<1> HIDE DEF hash, at, next, size, i, lo, j, k
<1>10. CASE i < k
  <2>1. hash[j - 1] = BuildSubtree(leaves, lo, lo + k)
    BY <1>1, <1>2, <1>3, <1>4, <1>8, <1>10, InternalInjective
  <2>2. index - next.i = lo /\ next.n = k /\ next.i = i
    BY <1>9, <1>10 DEF lo
  <2>3. lo + k <= n
    BY <1>1, <1>2, <1>7
  <2>4. hash[Len(proof) - (t + 1)] =
          BuildSubtree(leaves, index - next.i, (index - next.i) + next.n)
    BY <1>2, <2>1, <2>2
  <2> QED
    BY <1>1, <1>7, <1>10, <2>2, <2>3, <2>4 DEF FoldStandsAt, hash, next
<1>11. CASE ~ (i < k)
  <2>1. hash[j - 1] = BuildSubtree(leaves, lo + k, lo + size)
    BY <1>1, <1>2, <1>3, <1>4, <1>8, <1>11, InternalInjective
  <2>2. /\ next.n = size - k /\ next.i = i - k
        /\ next.n \in Nat /\ next.i \in Nat /\ next.i < next.n /\ next.i <= index
    BY <1>1, <1>7, <1>9, <1>11
  <2>3. index - next.i = lo + k /\ (lo + k) + (size - k) = lo + size
    BY <1>1, <1>2, <1>7, <2>2 DEF lo
  <2>4. hash[Len(proof) - (t + 1)] =
          BuildSubtree(leaves, index - next.i, (index - next.i) + next.n)
    BY <1>2, <2>1, <2>2, <2>3
  <2>5. (index - next.i) + next.n <= n
    BY <1>1, <2>2, <2>3
  <2> QED
    BY <2>2, <2>4, <2>5 DEF FoldStandsAt, hash, next
<1> QED
  BY <1>10, <1>11

(* No proof, of whatever length and made of whatever hashes, makes         *)
(* VerifyInclusion accept a receipt at an index where the tree holds       *)
(* another one: a path that stops above the leaf would have a leaf hash    *)
(* equal to an internal one, and so would a path that goes on below it.    *)
THEOREM InclusionIsSound ==
    ASSUME NEW S, NEW leaves \in Seq(S), LeafHashes(leaves, 0, Len(leaves)),
           NEW data, NEW index, NEW R, NEW proof \in Seq(R),
           VerifyInclusion(HashLeaf(data), BuildRoot(leaves), index,
                           Len(leaves), proof)
    PROVE  leaves[index + 1] = HashLeaf(data)
<1> DEFINE n == Len(leaves)
           hash == PathHash(HashLeaf(data), index, n, proof)
           d == Len(proof)
           Within(t) == (index - Descent(index, n)[t].i) + Descent(index, n)[t].n <= n
           Stands(t) == /\ FoldStandsAt(leaves, hash, index, n, proof, t)
                        /\ Within(t)
           T == {t \in Nat : t <= d => Stands(t)}
<1>1. index \in 0 .. (n - 1) /\ hash[d] = BuildRoot(leaves)
  BY VerifyInclusionIsPathHash
<1>2. n \in Nat /\ index \in Nat /\ index < n /\ d \in Nat /\ leaves # <<>>
  BY <1>1
<1>3. Stands(0)
  <2>1. Descent(index, n)[0] = [n |-> n, i |-> index]
    BY DescentStart
  <2>2. Descent(index, n)[0].n = n /\ Descent(index, n)[0].i = index
    BY <2>1
  <2>3. d - 0 = d /\ index - index = 0 /\ 0 + n = n
    BY <1>2
  <2>4. hash[d] = BuildSubtree(leaves, 0, n)
    BY <1>1, <1>2 DEF BuildRoot
  <2> HIDE DEF hash, n, d
  <2> QED
    BY <1>2, <2>2, <2>3, <2>4 DEF FoldStandsAt, d
<1>4. ASSUME NEW t \in Nat, t < d, Stands(t)
      PROVE  Stands(t + 1)
  <2> HIDE DEF n
  <2> QED
    BY <1>2, <1>4, FoldTurn DEF n
<1>5. ASSUME NEW t \in Nat, \A m \in Nat : m < t => m \in T
      PROVE  t \in T
  <2> SUFFICES ASSUME t <= d
               PROVE  Stands(t)
    OBVIOUS
  <2> HIDE DEF Stands
  <2>1. CASE t = 0
    BY <1>3, <2>1
  <2>2. CASE t # 0
    <3> DEFINE m == t - 1
    <3>1. m \in Nat /\ m < t /\ m < d /\ m <= d /\ m + 1 = t
      BY <1>2, <2>2
    <3>2. Stands(m)
      BY <3>1, <1>5
    <3> HIDE DEF m
    <3>3. Stands(m + 1)
      BY <3>1, <3>2, <1>4
    <3> QED
      BY <3>1, <3>3
  <2> QED
    BY <2>1, <2>2
<1> HIDE DEF T
<1>6. \A t \in Nat : t \in T
  BY <1>5, Power!StrongInduction
<1>7. Stands(d)
  BY <1>2, <1>6 DEF T
<1> DEFINE at == Descent(index, n)[d]
           i == at.i
           size == at.n
           lo == index - i
<1>8. /\ size \in Nat /\ i \in Nat /\ i < size /\ i <= index
      /\ hash[d - d] = BuildSubtree(leaves, lo, lo + size)
  BY <1>7 DEF FoldStandsAt
<1>9. hash[0] = HashLeaf(data) /\ d - d = 0
  BY <1>2, PathHashStart
<1> HIDE DEF hash, d, at, n
<1>10. lo \in Nat
  BY <1>2, <1>8
<1>11. BuildSubtree(leaves, lo, lo + size) = HashLeaf(data)
  BY <1>8, <1>9
<1>12. size = 1
  <2> SUFFICES ASSUME size >= 2
               PROVE  FALSE
    BY <1>8
  <2> HIDE DEF lo, size
  <2> QED
    BY <1>8, <1>10, <1>11, SubtreeIsNoLeaf
<1>13. i = 0 /\ lo = index
  BY <1>2, <1>8, <1>12
<1>14. BuildSubtree(leaves, index, index + 1) = leaves[index + 1]
  BY <1>2, SubtreeSplit
<1> QED
  BY <1>11, <1>12, <1>13, <1>14

-----------------------------------------------------------------------------
(* Consistency proofs, as they are computed.                               *)

(* The sizes below a pair of sizes, on either side of the split.           *)
LEMMA HalvesAreGrowing ==
    ASSUME NEW m \in Nat, NEW n \in Nat, 0 < m, m < n
    PROVE  /\ SplitPoint(n) \in Nat /\ 1 <= SplitPoint(n) /\ SplitPoint(n) < n
           /\ m <= SplitPoint(n) =>
                <<m, SplitPoint(n)>> \in GrowingSizes
           /\ ~ (m <= SplitPoint(n)) =>
                <<m - SplitPoint(n), n - SplitPoint(n)>> \in GrowingSizes
<1> DEFINE k == SplitPoint(n)
<1>1. k \in Nat /\ 1 <= k /\ k < n
  BY SplitBounds
<1> HIDE DEF k
<1>2. CASE m <= k
  BY <1>1, <1>2 DEF GrowingSizes, k
<1>3. CASE ~ (m <= k)
  <2>1. m - k \in Nat /\ n - k \in Nat /\ 0 < m - k /\ m - k <= n - k
    BY <1>1, <1>3
  <2> QED
    BY <1>1, <1>3, <2>1 DEF GrowingSizes, k
<1> QED
  BY <1>2, <1>3

ConsistencyBody(leaves, sub, q) ==
    LET m == q[1][1]
        n == q[1][2]
        lo == q[2]
        b == q[3]
        k == SplitPoint(n)
    IN  IF m = n
        THEN IF b THEN <<>> ELSE <<BuildSubtree(leaves, lo, lo + n)>>
        ELSE IF m <= k
        THEN Append(sub[<<<<m, k>>, lo, b>>],
                    BuildSubtree(leaves, lo + k, lo + n))
        ELSE Append(sub[<<<<m - k, n - k>>, lo + k, FALSE>>],
                    BuildSubtree(leaves, lo, lo + k))

Consistency == INSTANCE Recursion WITH Def <- ConsistencyBody

ConsistencyWithin(leaves) ==
    LET sub[q \in GrowingSizes \X Nat \X BOOLEAN] == ConsistencyBody(leaves, sub, q)
    IN  sub

LEMMA CollectConsistencyIsWithin ==
    ASSUME NEW leaves, NEW oldSize, NEW newSize
    PROVE  CollectConsistency(oldSize, newSize, leaves) =
             ConsistencyWithin(leaves)[<<<<oldSize, newSize>>, 0, TRUE>>]
BY DEF CollectConsistency, ConsistencyWithin, ConsistencyBody

LEMMA ConsistencyEquation ==
    ASSUME NEW leaves, NEW q \in GrowingSizes \X Nat \X BOOLEAN
    PROVE  ConsistencyWithin(leaves)[q] =
             ConsistencyBody(leaves, ConsistencyWithin(leaves), q)
<1> DEFINE D == GrowingSizes \X Nat \X BOOLEAN
           rank == [x \in D |-> x[1][2]]
           sub == ConsistencyWithin(leaves)
<1>1. rank \in [D -> Nat]
  BY DEF GrowingSizes
<1>2. \A f, g : \A x \in D :
          (\A y \in D : rank[y] < rank[x] => f[y] = g[y])
              => ConsistencyBody(leaves, f, x) = ConsistencyBody(leaves, g, x)
  <2> SUFFICES ASSUME NEW f, NEW g, NEW x \in D,
                      \A y \in D : rank[y] < rank[x] => f[y] = g[y]
               PROVE  ConsistencyBody(leaves, f, x) = ConsistencyBody(leaves, g, x)
    OBVIOUS
  <2> DEFINE m == x[1][1]
             n == x[1][2]
             k == SplitPoint(n)
             left == <<<<m, k>>, x[2], x[3]>>
             right == <<<<m - k, n - k>>, x[2] + k, FALSE>>
  <2>1. m \in Nat /\ n \in Nat /\ 0 < m /\ m <= n /\ x[2] \in Nat /\ x[3] \in BOOLEAN
    BY DEF GrowingSizes
  <2>2. CASE m = n
    BY <2>2 DEF ConsistencyBody
  <2>3. CASE m # n /\ m <= k
    <3>1. <<m, k>> \in GrowingSizes /\ k < n /\ k \in Nat
      <4>1. m < n
        BY <2>1, <2>3
      <4> HIDE DEF m, n
      <4> QED
        BY <4>1, <2>1, <2>3, HalvesAreGrowing
    <3> HIDE DEF k
    <3>2. left \in D /\ rank[left] = k /\ rank[x] = n
      BY <2>1, <3>1
    <3>3. f[left] = g[left]
      BY <3>1, <3>2
    <3> QED
      BY <2>3, <3>3 DEF ConsistencyBody, k
  <2>4. CASE m # n /\ ~ (m <= k)
    <3>1. <<m - k, n - k>> \in GrowingSizes /\ k \in Nat /\ k >= 1
      <4>1. m < n
        BY <2>1, <2>4
      <4> HIDE DEF m, n
      <4> QED
        BY <4>1, <2>1, <2>4, HalvesAreGrowing
    <3> HIDE DEF k
    <3>2. right \in D /\ rank[right] = n - k /\ rank[x] = n /\ n - k < n
      <4>1. x[2] + k \in Nat /\ FALSE \in BOOLEAN
        BY <2>1, <3>1
      <4>2. right \in D
        BY <3>1, <4>1
      <4>3. rank[right] = n - k
        BY <4>2
      <4> QED
        BY <2>1, <3>1, <4>2, <4>3
    <3>3. f[right] = g[right]
      BY <3>2
    <3> QED
      BY <2>4, <3>3 DEF ConsistencyBody, k
  <2> QED
    BY <2>2, <2>3, <2>4
<1> HIDE DEF D, rank
<1>3. \E f : f = [x \in D |-> ConsistencyBody(leaves, f, x)]
  BY <1>1, <1>2, Consistency!RecursionHasSolution
<1>4. sub = [x \in D |-> ConsistencyBody(leaves, sub, x)]
  BY <1>3 DEF ConsistencyWithin, D
<1> HIDE DEF sub
<1>5. sub[q] = ConsistencyBody(leaves, sub, q)
  BY <1>4 DEF D
<1> QED
  BY <1>5 DEF sub

(* collectConsistency, case by case.                                       *)
LEMMA ConsistencyOfSame ==
    ASSUME NEW leaves, NEW n \in Nat, 0 < n, NEW lo \in Nat
    PROVE  /\ ConsistencyWithin(leaves)[<<<<n, n>>, lo, TRUE>>] = <<>>
           /\ ConsistencyWithin(leaves)[<<<<n, n>>, lo, FALSE>>] =
                <<BuildSubtree(leaves, lo, lo + n)>>
<1>1. <<n, n>> \in GrowingSizes
  BY DEF GrowingSizes
<1>2. ASSUME NEW b \in BOOLEAN
      PROVE  ConsistencyWithin(leaves)[<<<<n, n>>, lo, b>>] =
               ConsistencyBody(leaves, ConsistencyWithin(leaves), <<<<n, n>>, lo, b>>)
  BY <1>1, ConsistencyEquation
<1> QED
  BY <1>2 DEF ConsistencyBody

LEMMA ConsistencyOnLeft ==
    ASSUME NEW leaves, NEW m \in Nat, NEW n \in Nat, 0 < m, m < n,
           NEW lo \in Nat, NEW b \in BOOLEAN, m <= SplitPoint(n)
    PROVE  ConsistencyWithin(leaves)[<<<<m, n>>, lo, b>>] =
             Append(ConsistencyWithin(leaves)[<<<<m, SplitPoint(n)>>, lo, b>>],
                    BuildSubtree(leaves, lo + SplitPoint(n), lo + n))
<1>1. <<m, n>> \in GrowingSizes
  BY DEF GrowingSizes
<1>2. ConsistencyWithin(leaves)[<<<<m, n>>, lo, b>>] =
        ConsistencyBody(leaves, ConsistencyWithin(leaves), <<<<m, n>>, lo, b>>)
  BY <1>1, ConsistencyEquation
<1> QED
  BY <1>2 DEF ConsistencyBody

LEMMA ConsistencyOnRight ==
    ASSUME NEW leaves, NEW m \in Nat, NEW n \in Nat, 0 < m, m < n,
           NEW lo \in Nat, NEW b \in BOOLEAN, ~ (m <= SplitPoint(n))
    PROVE  ConsistencyWithin(leaves)[<<<<m, n>>, lo, b>>] =
             Append(ConsistencyWithin(leaves)[<<<<m - SplitPoint(n), n - SplitPoint(n)>>,
                                                lo + SplitPoint(n), FALSE>>],
                    BuildSubtree(leaves, lo, lo + SplitPoint(n)))
<1>1. <<m, n>> \in GrowingSizes
  BY DEF GrowingSizes
<1>2. ConsistencyWithin(leaves)[<<<<m, n>>, lo, b>>] =
        ConsistencyBody(leaves, ConsistencyWithin(leaves), <<<<m, n>>, lo, b>>)
  BY <1>1, ConsistencyEquation
<1> QED
  BY <1>2 DEF ConsistencyBody

-----------------------------------------------------------------------------
(* Consistency proofs, as they are verified.                               *)

FailedSubproof == [old |-> ZeroHash, new |-> ZeroHash, ok |-> FALSE, pos |-> 0]

SubproofOf(oldRoot, proof, sub, q) ==
    LET m == q[1][1]
        n == q[1][2]
        b == q[2]
        k == SplitPoint(n)
        in == IF m <= k THEN sub[<<<<m, k>>, b>>]
                        ELSE sub[<<<<m - k, n - k>>, FALSE>>]
        next == in.pos + 1
    IN  IF m = n
        THEN IF b
             THEN [old |-> oldRoot, new |-> oldRoot, ok |-> TRUE, pos |-> 0]
             ELSE IF proof = <<>> THEN FailedSubproof
             ELSE [old |-> proof[1], new |-> proof[1], ok |-> TRUE, pos |-> 1]
        ELSE IF ~in.ok \/ next > Len(proof) THEN FailedSubproof
        ELSE IF m <= k
        THEN [old |-> in.old, new |-> HashInternal(in.new, proof[next]),
              ok |-> TRUE, pos |-> next]
        ELSE [old |-> HashInternal(proof[next], in.old),
              new |-> HashInternal(proof[next], in.new),
              ok |-> TRUE, pos |-> next]

SubproofBody(p, sub, q) == SubproofOf(p[1], p[2], sub, q)

Subproof == INSTANCE Recursion WITH Def <- SubproofBody

SubproofWithin(oldRoot, proof) ==
    LET sub[q \in GrowingSizes \X BOOLEAN] == SubproofOf(oldRoot, proof, sub, q)
    IN  sub

LEMMA VerifySubproofIsWithin ==
    ASSUME NEW oldSize, NEW newSize, NEW oldRoot, NEW proof
    PROVE  VerifySubproof(oldSize, newSize, oldRoot, proof) =
             SubproofWithin(oldRoot, proof)[<<<<oldSize, newSize>>, TRUE>>]
BY DEF VerifySubproof, SubproofWithin, SubproofOf, FailedSubproof

LEMMA SubproofEquation ==
    ASSUME NEW oldRoot, NEW proof, NEW q \in GrowingSizes \X BOOLEAN
    PROVE  SubproofWithin(oldRoot, proof)[q] =
             SubproofOf(oldRoot, proof, SubproofWithin(oldRoot, proof), q)
<1> DEFINE D == GrowingSizes \X BOOLEAN
           rank == [x \in D |-> x[1][2]]
           p == <<oldRoot, proof>>
           sub == SubproofWithin(oldRoot, proof)
<1>1. rank \in [D -> Nat]
  BY DEF GrowingSizes
<1>2. \A f, g : \A x \in D :
          (\A y \in D : rank[y] < rank[x] => f[y] = g[y])
              => SubproofBody(p, f, x) = SubproofBody(p, g, x)
  <2> SUFFICES ASSUME NEW f, NEW g, NEW x \in D,
                      \A y \in D : rank[y] < rank[x] => f[y] = g[y]
               PROVE  SubproofBody(p, f, x) = SubproofBody(p, g, x)
    OBVIOUS
  <2> DEFINE m == x[1][1]
             n == x[1][2]
             k == SplitPoint(n)
             left == <<<<m, k>>, x[2]>>
             right == <<<<m - k, n - k>>, FALSE>>
  <2>1. m \in Nat /\ n \in Nat /\ 0 < m /\ m <= n /\ x[2] \in BOOLEAN
    BY DEF GrowingSizes
  <2>2. CASE m = n
    BY <2>2 DEF SubproofBody, SubproofOf
  <2>3. CASE m # n /\ m <= k
    <3>1. <<m, k>> \in GrowingSizes /\ k < n /\ k \in Nat
      <4>1. m < n
        BY <2>1, <2>3
      <4> HIDE DEF m, n
      <4> QED
        BY <4>1, <2>1, <2>3, HalvesAreGrowing
    <3> HIDE DEF k
    <3>2. left \in D /\ rank[left] = k /\ rank[x] = n
      BY <2>1, <3>1
    <3>3. f[left] = g[left]
      BY <3>1, <3>2
    <3> QED
      BY <2>3, <3>3 DEF SubproofBody, SubproofOf, k
  <2>4. CASE m # n /\ ~ (m <= k)
    <3>1. <<m - k, n - k>> \in GrowingSizes /\ k \in Nat /\ k >= 1
      <4>1. m < n
        BY <2>1, <2>4
      <4> HIDE DEF m, n
      <4> QED
        BY <4>1, <2>1, <2>4, HalvesAreGrowing
    <3> HIDE DEF k
    <3>2. right \in D /\ rank[right] = n - k /\ rank[x] = n /\ n - k < n
      <4>1. right \in D
        BY <3>1
      <4>2. rank[right] = n - k
        BY <4>1
      <4> QED
        BY <2>1, <3>1, <4>1, <4>2
    <3>3. f[right] = g[right]
      BY <3>2
    <3> QED
      BY <2>4, <3>3 DEF SubproofBody, SubproofOf, k
  <2> QED
    BY <2>2, <2>3, <2>4
<1> HIDE DEF D, rank, p
<1>3. \E f : f = [x \in D |-> SubproofBody(p, f, x)]
  BY <1>1, <1>2, Subproof!RecursionHasSolution
<1>4. sub = [x \in D |-> SubproofBody(p, sub, x)]
  BY <1>3 DEF SubproofWithin, D, p, SubproofBody
<1> HIDE DEF sub
<1>5. sub[q] = SubproofBody(p, sub, q)
  BY <1>4 DEF D
<1> QED
  BY <1>5 DEF sub, p, SubproofBody

(* verifySubproof has succeeded: the two hashes it returns, and the number *)
(* of proof elements it has consumed.                                      *)
Yields(got, old, new, pos) ==
    /\ got.ok
    /\ got.old = old
    /\ got.new = new
    /\ got.pos = pos

(* verifySubproof, case by case, when it succeeds.                         *)
LEMMA SubproofOfKnown ==
    ASSUME NEW oldRoot, NEW proof, NEW n \in Nat, 0 < n
    PROVE  Yields(SubproofWithin(oldRoot, proof)[<<<<n, n>>, TRUE>>],
                  oldRoot, oldRoot, 0)
<1>1. <<<<n, n>>, TRUE>> \in GrowingSizes \X BOOLEAN
  <2>1. <<n, n>> \in GrowingSizes
    BY DEF GrowingSizes
  <2> QED
    BY <2>1
<1>2. SubproofWithin(oldRoot, proof)[<<<<n, n>>, TRUE>>] =
        SubproofOf(oldRoot, proof, SubproofWithin(oldRoot, proof), <<<<n, n>>, TRUE>>)
  BY <1>1, SubproofEquation
<1>3. SubproofOf(oldRoot, proof, SubproofWithin(oldRoot, proof), <<<<n, n>>, TRUE>>)
        = [old |-> oldRoot, new |-> oldRoot, ok |-> TRUE, pos |-> 0]
  BY DEF SubproofOf
<1> QED
  BY <1>2, <1>3 DEF Yields

LEMMA SubproofOfUnknown ==
    ASSUME NEW oldRoot, NEW S, NEW proof \in Seq(S), NEW n \in Nat, 0 < n
    PROVE  /\ proof # <<>> =>
                Yields(SubproofWithin(oldRoot, proof)[<<<<n, n>>, FALSE>>],
                       proof[1], proof[1], 1)
           /\ proof = <<>> =>
                ~ SubproofWithin(oldRoot, proof)[<<<<n, n>>, FALSE>>].ok
<1>1. <<<<n, n>>, FALSE>> \in GrowingSizes \X BOOLEAN
  <2>1. <<n, n>> \in GrowingSizes
    BY DEF GrowingSizes
  <2> QED
    BY <2>1
<1>2. SubproofWithin(oldRoot, proof)[<<<<n, n>>, FALSE>>] =
        SubproofOf(oldRoot, proof, SubproofWithin(oldRoot, proof), <<<<n, n>>, FALSE>>)
  BY <1>1, SubproofEquation
<1>3. CASE proof # <<>>
  <2>1. SubproofOf(oldRoot, proof, SubproofWithin(oldRoot, proof), <<<<n, n>>, FALSE>>)
          = [old |-> proof[1], new |-> proof[1], ok |-> TRUE, pos |-> 1]
    BY <1>3 DEF SubproofOf
  <2> QED
    BY <1>2, <1>3, <2>1 DEF Yields
<1>4. CASE proof = <<>>
  <2>1. SubproofOf(oldRoot, proof, SubproofWithin(oldRoot, proof), <<<<n, n>>, FALSE>>)
          = FailedSubproof
    BY <1>4 DEF SubproofOf
  <2> QED
    BY <1>2, <1>4, <2>1 DEF FailedSubproof
<1> QED
  BY <1>3, <1>4

(* On the left of the split: the subproof within the left half, and one    *)
(* more element for the right half of the new tree.                        *)
LEMMA SubproofOnLeft ==
    ASSUME NEW oldRoot, NEW proof, NEW m \in Nat, NEW n \in Nat,
           0 < m, m < n, NEW b \in BOOLEAN, m <= SplitPoint(n),
           NEW in, in = SubproofWithin(oldRoot, proof)[<<<<m, SplitPoint(n)>>, b>>]
    PROVE  LET got == SubproofWithin(oldRoot, proof)[<<<<m, n>>, b>>]
           IN  /\ got.ok <=> in.ok /\ ~ (in.pos + 1 > Len(proof))
               /\ got.ok => Yields(got, in.old,
                                   HashInternal(in.new, proof[in.pos + 1]), in.pos + 1)
<1> DEFINE got == SubproofWithin(oldRoot, proof)[<<<<m, n>>, b>>]
           sub == SubproofWithin(oldRoot, proof)
<1>1. <<<<m, n>>, b>> \in GrowingSizes \X BOOLEAN
  BY DEF GrowingSizes
<1>2. got = SubproofOf(oldRoot, proof, sub, <<<<m, n>>, b>>)
  BY <1>1, SubproofEquation
<1>3. SubproofOf(oldRoot, proof, sub, <<<<m, n>>, b>>) =
        IF ~ in.ok \/ in.pos + 1 > Len(proof) THEN FailedSubproof
        ELSE [old |-> in.old, new |-> HashInternal(in.new, proof[in.pos + 1]),
              ok |-> TRUE, pos |-> in.pos + 1]
  BY DEF SubproofOf
<1> HIDE DEF got, sub
<1>4. CASE ~ in.ok \/ in.pos + 1 > Len(proof)
  <2>1. got = FailedSubproof
    BY <1>2, <1>3, <1>4
  <2>2. ~ got.ok
    BY <2>1 DEF FailedSubproof
  <2> QED
    BY <1>4, <2>2 DEF got
<1>5. CASE ~ (~ in.ok \/ in.pos + 1 > Len(proof))
  <2>1. got = [old |-> in.old, new |-> HashInternal(in.new, proof[in.pos + 1]),
               ok |-> TRUE, pos |-> in.pos + 1]
    BY <1>2, <1>3, <1>5
  <2>2. Yields(got, in.old, HashInternal(in.new, proof[in.pos + 1]), in.pos + 1)
    BY <2>1 DEF Yields
  <2>3. got.ok
    BY <2>1
  <2> QED
    BY <1>5, <2>2, <2>3 DEF got
<1> QED
  BY <1>4, <1>5

(* On the right of the split: the subproof within the right half, and one  *)
(* more element for the left half, which both trees share.                 *)
LEMMA SubproofOnRight ==
    ASSUME NEW oldRoot, NEW proof, NEW m \in Nat, NEW n \in Nat,
           0 < m, m < n, NEW b \in BOOLEAN, ~ (m <= SplitPoint(n)),
           NEW in, in = SubproofWithin(oldRoot, proof)[<<<<m - SplitPoint(n), n - SplitPoint(n)>>, FALSE>>]
    PROVE  LET got == SubproofWithin(oldRoot, proof)[<<<<m, n>>, b>>]
           IN  /\ got.ok <=> in.ok /\ ~ (in.pos + 1 > Len(proof))
               /\ got.ok => Yields(got, HashInternal(proof[in.pos + 1], in.old),
                                   HashInternal(proof[in.pos + 1], in.new), in.pos + 1)
<1> DEFINE got == SubproofWithin(oldRoot, proof)[<<<<m, n>>, b>>]
           sub == SubproofWithin(oldRoot, proof)
<1>1. <<<<m, n>>, b>> \in GrowingSizes \X BOOLEAN
  BY DEF GrowingSizes
<1>2. got = SubproofOf(oldRoot, proof, sub, <<<<m, n>>, b>>)
  BY <1>1, SubproofEquation
<1>3. SubproofOf(oldRoot, proof, sub, <<<<m, n>>, b>>) =
        IF ~ in.ok \/ in.pos + 1 > Len(proof) THEN FailedSubproof
        ELSE [old |-> HashInternal(proof[in.pos + 1], in.old),
              new |-> HashInternal(proof[in.pos + 1], in.new),
              ok |-> TRUE, pos |-> in.pos + 1]
  BY DEF SubproofOf
<1> HIDE DEF got, sub
<1>4. CASE ~ in.ok \/ in.pos + 1 > Len(proof)
  <2>1. got = FailedSubproof
    BY <1>2, <1>3, <1>4
  <2>2. ~ got.ok
    BY <2>1 DEF FailedSubproof
  <2> QED
    BY <1>4, <2>2 DEF got
<1>5. CASE ~ (~ in.ok \/ in.pos + 1 > Len(proof))
  <2>1. got = [old |-> HashInternal(proof[in.pos + 1], in.old),
               new |-> HashInternal(proof[in.pos + 1], in.new),
               ok |-> TRUE, pos |-> in.pos + 1]
    BY <1>2, <1>3, <1>5
  <2>2. Yields(got, HashInternal(proof[in.pos + 1], in.old),
               HashInternal(proof[in.pos + 1], in.new), in.pos + 1)
    BY <2>1 DEF Yields
  <2>3. got.ok
    BY <2>1
  <2> QED
    BY <1>5, <2>2, <2>3 DEF got
<1> QED
  BY <1>4, <1>5

-----------------------------------------------------------------------------
(* Computed proofs are accepted.                                           *)

(* `proof` starts with the elements of c.                                  *)
Starts(proof, c) ==
    /\ Len(c) <= Len(proof)
    /\ \A j \in 1 .. Len(c) : proof[j] = c[j]

LEMMA StartsWithLonger ==
    ASSUME NEW S, NEW c \in Seq(S), NEW x \in S, NEW proof,
           NEW longer, longer = Append(c, x), Starts(proof, longer),
           Len(proof) \in Nat
    PROVE  /\ longer \in Seq(S)
           /\ Len(longer) = Len(c) + 1
           /\ Starts(proof, c)
           /\ ~ (Len(c) + 1 > Len(proof))
           /\ proof[Len(c) + 1] = x
<1>1. /\ longer \in Seq(S)
      /\ Len(longer) = Len(c) + 1
      /\ longer[Len(c) + 1] = x
      /\ \A j \in 1 .. Len(c) : longer[j] = c[j]
      /\ Len(c) \in Nat
  OBVIOUS
<1> QED
  BY <1>1 DEF Starts

(* What collectConsistency yields for the last n leaves from lo on, and    *)
(* what verifySubproof makes of a proof that starts with it.               *)
Folds(leaves, oldRoot, proof, m, n, lo, b) ==
    LET c == ConsistencyWithin(leaves)[<<<<m, n>>, lo, b>>]
    IN  /\ c \in Seq(SubtreeHashes(leaves))
        /\ Starts(proof, c) /\ (b => oldRoot = BuildSubtree(leaves, lo, lo + m)) =>
             Yields(SubproofWithin(oldRoot, proof)[<<<<m, n>>, b>>],
                    BuildSubtree(leaves, lo, lo + m),
                    BuildSubtree(leaves, lo, lo + n), Len(c))

LEMMA FoldsOfSame ==
    ASSUME NEW leaves, NEW oldRoot, NEW R, NEW proof \in Seq(R),
           NEW n \in Nat, 0 < n, NEW lo \in Nat, NEW b \in BOOLEAN
    PROVE  Folds(leaves, oldRoot, proof, n, n, lo, b)
<1> DEFINE x == BuildSubtree(leaves, lo, lo + n)
<1>1. x \in SubtreeHashes(leaves)
  <2> DEFINE h == lo + n
  <2>1. h \in Nat /\ lo < h
    OBVIOUS
  <2> HIDE DEF h
  <2>2. BuildSubtree(leaves, lo, h) \in SubtreeHashes(leaves)
    BY <2>1, SubtreeIsSubtreeHash
  <2> QED
    BY <2>2 DEF h
<1> HIDE DEF x
<1>2. CASE b
  <2>1. ConsistencyWithin(leaves)[<<<<n, n>>, lo, b>>] = <<>>
    BY <1>2, ConsistencyOfSame
  <2>2. Yields(SubproofWithin(oldRoot, proof)[<<<<n, n>>, b>>], oldRoot, oldRoot, 0)
    BY <1>2, SubproofOfKnown
  <2> QED
    BY <1>2, <2>1, <2>2 DEF Folds
<1>3. CASE ~ b
  <2>1. ConsistencyWithin(leaves)[<<<<n, n>>, lo, b>>] = <<x>>
    BY <1>3, ConsistencyOfSame DEF x
  <2>2. <<x>> \in Seq(SubtreeHashes(leaves)) /\ Len(<<x>>) = 1 /\ <<x>>[1] = x
    BY <1>1
  <2>3. ASSUME Starts(proof, <<x>>)
        PROVE  Yields(SubproofWithin(oldRoot, proof)[<<<<n, n>>, b>>], x, x, 1)
    <3>1. Len(proof) >= 1 /\ proof[1] = x
      BY <2>2, <2>3 DEF Starts
    <3>2. proof # <<>>
      BY <3>1
    <3>3. b = FALSE
      BY <1>3
    <3> QED
      BY <3>1, <3>2, <3>3, SubproofOfUnknown
  <2> QED
    BY <2>1, <2>2, <2>3 DEF Folds, x
<1> QED
  BY <1>2, <1>3

LEMMA FoldsOnLeft ==
    ASSUME NEW leaves, NEW oldRoot, NEW R, NEW proof \in Seq(R),
           NEW m \in Nat, NEW n \in Nat, 0 < m, m < n, NEW lo \in Nat,
           NEW b \in BOOLEAN, m <= SplitPoint(n),
           Folds(leaves, oldRoot, proof, m, SplitPoint(n), lo, b)
    PROVE  Folds(leaves, oldRoot, proof, m, n, lo, b)
<1> DEFINE k == SplitPoint(n)
           S == SubtreeHashes(leaves)
           x == BuildSubtree(leaves, lo + k, lo + n)
           c == ConsistencyWithin(leaves)[<<<<m, k>>, lo, b>>]
           longer == ConsistencyWithin(leaves)[<<<<m, n>>, lo, b>>]
           in == SubproofWithin(oldRoot, proof)[<<<<m, k>>, b>>]
           got == SubproofWithin(oldRoot, proof)[<<<<m, n>>, b>>]
           old == BuildSubtree(leaves, lo, lo + m)
           new == BuildSubtree(leaves, lo, lo + k)
<1>1. longer = Append(c, x)
  BY ConsistencyOnLeft
<1>2. k \in Nat /\ 1 <= k /\ k < n
  BY HalvesAreGrowing
<1>3. x \in S
  <2> DEFINE l == lo + k
             h == lo + n
  <2>1. l \in Nat /\ h \in Nat /\ l < h
    BY <1>2
  <2> HIDE DEF l, h
  <2>2. BuildSubtree(leaves, l, h) \in S
    BY <2>1, SubtreeIsSubtreeHash
  <2> QED
    BY <2>2 DEF l, h
<1>4. BuildSubtree(leaves, lo, lo + n) = HashInternal(new, x)
  <2>1. n >= 2
    OBVIOUS
  <2> QED
    BY <2>1, SubtreeSplit
<1>5. /\ got.ok <=> in.ok /\ ~ (in.pos + 1 > Len(proof))
      /\ got.ok => Yields(got, in.old, HashInternal(in.new, proof[in.pos + 1]),
                          in.pos + 1)
  BY SubproofOnLeft
<1>6. /\ c \in Seq(S)
      /\ Starts(proof, c) /\ (b => oldRoot = old) => Yields(in, old, new, Len(c))
  BY DEF Folds
<1> HIDE DEF k, S, x, c, longer, in, got, old, new
<1>7. longer \in Seq(S)
  BY <1>1, <1>3, <1>6
<1>8. ASSUME Starts(proof, longer), b => oldRoot = old
      PROVE  Yields(got, old, HashInternal(new, x), Len(longer))
  <2>1. /\ Len(longer) = Len(c) + 1
        /\ Starts(proof, c)
        /\ ~ (Len(c) + 1 > Len(proof))
        /\ proof[Len(c) + 1] = x
    <3>1. Len(proof) \in Nat
      OBVIOUS
    <3> QED
      BY <3>1, <1>1, <1>3, <1>6, <1>8, StartsWithLonger
  <2>2. in.ok /\ in.old = old /\ in.new = new /\ in.pos = Len(c)
    BY <1>6, <1>8, <2>1 DEF Yields
  <2>3. got.ok
    BY <1>5, <2>1, <2>2
  <2> QED
    BY <1>5, <2>1, <2>2, <2>3
<1> QED
  BY <1>4, <1>7, <1>8 DEF Folds, S, longer, got, old

LEMMA FoldsOnRight ==
    ASSUME NEW leaves, NEW oldRoot, NEW R, NEW proof \in Seq(R),
           NEW m \in Nat, NEW n \in Nat, 0 < m, m < n, NEW lo \in Nat,
           NEW b \in BOOLEAN, ~ (m <= SplitPoint(n)),
           Folds(leaves, oldRoot, proof, m - SplitPoint(n), n - SplitPoint(n),
                 lo + SplitPoint(n), FALSE)
    PROVE  Folds(leaves, oldRoot, proof, m, n, lo, b)
<1> DEFINE k == SplitPoint(n)
           S == SubtreeHashes(leaves)
           x == BuildSubtree(leaves, lo, lo + k)
           c == ConsistencyWithin(leaves)[<<<<m - k, n - k>>, lo + k, FALSE>>]
           longer == ConsistencyWithin(leaves)[<<<<m, n>>, lo, b>>]
           in == SubproofWithin(oldRoot, proof)[<<<<m - k, n - k>>, FALSE>>]
           got == SubproofWithin(oldRoot, proof)[<<<<m, n>>, b>>]
           old == BuildSubtree(leaves, lo + k, lo + m)
           new == BuildSubtree(leaves, lo + k, lo + n)
<1>1. longer = Append(c, x)
  BY ConsistencyOnRight, ZenonT(60)
<1>2. /\ k \in Nat /\ 1 <= k /\ k < n
      /\ lo + k + (m - k) = lo + m
      /\ lo + k + (n - k) = lo + n
  <2>1. k \in Nat /\ 1 <= k /\ k < n
    BY HalvesAreGrowing
  <2> HIDE DEF k
  <2> QED
    BY <2>1
<1>3. x \in S
  <2> DEFINE h == lo + k
  <2>1. h \in Nat /\ lo < h
    BY <1>2
  <2> HIDE DEF h
  <2>2. BuildSubtree(leaves, lo, h) \in S
    BY <2>1, SubtreeIsSubtreeHash
  <2> QED
    BY <2>2 DEF h
<1>4. /\ BuildSubtree(leaves, lo, lo + n) = HashInternal(x, new)
      /\ BuildSubtree(leaves, lo, lo + m) = HashInternal(x, old)
  <2>1. m >= 2 /\ n >= 2
    BY <1>2
  <2>2. SplitPoint(m) = k
    BY <1>2, <2>1, SplitStable
  <2> QED
    BY <2>1, <2>2, SubtreeSplit
<1>5. /\ got.ok <=> in.ok /\ ~ (in.pos + 1 > Len(proof))
      /\ got.ok => Yields(got, HashInternal(proof[in.pos + 1], in.old),
                          HashInternal(proof[in.pos + 1], in.new), in.pos + 1)
  BY SubproofOnRight
<1>6. /\ c \in Seq(S)
      /\ Starts(proof, c) => Yields(in, old, new, Len(c))
  BY <1>2 DEF Folds
<1> HIDE DEF k, S, x, c, longer, in, got, old, new
<1>7. longer \in Seq(S)
  BY <1>1, <1>3, <1>6
<1>8. ASSUME Starts(proof, longer)
      PROVE  Yields(got, HashInternal(x, old), HashInternal(x, new), Len(longer))
  <2>1. /\ Len(longer) = Len(c) + 1
        /\ Starts(proof, c)
        /\ ~ (Len(c) + 1 > Len(proof))
        /\ proof[Len(c) + 1] = x
    <3>1. Len(proof) \in Nat
      OBVIOUS
    <3> QED
      BY <3>1, <1>1, <1>3, <1>6, <1>8, StartsWithLonger
  <2>2. in.ok /\ in.old = old /\ in.new = new /\ in.pos = Len(c)
    BY <1>6, <1>8, <2>1 DEF Yields
  <2>3. got.ok
    BY <1>5, <2>1, <2>2
  <2> QED
    BY <1>5, <2>1, <2>2, <2>3
<1> QED
  BY <1>4, <1>7, <1>8 DEF Folds, S, longer, got

LEMMA ConsistencyFolds ==
    ASSUME NEW leaves, NEW oldRoot, NEW R, NEW proof \in Seq(R),
           NEW m \in Nat, NEW n \in Nat, 0 < m, m <= n, NEW lo \in Nat,
           NEW b \in BOOLEAN
    PROVE  Folds(leaves, oldRoot, proof, m, n, lo, b)
<1> DEFINE T == {j \in Nat : \A i, l \in Nat, d \in BOOLEAN :
                     0 < i /\ i <= j => Folds(leaves, oldRoot, proof, i, j, l, d)}
<1>1. ASSUME NEW j \in Nat, \A h \in Nat : h < j => h \in T
      PROVE  j \in T
  <2> SUFFICES ASSUME NEW i \in Nat, NEW l \in Nat, NEW d \in BOOLEAN, 0 < i, i <= j
               PROVE  Folds(leaves, oldRoot, proof, i, j, l, d)
    OBVIOUS
  <2>1. CASE i = j
    BY <2>1, FoldsOfSame
  <2>2. CASE i # j
    <3>0. i < j
      BY <2>2
    <3> DEFINE k == SplitPoint(j)
    <3>1. k \in Nat /\ 1 <= k /\ k < j
      BY <3>0, HalvesAreGrowing
    <3>2. CASE i <= k
      <4>1. k \in T
        BY <1>1, <3>1
      <4>2. Folds(leaves, oldRoot, proof, i, k, l, d)
        BY <3>1, <3>2, <4>1
      <4> QED
        BY <3>0, <3>2, <4>2, FoldsOnLeft
    <3>3. CASE ~ (i <= k)
      <4>1. /\ j - k \in Nat /\ j - k < j /\ i - k \in Nat /\ 0 < i - k
            /\ i - k <= j - k /\ l + k \in Nat
        BY <3>1, <3>3
      <4>2. j - k \in T
        BY <1>1, <4>1
      <4>3. Folds(leaves, oldRoot, proof, i - k, j - k, l + k, FALSE)
        BY <4>1, <4>2
      <4> QED
        BY <3>0, <3>3, <4>3, FoldsOnRight
    <3> QED
      BY <3>2, <3>3
  <2> QED
    BY <2>1, <2>2
<1> HIDE DEF T
<1>2. \A j \in Nat : j \in T
  BY <1>1, Power!StrongInduction
<1> QED
  BY <1>2 DEF T

(* The root of the first n leaves is that of their slice.                  *)
LEMMA RootOfPrefix ==
    ASSUME NEW S, NEW leaves \in Seq(S), NEW n \in 1 .. Len(leaves)
    PROVE  BuildRoot(SubSeq(leaves, 1, n)) = BuildSubtree(leaves, 0, 0 + n)
<1> DEFINE first == SubSeq(leaves, 1, n)
<1>1. /\ first \in Seq(S) /\ Len(first) = n /\ n \in Nat /\ n >= 1 /\ 0 + n = n
      /\ \A i \in 1 .. n : first[0 + i] = leaves[0 + i]
  OBVIOUS
<1> HIDE DEF first
<1>2. first # <<>>
  BY <1>1
<1>3. BuildRoot(first) = BuildSubtree(first, 0, 0 + n)
  BY <1>1, <1>2 DEF BuildRoot
<1>4. SameLeaves(first, 0, leaves, 0, n)
  BY <1>1 DEF SameLeaves
<1>5. BuildSubtree(first, 0, 0 + n) = BuildSubtree(leaves, 0, 0 + n)
  BY <1>1, <1>4, SubtreeOfSameLeaves
<1> QED
  BY <1>3, <1>5 DEF first

LEMMA ConsistencyProofIsSequence ==
    ASSUME NEW leaves, NEW m \in Nat, NEW n \in Nat, 0 < m, m <= n
    PROVE  ConsistencyProof(m, n, leaves) \in Seq(SubtreeHashes(leaves))
<1>1. <<>> \in Seq({})
  OBVIOUS
<1>2. Folds(leaves, ZeroHash, <<>>, m, n, 0, TRUE)
  BY <1>1, ConsistencyFolds
<1>3. ConsistencyWithin(leaves)[<<<<m, n>>, 0, TRUE>>] \in Seq(SubtreeHashes(leaves))
  BY <1>2 DEF Folds
<1>4. <<>> \in Seq(SubtreeHashes(leaves))
  OBVIOUS
<1>5. CollectConsistency(m, n, leaves) =
        ConsistencyWithin(leaves)[<<<<m, n>>, 0, TRUE>>]
  BY CollectConsistencyIsWithin
<1> QED
  BY <1>3, <1>4, <1>5 DEF ConsistencyProof

(* The proof ConsistencyProof computes between two sizes of a list of      *)
(* leaves is accepted by VerifyConsistency, under the roots BuildRoot      *)
(* computes for the two prefixes, whatever the two sizes.                  *)
THEOREM ConsistencyIsComplete ==
    ASSUME NEW S, NEW leaves \in Seq(S), NEW m \in Nat, NEW n \in Nat,
           0 < m, m <= n, n <= Len(leaves)
    PROVE  VerifyConsistency(BuildRoot(SubSeq(leaves, 1, m)),
                             BuildRoot(SubSeq(leaves, 1, n)), m, n,
                             ConsistencyProof(m, n, leaves))
<1> DEFINE old == BuildRoot(SubSeq(leaves, 1, m))
           new == BuildRoot(SubSeq(leaves, 1, n))
           c == ConsistencyWithin(leaves)[<<<<m, n>>, 0, TRUE>>]
           got == SubproofWithin(old, c)[<<<<m, n>>, TRUE>>]
<1>1. CASE m = n
  BY <1>1 DEF VerifyConsistency, ConsistencyProof
<1>2. CASE m # n
  <2>1. /\ old = BuildSubtree(leaves, 0, 0 + m)
        /\ new = BuildSubtree(leaves, 0, 0 + n)
    <3>1. m \in 1 .. Len(leaves) /\ n \in 1 .. Len(leaves)
      OBVIOUS
    <3> QED
      BY <3>1, RootOfPrefix
  <2>2. ConsistencyProof(m, n, leaves) = c
    BY <1>2, CollectConsistencyIsWithin DEF ConsistencyProof
  <2> HIDE DEF old, new, c
  <2>3. c \in Seq(SubtreeHashes(leaves))
    BY <2>2, ConsistencyProofIsSequence
  <2>4. Folds(leaves, old, c, m, n, 0, TRUE)
    BY <2>3, ConsistencyFolds
  <2>5. Starts(c, c)
    BY <2>3 DEF Starts
  <2>6. Yields(got, old, new, Len(c))
    BY <2>1, <2>4, <2>5 DEF Folds, c
  <2>7. VerifySubproof(m, n, old, c) = got
    BY VerifySubproofIsWithin
  <2> HIDE DEF got
  <2>8. VerifyConsistency(old, new, m, n, c)
    BY <1>2, <2>6, <2>7 DEF VerifyConsistency, Yields
  <2> QED
    BY <2>2, <2>8 DEF old, new
<1> QED
  BY <1>1, <1>2

-----------------------------------------------------------------------------
(* Accepted proofs are of extensions.                                      *)

(* A subproof that comes out at the two subtrees pins the old leaves: they *)
(* are the first of the new ones.                                          *)
Pins(leaves, others, oldRoot, proof, m, n, l, o, b) ==
    LET got == SubproofWithin(oldRoot, proof)[<<<<m, n>>, b>>]
    IN  /\ got.ok
        /\ got.old = BuildSubtree(leaves, l, l + m)
        /\ got.new = BuildSubtree(others, o, o + n)
        /\ LeafHashes(leaves, l, m)
        /\ LeafHashes(others, o, n)
        => SameLeaves(leaves, l, others, o, m)

LEMMA LeafHashesOfHalves ==
    ASSUME NEW leaves, NEW l \in Nat, NEW n \in Nat, NEW k \in Nat, k < n,
           LeafHashes(leaves, l, n)
    PROVE  LeafHashes(leaves, l, k) /\ LeafHashes(leaves, l + k, n - k)
<1>1. ASSUME NEW i \in 1 .. k
      PROVE  \E data : leaves[l + i] = HashLeaf(data)
  <2>1. i \in 1 .. n
    OBVIOUS
  <2> QED
    BY <2>1 DEF LeafHashes
<1>2. ASSUME NEW i \in 1 .. (n - k)
      PROVE  \E data : leaves[l + k + i] = HashLeaf(data)
  <2>1. k + i \in 1 .. n /\ l + k + i = l + (k + i)
    OBVIOUS
  <2>2. \E data : leaves[l + (k + i)] = HashLeaf(data)
    BY <2>1 DEF LeafHashes
  <2> QED
    BY <2>1, <2>2
<1> QED
  BY <1>1, <1>2 DEF LeafHashes

LEMMA PinsOfSame ==
    ASSUME NEW leaves, NEW others, NEW oldRoot, NEW R, NEW proof \in Seq(R),
           NEW n \in Nat, 0 < n, NEW l \in Nat, NEW o \in Nat, NEW b \in BOOLEAN
    PROVE  Pins(leaves, others, oldRoot, proof, n, n, l, o, b)
<1> DEFINE got == SubproofWithin(oldRoot, proof)[<<<<n, n>>, b>>]
<1> SUFFICES ASSUME got.ok,
                    got.old = BuildSubtree(leaves, l, l + n),
                    got.new = BuildSubtree(others, o, o + n),
                    LeafHashes(leaves, l, n), LeafHashes(others, o, n)
             PROVE  SameLeaves(leaves, l, others, o, n)
  BY DEF Pins
<1>1. got.old = got.new
  <2>1. CASE b
    <3>1. b = TRUE
      BY <2>1
    <3>2. Yields(got, oldRoot, oldRoot, 0)
      BY <3>1, SubproofOfKnown
    <3> QED
      BY <3>2 DEF Yields
  <2>2. CASE ~ b
    <3>1. b = FALSE
      BY <2>2
    <3>2. proof # <<>>
      BY <3>1, SubproofOfUnknown
    <3>3. Yields(got, proof[1], proof[1], 1)
      BY <3>1, <3>2, SubproofOfUnknown
    <3> QED
      BY <3>3 DEF Yields
  <2> QED
    BY <2>1, <2>2
<1> HIDE DEF got
<1>2. BuildSubtree(leaves, l, l + n) = BuildSubtree(others, o, o + n) /\ n >= 1
  BY <1>1
<1> QED
  BY <1>2, SubtreeDeterminesLeaves

LEMMA PinsOnLeft ==
    ASSUME NEW leaves, NEW others, NEW oldRoot, NEW R, NEW proof \in Seq(R),
           NEW m \in Nat, NEW n \in Nat, 0 < m, m < n, NEW l \in Nat, NEW o \in Nat,
           NEW b \in BOOLEAN, m <= SplitPoint(n),
           Pins(leaves, others, oldRoot, proof, m, SplitPoint(n), l, o, b)
    PROVE  Pins(leaves, others, oldRoot, proof, m, n, l, o, b)
<1> DEFINE k == SplitPoint(n)
           in == SubproofWithin(oldRoot, proof)[<<<<m, k>>, b>>]
           got == SubproofWithin(oldRoot, proof)[<<<<m, n>>, b>>]
<1> SUFFICES ASSUME got.ok,
                    got.old = BuildSubtree(leaves, l, l + m),
                    got.new = BuildSubtree(others, o, o + n),
                    LeafHashes(leaves, l, m), LeafHashes(others, o, n)
             PROVE  SameLeaves(leaves, l, others, o, m)
  BY DEF Pins
<1>1. /\ in.ok
      /\ got.old = in.old
      /\ got.new = HashInternal(in.new, proof[in.pos + 1])
  BY SubproofOnLeft DEF Yields
<1>2. BuildSubtree(others, o, o + n) =
        HashInternal(BuildSubtree(others, o, o + k), BuildSubtree(others, o + k, o + n))
  <2>1. n >= 2
    OBVIOUS
  <2> QED
    BY <2>1, SubtreeSplit
<1>3. k \in Nat /\ k < n
  BY HalvesAreGrowing
<1>4. /\ in.ok
      /\ in.old = BuildSubtree(leaves, l, l + m)
      /\ in.new = BuildSubtree(others, o, o + k)
      /\ LeafHashes(others, o, k)
      => SameLeaves(leaves, l, others, o, m)
  BY DEF Pins
<1> HIDE DEF k, in, got
<1>5. in.new = BuildSubtree(others, o, o + k)
  BY <1>1, <1>2, InternalInjective
<1>6. LeafHashes(others, o, k)
  BY <1>3, LeafHashesOfHalves
<1> QED
  BY <1>1, <1>4, <1>5, <1>6

LEMMA PinsOnRight ==
    ASSUME NEW leaves, NEW others, NEW oldRoot, NEW R, NEW proof \in Seq(R),
           NEW m \in Nat, NEW n \in Nat, 0 < m, m < n, NEW l \in Nat, NEW o \in Nat,
           NEW b \in BOOLEAN, ~ (m <= SplitPoint(n)),
           Pins(leaves, others, oldRoot, proof, m - SplitPoint(n), n - SplitPoint(n),
                l + SplitPoint(n), o + SplitPoint(n), FALSE)
    PROVE  Pins(leaves, others, oldRoot, proof, m, n, l, o, b)
<1> DEFINE k == SplitPoint(n)
           in == SubproofWithin(oldRoot, proof)[<<<<m - k, n - k>>, FALSE>>]
           got == SubproofWithin(oldRoot, proof)[<<<<m, n>>, b>>]
           x == proof[in.pos + 1]
<1> SUFFICES ASSUME got.ok,
                    got.old = BuildSubtree(leaves, l, l + m),
                    got.new = BuildSubtree(others, o, o + n),
                    LeafHashes(leaves, l, m), LeafHashes(others, o, n)
             PROVE  SameLeaves(leaves, l, others, o, m)
  BY DEF Pins
<1>1. /\ in.ok
      /\ got.old = HashInternal(x, in.old)
      /\ got.new = HashInternal(x, in.new)
  <2>1. /\ got.ok <=> in.ok /\ ~ (in.pos + 1 > Len(proof))
        /\ got.ok => Yields(got, HashInternal(x, in.old), HashInternal(x, in.new),
                            in.pos + 1)
    BY SubproofOnRight
  <2> HIDE DEF got, in, x
  <2> QED
    BY <2>1 DEF Yields
<1>2. k \in Nat /\ 1 <= k /\ k < n /\ k < m
  <2>1. k \in Nat /\ 1 <= k /\ k < n
    BY HalvesAreGrowing
  <2> QED
    BY <2>1
<1>3. /\ BuildSubtree(others, o, o + n) =
           HashInternal(BuildSubtree(others, o, o + k), BuildSubtree(others, o + k, o + n))
      /\ BuildSubtree(leaves, l, l + m) =
           HashInternal(BuildSubtree(leaves, l, l + k), BuildSubtree(leaves, l + k, l + m))
  <2>1. m >= 2 /\ n >= 2
    BY <1>2
  <2>2. SplitPoint(m) = k
    BY <1>2, <2>1, SplitStable
  <2>3. BuildSubtree(leaves, l, l + m) =
          HashInternal(BuildSubtree(leaves, l, l + SplitPoint(m)),
                       BuildSubtree(leaves, l + SplitPoint(m), l + m))
    BY <2>1, SubtreeSplit
  <2>4. BuildSubtree(others, o, o + n) =
          HashInternal(BuildSubtree(others, o, o + k), BuildSubtree(others, o + k, o + n))
    BY <2>1, SubtreeSplit
  <2> QED
    BY <2>2, <2>3, <2>4
<1>4. /\ in.ok
      /\ in.old = BuildSubtree(leaves, l + k, l + k + (m - k))
      /\ in.new = BuildSubtree(others, o + k, o + k + (n - k))
      /\ LeafHashes(leaves, l + k, m - k)
      /\ LeafHashes(others, o + k, n - k)
      => SameLeaves(leaves, l + k, others, o + k, m - k)
  BY DEF Pins
<1> HIDE DEF k, in, got, x
<1>5. /\ l + k + (m - k) = l + m /\ o + k + (n - k) = o + n
      /\ m - k \in Nat /\ n - k \in Nat
  BY <1>2
<1>6. /\ x = BuildSubtree(leaves, l, l + k) /\ in.old = BuildSubtree(leaves, l + k, l + m)
      /\ x = BuildSubtree(others, o, o + k) /\ in.new = BuildSubtree(others, o + k, o + n)
  BY <1>1, <1>3, InternalInjective
<1>7. /\ LeafHashes(leaves, l, k) /\ LeafHashes(leaves, l + k, m - k)
      /\ LeafHashes(others, o, k) /\ LeafHashes(others, o + k, n - k)
  BY <1>2, LeafHashesOfHalves
<1>8. SameLeaves(leaves, l, others, o, k)
  <2>1. k >= 1 /\ BuildSubtree(leaves, l, l + k) = BuildSubtree(others, o, o + k)
    BY <1>2, <1>6
  <2> QED
    BY <1>2, <1>7, <2>1, SubtreeDeterminesLeaves
<1>9. SameLeaves(leaves, l + k, others, o + k, m - k)
  BY <1>1, <1>4, <1>5, <1>6, <1>7
<1>10. ASSUME NEW i \in 1 .. m
       PROVE  leaves[l + i] = others[o + i]
  <2>1. CASE i <= k
    BY <1>2, <1>8, <2>1 DEF SameLeaves
  <2>2. CASE ~ (i <= k)
    <3>1. i - k \in 1 .. (m - k) /\ l + k + (i - k) = l + i /\ o + k + (i - k) = o + i
      BY <1>2, <2>2
    <3>2. leaves[l + k + (i - k)] = others[o + k + (i - k)]
      BY <1>9, <3>1 DEF SameLeaves
    <3> QED
      BY <3>1, <3>2
  <2> QED
    BY <2>1, <2>2
<1> QED
  BY <1>10 DEF SameLeaves

LEMMA SubproofPins ==
    ASSUME NEW leaves, NEW others, NEW oldRoot, NEW R, NEW proof \in Seq(R),
           NEW m \in Nat, NEW n \in Nat, 0 < m, m <= n, NEW l \in Nat, NEW o \in Nat,
           NEW b \in BOOLEAN
    PROVE  Pins(leaves, others, oldRoot, proof, m, n, l, o, b)
<1> DEFINE T == {j \in Nat : \A i, u, v \in Nat, d \in BOOLEAN :
                     0 < i /\ i <= j =>
                        Pins(leaves, others, oldRoot, proof, i, j, u, v, d)}
<1>1. ASSUME NEW j \in Nat, \A h \in Nat : h < j => h \in T
      PROVE  j \in T
  <2> SUFFICES ASSUME NEW i \in Nat, NEW u \in Nat, NEW v \in Nat, NEW d \in BOOLEAN,
                      0 < i, i <= j
               PROVE  Pins(leaves, others, oldRoot, proof, i, j, u, v, d)
    OBVIOUS
  <2>1. CASE i = j
    BY <2>1, PinsOfSame
  <2>2. CASE i # j
    <3>0. i < j
      BY <2>2
    <3> DEFINE k == SplitPoint(j)
    <3>1. k \in Nat /\ 1 <= k /\ k < j
      BY <3>0, HalvesAreGrowing
    <3>2. CASE i <= k
      <4>1. k \in T
        BY <1>1, <3>1
      <4>2. Pins(leaves, others, oldRoot, proof, i, k, u, v, d)
        BY <3>1, <3>2, <4>1
      <4> QED
        BY <3>0, <3>2, <4>2, PinsOnLeft
    <3>3. CASE ~ (i <= k)
      <4>1. /\ j - k \in Nat /\ j - k < j /\ i - k \in Nat /\ 0 < i - k
            /\ i - k <= j - k /\ u + k \in Nat /\ v + k \in Nat
        BY <3>1, <3>3
      <4>2. j - k \in T
        BY <1>1, <4>1
      <4>3. Pins(leaves, others, oldRoot, proof, i - k, j - k, u + k, v + k, FALSE)
        BY <4>1, <4>2
      <4> HIDE DEF T
      <4> QED
        BY <3>0, <3>3, <4>3, PinsOnRight, ZenonT(60)
    <3> QED
      BY <3>2, <3>3
  <2> QED
    BY <2>1, <2>2
<1> HIDE DEF T
<1>2. \A j \in Nat : j \in T
  BY <1>1, Power!StrongInduction
<1> QED
  BY <1>2 DEF T

(* VerifyConsistency accepts nothing but extensions: whatever list is put  *)
(* forward as the proof, of any length and with any elements, it moves a   *)
(* verifier from the root of one list of leaf hashes to the root of        *)
(* another only when the first list is a prefix of the second.             *)
THEOREM ConsistencyIsSound ==
    ASSUME NEW S, NEW old \in Seq(S), NEW new \in Seq(S), old # <<>>, new # <<>>,
           LeafHashes(old, 0, Len(old)), LeafHashes(new, 0, Len(new)),
           NEW R, NEW proof \in Seq(R),
           VerifyConsistency(BuildRoot(old), BuildRoot(new), Len(old), Len(new), proof)
    PROVE  Len(old) <= Len(new) /\ SubSeq(new, 1, Len(old)) = old
<1> DEFINE m == Len(old)
           n == Len(new)
           oldRoot == BuildRoot(old)
           newRoot == BuildRoot(new)
<1>1. m \in Nat /\ n \in Nat /\ 0 < m /\ 0 < n /\ 0 + m = m /\ 0 + n = n
  OBVIOUS
<1>2. /\ oldRoot = BuildSubtree(old, 0, 0 + m)
      /\ newRoot = BuildSubtree(new, 0, 0 + n)
  BY <1>1 DEF BuildRoot
<1>3. VerifyConsistency(oldRoot, newRoot, m, n, proof)
  OBVIOUS
<1> HIDE DEF m, n, oldRoot, newRoot
<1>4. m <= n /\ SameLeaves(old, 0, new, 0, m)
  <2>1. CASE m = n
    <3>1. oldRoot = newRoot
      BY <1>3, <2>1 DEF VerifyConsistency
    <3>2. m >= 1 /\ n >= 1 /\ m <= n
      BY <1>1, <2>1
    <3>3. BuildSubtree(old, 0, 0 + m) = BuildSubtree(new, 0, 0 + n)
      BY <1>2, <3>1
    <3>4. LeafHashes(old, 0, m) /\ LeafHashes(new, 0, n)
      BY DEF m, n
    <3> QED
      BY <1>1, <3>2, <3>3, <3>4, SubtreeDeterminesLeaves
  <2>2. CASE m # n
    <3> DEFINE got == SubproofWithin(oldRoot, proof)[<<<<m, n>>, TRUE>>]
    <3>1. VerifySubproof(m, n, oldRoot, proof) = got
      BY VerifySubproofIsWithin
    <3> HIDE DEF got
    <3>2. m <= n /\ got.ok /\ got.old = oldRoot /\ got.new = newRoot
      BY <1>3, <2>2, <3>1 DEF VerifyConsistency
    <3>3. LeafHashes(old, 0, m) /\ LeafHashes(new, 0, n)
      BY DEF m, n
    <3>4. Pins(old, new, oldRoot, proof, m, n, 0, 0, TRUE)
      BY <1>1, <3>2, SubproofPins
    <3> QED
      BY <1>2, <3>2, <3>3, <3>4 DEF Pins, got
  <2> QED
    BY <2>1, <2>2
<1>5. \A i \in 1 .. m : old[i] = new[i]
  <2> SUFFICES ASSUME NEW i \in 1 .. m
               PROVE  old[i] = new[i]
    OBVIOUS
  <2>1. old[0 + i] = new[0 + i] /\ 0 + i = i
    BY <1>1, <1>4 DEF SameLeaves
  <2> QED
    BY <2>1
<1> QED
  BY <1>4, <1>5 DEF m, n

(* BuildRoot tells lists of leaf hashes apart: one root, one list, in the  *)
(* same order and of the same length.                                      *)
THEOREM RootDeterminesLeaves ==
    ASSUME NEW S, NEW old \in Seq(S), NEW new \in Seq(S), old # <<>>, new # <<>>,
           LeafHashes(old, 0, Len(old)), LeafHashes(new, 0, Len(new)),
           BuildRoot(old) = BuildRoot(new)
    PROVE  old = new
<1> DEFINE m == Len(old)
           n == Len(new)
<1>1. m \in Nat /\ n \in Nat /\ m >= 1 /\ n >= 1 /\ 0 + m = m /\ 0 + n = n
  OBVIOUS
<1>2. BuildSubtree(old, 0, 0 + m) = BuildSubtree(new, 0, 0 + n)
  BY <1>1 DEF BuildRoot
<1>3. LeafHashes(old, 0, m) /\ LeafHashes(new, 0, n)
  OBVIOUS
<1> HIDE DEF m, n
<1>4. m = n /\ SameLeaves(old, 0, new, 0, m)
  BY <1>1, <1>2, <1>3, SubtreeDeterminesLeaves
<1>5. \A i \in 1 .. m : old[i] = new[i]
  <2> SUFFICES ASSUME NEW i \in 1 .. m
               PROVE  old[i] = new[i]
    OBVIOUS
  <2>1. old[0 + i] = new[0 + i] /\ 0 + i = i
    BY <1>1, <1>4 DEF SameLeaves
  <2> QED
    BY <2>1
<1> QED
  BY <1>4, <1>5 DEF m, n

-----------------------------------------------------------------------------
(* The proofs over the hashes of a list, as the callers use them.          *)

(* The leaves of a list: the hash of each element.                         *)
HashesOf(s) == [i \in DOMAIN s |-> HashLeaf(s[i])]

LEMMA HashesOfFacts ==
    ASSUME NEW S, NEW s \in Seq(S)
    PROVE  /\ HashesOf(s) \in Seq({HashLeaf(d) : d \in S})
           /\ Len(HashesOf(s)) = Len(s)
           /\ \A i \in 1 .. Len(s) : HashesOf(s)[i] = HashLeaf(s[i])
<1>1. Len(s) \in Nat /\ DOMAIN s = 1 .. Len(s)
  OBVIOUS
<1> QED
  BY <1>1 DEF HashesOf

LEMMA InclusionOfElement ==
    ASSUME NEW S, NEW s \in Seq(S), NEW i \in 0 .. (Len(s) - 1)
    PROVE  VerifyInclusion(HashLeaf(s[i + 1]), BuildRoot(HashesOf(s)), i, Len(s),
                           InclusionProof(HashesOf(s), i))
<1> DEFINE leaves == HashesOf(s)
           H == {HashLeaf(d) : d \in S}
<1>1. /\ leaves \in Seq(H) /\ Len(leaves) = Len(s) /\ Len(s) \in Nat
      /\ \A j \in 1 .. Len(s) : leaves[j] = HashLeaf(s[j])
  <2>1. Len(s) \in Nat
    OBVIOUS
  <2> QED
    BY <2>1, HashesOfFacts
<1>2. i + 1 \in 1 .. Len(s) /\ i \in 0 .. (Len(leaves) - 1)
  BY <1>1
<1>3. leaves[i + 1] = HashLeaf(s[i + 1])
  BY <1>1, <1>2
<1> HIDE DEF leaves, H
<1>4. VerifyInclusion(leaves[i + 1], BuildRoot(leaves), i, Len(leaves),
                      InclusionProof(leaves, i))
  BY <1>1, <1>2, InclusionIsComplete
<1> QED
  BY <1>1, <1>3, <1>4 DEF leaves

LEMMA ConsistencyOfPrefix ==
    ASSUME NEW S, NEW s \in Seq(S), NEW m \in 1 .. Len(s)
    PROVE  VerifyConsistency(BuildRoot(HashesOf(SubSeq(s, 1, m))),
                             BuildRoot(HashesOf(s)), m, Len(s),
                             ConsistencyProof(m, Len(s), HashesOf(s)))
<1> DEFINE leaves == HashesOf(s)
           n == Len(s)
           first == SubSeq(s, 1, m)
           old == HashesOf(first)
           H == {HashLeaf(d) : d \in S}
<1>1. /\ leaves \in Seq(H) /\ Len(leaves) = n /\ n \in Nat
      /\ \A j \in 1 .. n : leaves[j] = HashLeaf(s[j])
  <2>1. n \in Nat
    OBVIOUS
  <2> QED
    BY <2>1, HashesOfFacts
<1>2. /\ first \in Seq(S) /\ Len(first) = m /\ m \in Nat /\ 0 < m /\ m <= n
      /\ \A j \in 1 .. m : first[j] = s[j]
  OBVIOUS
<1> HIDE DEF first
<1>3. /\ old \in Seq(H) /\ Len(old) = m
      /\ \A j \in 1 .. m : old[j] = HashLeaf(first[j])
  BY <1>2, HashesOfFacts
<1> HIDE DEF leaves, n, old, H
<1>4. \A j \in 1 .. m : old[j] = leaves[j]
  BY <1>1, <1>2, <1>3
<1>5. SubSeq(leaves, 1, m) = old
  BY <1>1, <1>2, <1>3, <1>4
<1>6. SubSeq(leaves, 1, n) = leaves
  BY <1>1
<1>7. VerifyConsistency(BuildRoot(SubSeq(leaves, 1, m)), BuildRoot(SubSeq(leaves, 1, n)),
                        m, n, ConsistencyProof(m, n, leaves))
  BY <1>1, <1>2, ConsistencyIsComplete
<1> QED
  BY <1>5, <1>6, <1>7 DEF leaves, n, old, first

LEMMA HashesAreLeafHashes ==
    ASSUME NEW S, NEW s \in Seq(S)
    PROVE  LeafHashes(HashesOf(s), 0, Len(HashesOf(s)))
<1>1. ASSUME NEW i \in 1 .. Len(HashesOf(s))
      PROVE  \E data : HashesOf(s)[0 + i] = HashLeaf(data)
  <2>0. Len(HashesOf(s)) = Len(s)
    BY HashesOfFacts
  <2>1. 0 + i = i /\ i \in 1 .. Len(s)
    BY <2>0
  <2>2. HashesOf(s)[i] = HashLeaf(s[i])
    BY <2>1, HashesOfFacts
  <2> QED
    BY <2>1, <2>2
<1> QED
  BY <1>1 DEF LeafHashes

(* What verifies at an index is the element at that index.                 *)
LEMMA ElementOfInclusion ==
    ASSUME NEW S, NEW s \in Seq(S), s # <<>>, NEW d, NEW i, NEW R, NEW proof \in Seq(R),
           VerifyInclusion(HashLeaf(d), BuildRoot(HashesOf(s)), i, Len(s), proof)
    PROVE  i \in 0 .. (Len(s) - 1) /\ s[i + 1] = d
<1> DEFINE leaves == HashesOf(s)
           H == {HashLeaf(e) : e \in S}
<1>1. /\ leaves \in Seq(H) /\ Len(leaves) = Len(s)
      /\ \A j \in 1 .. Len(s) : leaves[j] = HashLeaf(s[j])
  BY HashesOfFacts
<1>2. LeafHashes(leaves, 0, Len(leaves))
  BY HashesAreLeafHashes
<1>3. i \in 0 .. (Len(s) - 1)
  BY DEF VerifyInclusion
<1>4. leaves # <<>> /\ i \in 0 .. (Len(leaves) - 1) /\ i + 1 \in 1 .. Len(s)
  <2>1. Len(s) \in Nat /\ Len(s) # 0
    OBVIOUS
  <2> HIDE DEF leaves
  <2> QED
    BY <1>1, <1>3, <2>1
<1>5. VerifyInclusion(HashLeaf(d), BuildRoot(leaves), i, Len(leaves), proof)
  BY <1>1
<1> HIDE DEF leaves, H
<1>6. leaves[i + 1] = HashLeaf(d)
  BY <1>1, <1>2, <1>4, <1>5, InclusionIsSound
<1>7. HashLeaf(s[i + 1]) = HashLeaf(d)
  BY <1>1, <1>4, <1>6
<1> QED
  BY <1>3, <1>7, LeafInjective

(* What a consistency proof leads to extends what it comes from.           *)
LEMMA PrefixOfConsistency ==
    ASSUME NEW S, NEW s \in Seq(S), s # <<>>, NEW t \in Seq(S), t # <<>>,
           NEW R, NEW proof \in Seq(R),
           VerifyConsistency(BuildRoot(HashesOf(s)), BuildRoot(HashesOf(t)),
                             Len(s), Len(t), proof)
    PROVE  Len(s) <= Len(t) /\ SubSeq(t, 1, Len(s)) = s
<1> DEFINE old == HashesOf(s)
           new == HashesOf(t)
           H == {HashLeaf(e) : e \in S}
<1>1. /\ old \in Seq(H) /\ Len(old) = Len(s)
      /\ \A j \in 1 .. Len(s) : old[j] = HashLeaf(s[j])
  BY HashesOfFacts
<1>2. /\ new \in Seq(H) /\ Len(new) = Len(t)
      /\ \A j \in 1 .. Len(t) : new[j] = HashLeaf(t[j])
  BY HashesOfFacts
<1>3. LeafHashes(old, 0, Len(old)) /\ LeafHashes(new, 0, Len(new))
  BY HashesAreLeafHashes
<1>4. Len(s) \in Nat /\ Len(s) # 0 /\ Len(t) \in Nat /\ Len(t) # 0
  OBVIOUS
<1>5. VerifyConsistency(BuildRoot(old), BuildRoot(new), Len(old), Len(new), proof)
  BY <1>1, <1>2
<1> HIDE DEF old, new, H
<1>6. old # <<>> /\ new # <<>>
  BY <1>1, <1>2, <1>4
<1>7. Len(old) <= Len(new) /\ SubSeq(new, 1, Len(old)) = old
  BY <1>1, <1>2, <1>3, <1>5, <1>6, ConsistencyIsSound
<1>8. ASSUME NEW i \in 1 .. Len(s)
      PROVE  s[i] = t[i]
  <2>1. i \in 1 .. Len(t) /\ old[i] = new[i]
    BY <1>1, <1>2, <1>4, <1>7
  <2>2. HashLeaf(s[i]) = HashLeaf(t[i])
    BY <1>1, <1>2, <2>1
  <2> QED
    BY <2>2, LeafInjective
<1> QED
  BY <1>1, <1>2, <1>4, <1>7, <1>8

(* One root, one list.                                                     *)
LEMMA RootDeterminesList ==
    ASSUME NEW S, NEW s \in Seq(S), s # <<>>, NEW t \in Seq(S), t # <<>>,
           BuildRoot(HashesOf(s)) = BuildRoot(HashesOf(t))
    PROVE  s = t
<1> DEFINE old == HashesOf(s)
           new == HashesOf(t)
           H == {HashLeaf(e) : e \in S}
<1>1. /\ old \in Seq(H) /\ Len(old) = Len(s)
      /\ \A j \in 1 .. Len(s) : old[j] = HashLeaf(s[j])
  BY HashesOfFacts
<1>2. /\ new \in Seq(H) /\ Len(new) = Len(t)
      /\ \A j \in 1 .. Len(t) : new[j] = HashLeaf(t[j])
  BY HashesOfFacts
<1>3. LeafHashes(old, 0, Len(old)) /\ LeafHashes(new, 0, Len(new))
  BY HashesAreLeafHashes
<1>4. Len(s) \in Nat /\ Len(s) # 0 /\ Len(t) \in Nat /\ Len(t) # 0
  OBVIOUS
<1> HIDE DEF H
<1>5. old = new
  <2>1. BuildRoot(old) = BuildRoot(new)
    OBVIOUS
  <2> HIDE DEF old, new
  <2>2. old # <<>> /\ new # <<>>
    BY <1>1, <1>2, <1>4
  <2> QED
    BY <1>1, <1>2, <1>3, <2>1, <2>2, RootDeterminesLeaves
<1> HIDE DEF old, new
<1>6. ASSUME NEW i \in 1 .. Len(s)
      PROVE  s[i] = t[i]
  <2>1. HashLeaf(s[i]) = HashLeaf(t[i])
    BY <1>1, <1>2, <1>5
  <2> QED
    BY <2>1, LeafInjective
<1> QED
  BY <1>1, <1>2, <1>4, <1>5, <1>6
=============================================================================
