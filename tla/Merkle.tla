------------------------------- MODULE Merkle -------------------------------
(***************************************************************************)
(* The RFC 6962 tree of internal/merkle: roots, inclusion proofs and       *)
(* consistency proofs, and the two verifiers.                              *)
(*                                                                         *)
(* A hash is a term: SHA-256 with the 0x00 / 0x01 prefixes is taken to be  *)
(* injective and its leaf and internal images disjoint, so a leaf hash is  *)
(* <<"leaf", data>> and an internal one <<"node", left, right>>.           *)
(*                                                                         *)
(* The Go code slices `leaves`; here a slice leaves[lo:hi] is the pair lo, *)
(* hi of 0-based, half-open bounds into a 1-based sequence.                *)
(***************************************************************************)
EXTENDS Naturals, Sequences

HashLeaf(data) == <<"leaf", data>>

\* Mutant: the two children are combined without regard to their order.
HashInternalUnordered(left, right) == <<"node", {left, right}>>

HashInternal(left, right) == <<"node", left, right>>

\* [32]byte{}: the root of the empty tree and the result of a failed verify.
ZeroHash == <<"zero">>

-----------------------------------------------------------------------------
(* The smallest power of two that is at least n: where the loop            *)
(* `for k < n { k <<= 1 }` stops.                                          *)
PowerAtLeast[n \in Nat] ==
    IF n <= 1 THEN 1 ELSE 2 * PowerAtLeast[(n + 1) \div 2]

(* The largest power of two strictly below n; 0 when n = 1.                *)
SplitPoint(n) == PowerAtLeast[n] \div 2

\* The bounds of the slices that are not empty: every tree has a leaf.
Slices == {r \in Nat \X Nat : r[1] < r[2]}

\* buildSubtree(leaves[lo:hi]), for lo < hi.
BuildSubtree(leaves, lo, hi) ==
    LET sub[r \in Slices] ==
            LET l == r[1]
                h == r[2]
                mid == l + SplitPoint(h - l)
            IN  IF h - l = 1
                THEN leaves[h]
                ELSE HashInternal(sub[<<l, mid>>], sub[<<mid, h>>])
    IN  sub[<<lo, hi>>]

\* Mutant: an odd level is padded with a copy of its last leaf.
BuildRootPadded(leaves) ==
    LET padded == IF Len(leaves) % 2 = 0 \/ Len(leaves) = 1 THEN leaves
                  ELSE Append(leaves, leaves[Len(leaves)])
    IN  IF leaves = <<>> THEN ZeroHash
        ELSE BuildSubtree(padded, 0, Len(padded))

BuildRoot(leaves) ==
    IF leaves = <<>> THEN ZeroHash ELSE BuildSubtree(leaves, 0, Len(leaves))

-----------------------------------------------------------------------------
(* The audit path of leaves[index], siblings from the leaf up.             *)
CollectPath(leaves, index) ==
    LET path[r \in Slices] ==
            LET l == r[1]
                h == r[2]
                mid == l + SplitPoint(h - l)
            IN  IF h - l = 1 THEN <<>>
                ELSE IF index < mid
                THEN Append(path[<<l, mid>>], BuildSubtree(leaves, mid, h))
                ELSE Append(path[<<mid, h>>], BuildSubtree(leaves, l, mid))
    IN  path[<<0, Len(leaves)>>]

\* The error returns of InclusionProof: an empty tree, an index out of range.
InclusionProofDefined(leaves, index) == index \in 0 .. (Len(leaves) - 1)

InclusionProof(leaves, index) == CollectPath(leaves, index)

(* One turn of the descent to an index: into the half that holds it.       *)
Turn(at) ==
    LET k == SplitPoint(at.n)
    IN  IF at.i < k THEN [n |-> k, i |-> at.i] ELSE [n |-> at.n - k, i |-> at.i - k]

(* Where the descent to `index` stands after j turns: the size of the      *)
(* subtree and the index within it.  The loop runs once per proof element, *)
(* so it may go on below a single leaf, where SplitPoint is 0.             *)
Descent(index, treeSize) ==
    LET at[j \in Nat] ==
            IF j = 0 THEN [n |-> treeSize, i |-> index] ELSE Turn(at[j - 1])
    IN  at

\* Mutant: the first leaf of a right subtree is looked for on the left.
GoRightOffByOne(index, treeSize, j) ==
    LET at == Descent(index, treeSize)[j] IN at.i > SplitPoint(at.n)

GoRight(index, treeSize, j) ==
    LET at == Descent(index, treeSize)[j] IN at.i >= SplitPoint(at.n)

VerifyInclusion(leafHash, root, index, treeSize, proof) ==
    LET hash[j \in Nat] ==
            IF j = 0 THEN leafHash
            ELSE IF GoRight(index, treeSize, Len(proof) - j)
            THEN HashInternal(proof[j], hash[j - 1])
            ELSE HashInternal(hash[j - 1], proof[j])
    IN  /\ index \in 0 .. (treeSize - 1)
        /\ hash[Len(proof)] = root

-----------------------------------------------------------------------------
\* The pairs of an old and a new size a proof goes between.
GrowingSizes == {q \in Nat \X Nat : 0 < q[1] /\ q[1] <= q[2]}

\* Mutant: the flag b is kept on the way into the right subtree.
CollectConsistencyKeepsFlag(oldSize, newSize, leaves) ==
    LET sub[q \in Nat \X Nat \X Nat] ==
            LET m == q[1]
                n == q[2]
                lo == q[3]
                k == SplitPoint(n)
            IN  IF m = n THEN <<>>
                ELSE IF m <= k
                THEN Append(sub[<<m, k, lo>>],
                            BuildSubtree(leaves, lo + k, lo + n))
                ELSE Append(sub[<<m - k, n - k, lo + k>>],
                            BuildSubtree(leaves, lo, lo + k))
    IN  sub[<<oldSize, newSize, 0>>]

(* SUBPROOF(m, leaves[lo:lo+n], b): b says that the old tree's root is the *)
(* hash of this very subtree, which the verifier knows already.            *)
CollectConsistency(oldSize, newSize, leaves) ==
    LET sub[q \in GrowingSizes \X Nat \X BOOLEAN] ==
            LET m == q[1][1]
                n == q[1][2]
                lo == q[2]
                b == q[3]
                k == SplitPoint(n)
            IN  IF m = n
                THEN IF b THEN <<>> ELSE <<BuildSubtree(leaves, lo, lo + n)>>
                ELSE IF m <= k
                THEN Append(sub[<<<<m, k>>, lo, b>>],
                            BuildSubtree(leaves, lo + k, lo + n))
                ELSE Append(sub[<<<<m - k, n - k>>, lo + k, FALSE>>],
                            BuildSubtree(leaves, lo, lo + k))
    IN  sub[<<<<oldSize, newSize>>, 0, TRUE>>]

\* The error returns of ConsistencyProof.
ConsistencyProofDefined(oldSize, newSize, leaves) ==
    0 < oldSize /\ oldSize <= newSize /\ newSize <= Len(leaves)

ConsistencyProof(oldSize, newSize, leaves) ==
    IF oldSize = newSize THEN <<>>
    ELSE CollectConsistency(oldSize, newSize, leaves)

(* The old and the new hash the proof yields, whether it was long enough,  *)
(* and how many of its elements were consumed.                             *)
VerifySubproof(oldSize, newSize, oldRoot, proof) ==
    LET Failed == [old |-> ZeroHash, new |-> ZeroHash, ok |-> FALSE, pos |-> 0]
        sub[q \in GrowingSizes \X BOOLEAN] ==
            LET m == q[1][1]
                n == q[1][2]
                b == q[2]
                k == SplitPoint(n)
                in == IF m <= k THEN sub[<<<<m, k>>, b>>]
                                ELSE sub[<<<<m - k, n - k>>, FALSE>>]
                next == in.pos + 1
            IN  IF m = n
                THEN IF b
                     THEN [old |-> oldRoot, new |-> oldRoot, ok |-> TRUE, pos |-> 0]
                     ELSE IF proof = <<>> THEN Failed
                     ELSE [old |-> proof[1], new |-> proof[1], ok |-> TRUE, pos |-> 1]
                ELSE IF ~in.ok \/ next > Len(proof) THEN Failed
                ELSE IF m <= k
                THEN [old |-> in.old, new |-> HashInternal(in.new, proof[next]),
                      ok |-> TRUE, pos |-> next]
                ELSE [old |-> HashInternal(proof[next], in.old),
                      new |-> HashInternal(proof[next], in.new),
                      ok |-> TRUE, pos |-> next]
    IN  sub[<<<<oldSize, newSize>>, TRUE>>]

\* Mutant: the old root the proof yields is not compared with the known one.
VerifyConsistencyNewRootOnly(oldRoot, newRoot, oldSize, newSize, proof) ==
    IF oldSize = newSize
    THEN oldRoot = newRoot /\ proof = <<>>
    ELSE /\ 0 < oldSize
         /\ oldSize <= newSize
         /\ LET got == VerifySubproof(oldSize, newSize, oldRoot, proof)
            IN  got.ok /\ got.pos = Len(proof) /\ got.new = newRoot

VerifyConsistency(oldRoot, newRoot, oldSize, newSize, proof) ==
    IF oldSize = newSize
    THEN oldRoot = newRoot /\ proof = <<>>
    ELSE /\ 0 < oldSize
         /\ oldSize <= newSize
         /\ LET got == VerifySubproof(oldSize, newSize, oldRoot, proof)
            IN  /\ got.ok
                /\ got.pos = Len(proof)
                /\ got.old = oldRoot
                /\ got.new = newRoot
=============================================================================
