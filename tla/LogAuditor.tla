----------------------------- MODULE LogAuditor -----------------------------
(***************************************************************************)
(* What the verifiers of internal/merkle are for: an auditor holds the     *)
(* size and root of a tree it trusts, a log presents another tree, and the *)
(* auditor moves on only when a consistency proof verifies.  Nothing is    *)
(* assumed of the log: it may present any tree (an extension, a rewritten  *)
(* history, a shorter one) and any list of the hashes of both trees as the *)
(* proof.                                                                  *)
(***************************************************************************)
EXTENDS Merkle, FiniteSets, Functions

CONSTANTS
    Data,       \* canonical receipt bytes
    Trees,      \* the receipt lists the log may present, none of them empty
    MaxProof,   \* bound: elements of an arbitrary proof
    MaxForged   \* bound: receipts in a tree that arbitrary proofs are tried on

ASSUME AuditorAssumption ==
    /\ Trees \subseteq Seq(Data) \ {<<>>}
    /\ MaxProof \in Nat
    /\ MaxForged \in Nat

VARIABLES
    trusted,   \* the receipts under the root the auditor trusts
    presented  \* the receipts under the root the log presents

vars == <<trusted, presented>>

Leaves(tree) == [i \in DOMAIN tree |-> HashLeaf(tree[i])]

Root(tree) == BuildRoot(Leaves(tree))

\* Every hash that occurs in a tree: its leaves and its subtrees.
Hashes(tree) ==
    LET within[h \in Seq(Data)] ==
            IF Len(h) = 1 THEN {HashLeaf(h[1])}
            ELSE LET k == SplitPoint(Len(h))
                 IN  {Root(h)} \cup within[SubSeq(h, 1, k)]
                               \cup within[SubSeq(h, k + 1, Len(h))]
    IN  within[tree]

\* Every list of hashes of the two trees, in any order and number.
ArbitraryProofs ==
    IF Len(trusted) <= MaxForged /\ Len(presented) <= MaxForged
    THEN UNION {[1 .. n -> Hashes(trusted) \cup Hashes(presented)] : n \in 0 .. MaxProof}
    ELSE {}

IsPrefix(s, t) == Len(s) <= Len(t) /\ SubSeq(t, 1, Len(s)) = s

-----------------------------------------------------------------------------
Init ==
    /\ trusted \in Trees
    /\ presented = trusted

\* The log moves on, honestly or not.
Present(tree) ==
    /\ presented' = tree
    /\ UNCHANGED trusted

\* What ConsistencyProof returns to the log for the tree it presents.
ComputedProofs ==
    IF ConsistencyProofDefined(Len(trusted), Len(presented), Leaves(presented))
    THEN {ConsistencyProof(Len(trusted), Len(presented), Leaves(presented))}
    ELSE {}

\* The auditor checks a proof from its root to the presented one.
Audit ==
    /\ \E proof \in ComputedProofs \cup ArbitraryProofs :
          VerifyConsistency(Root(trusted), Root(presented),
                            Len(trusted), Len(presented), proof)
    /\ trusted' = presented
    /\ UNCHANGED presented

Next ==
    \/ \E tree \in Trees : Present(tree)
    \/ Audit

Spec == Init /\ [][Next]_vars

-----------------------------------------------------------------------------
(* VerifyConsistency is sound: no proof, of any length and any order of    *)
(* the hashes involved, moves the auditor to a tree that does not extend   *)
(* the one it trusted.                                                     *)
TrustedNeverRewritten == [][IsPrefix(trusted, trusted')]_trusted

(* VerifyConsistency is complete: the proof ConsistencyProof computes for  *)
(* an honest extension is accepted, whatever the two sizes.                *)
HonestExtensionAccepted ==
    IsPrefix(trusted, presented) =>
        VerifyConsistency(Root(trusted), Root(presented),
                          Len(trusted), Len(presented),
                          ConsistencyProof(Len(trusted), Len(presented),
                                           Leaves(presented)))

(* VerifyInclusion is complete: the audit path of every leaf verifies at   *)
(* its own index.                                                          *)
InclusionProofAccepted ==
    \A i \in 0 .. (Len(presented) - 1) :
        VerifyInclusion(HashLeaf(presented[i + 1]), Root(presented), i,
                        Len(presented), InclusionProof(Leaves(presented), i))

(* VerifyInclusion is sound: a receipt of either tree that verifies at an  *)
(* index, with some list of hashes of the two trees as the proof (too      *)
(* short and too long ones included), is the receipt at that index.        *)
IncludedReceiptIsThere ==
    \A i \in 0 .. (Len(presented) - 1), d \in Range(presented) \cup Range(trusted) :
        (\E proof \in ArbitraryProofs :
            VerifyInclusion(HashLeaf(d), Root(presented), i, Len(presented), proof))
        => presented[i + 1] = d

(* BuildRoot tells receipt lists apart: two trees with one root hold the   *)
(* same receipts in the same order and number.                             *)
RootDeterminesReceipts == Root(trusted) = Root(presented) => trusted = presented
=============================================================================
