----------------------------- MODULE LogProofs ------------------------------
(***************************************************************************)
(* Proofs about what a reader of the log may rely on: an auditor who moves *)
(* from root to root (LogAuditor), from the proofs about internal/merkle,  *)
(* and a reader who walks the published checkpoints (CheckpointLog), which *)
(* with LedgerRefinesCheckpointLog holds of the ledger.                    *)
(***************************************************************************)
EXTENDS CheckpointLog, LogAuditor, MerkleProofs

-----------------------------------------------------------------------------
(* The auditor.                                                            *)

Receipts == Seq(Data) \ {<<>>}

AuditorTypeOK == trusted \in Receipts /\ presented \in Receipts

(* The root of a list of receipts is that of their hashes.                 *)
LEMMA RootOfHashes ==
    ASSUME NEW tree
    PROVE  Leaves(tree) = HashesOf(tree) /\ Root(tree) = BuildRoot(HashesOf(tree))
BY DEF Leaves, HashesOf, Root

(* Whatever list of hashes the log sends, it is a sequence.                *)
LEMMA ProofsAreSequences ==
    ASSUME NEW proof \in ArbitraryProofs
    PROVE  \E R : proof \in Seq(R)
<1> DEFINE H == Hashes(trusted) \cup Hashes(presented)
<1> HIDE DEF H
<1>1. PICK n \in 0 .. MaxProof : proof \in [1 .. n -> H]
  BY DEF ArbitraryProofs, H
<1>2. n \in Nat
  BY AuditorAssumption
<1> QED
  BY <1>1, <1>2, SMTT(30)

(* Both lists of receipts stay what the log may present.                   *)
LEMMA AuditorTypes == Spec => []AuditorTypeOK
<1>1. \A tree \in Trees : tree \in Receipts
  BY AuditorAssumption DEF Receipts
<1>2. Init => AuditorTypeOK
  BY <1>1 DEF Init, AuditorTypeOK
<1>3. AuditorTypeOK /\ [Next]_vars => AuditorTypeOK'
  BY <1>1 DEF AuditorTypeOK, Next, Present, Audit, vars
<1> QED
  BY <1>2, <1>3, PTL DEF Spec

(* The auditor never moves to a tree that does not extend the one it       *)
(* trusts, whatever tree a log presents and whatever list of hashes it     *)
(* sends along: VerifyConsistency (internal/merkle/consistency.go) is      *)
(* sound for trees of every size and proofs of every length.               *)
THEOREM TrustedIsNeverRewritten == Spec => TrustedNeverRewritten
<1>1. ASSUME AuditorTypeOK, [Next]_vars
      PROVE  [IsPrefix(trusted, trusted')]_trusted
  <2>1. CASE Audit
    <3>1. PICK proof \in ComputedProofs \cup ArbitraryProofs :
             VerifyConsistency(Root(trusted), Root(presented),
                               Len(trusted), Len(presented), proof)
      BY <2>1 DEF Audit
    <3>2. \E R : proof \in Seq(R)
      <4>1. CASE proof \in ArbitraryProofs
        BY <4>1, ProofsAreSequences
      <4>2. CASE proof \in ComputedProofs
        <5> DEFINE m == Len(trusted)
                   n == Len(presented)
        <5>1. m \in Nat /\ n \in Nat
          BY <1>1 DEF AuditorTypeOK, Receipts
        <5>2. /\ proof = ConsistencyProof(m, n, Leaves(presented))
              /\ 0 < m /\ m <= n
          BY <4>2 DEF ComputedProofs, ConsistencyProofDefined
        <5>3. ConsistencyProof(m, n, Leaves(presented))
                \in Seq(SubtreeHashes(Leaves(presented)))
          BY <5>1, <5>2, ConsistencyProofIsSequence
        <5> QED
          BY <5>2, <5>3
      <4> QED
        BY <3>1, <4>1, <4>2
    <3>3. PICK R : proof \in Seq(R)
      BY <3>2
    <3>4. IsPrefix(trusted, presented)
      <4>1. /\ trusted \in Seq(Data) /\ trusted # <<>>
            /\ presented \in Seq(Data) /\ presented # <<>>
        BY <1>1 DEF AuditorTypeOK, Receipts
      <4>2. VerifyConsistency(BuildRoot(HashesOf(trusted)), BuildRoot(HashesOf(presented)),
                              Len(trusted), Len(presented), proof)
        BY <3>1, RootOfHashes
      <4> QED
        BY <3>3, <4>1, <4>2, PrefixOfConsistency DEF IsPrefix
    <3> QED
      BY <2>1, <3>4 DEF Audit
  <2> QED
    BY <1>1, <2>1 DEF Next, Present, vars
<1> QED
  BY <1>1, AuditorTypes, PTL DEF Spec, TrustedNeverRewritten

(* The proof ConsistencyProof computes for an honest extension is accepted *)
(* (internal/merkle/consistency.go), for every pair of sizes.              *)
THEOREM HonestExtensionsAreAccepted == Spec => []HonestExtensionAccepted
<1>1. ASSUME AuditorTypeOK, IsPrefix(trusted, presented)
      PROVE  VerifyConsistency(Root(trusted), Root(presented),
                               Len(trusted), Len(presented),
                               ConsistencyProof(Len(trusted), Len(presented),
                                                Leaves(presented)))
  <2>1. /\ trusted \in Seq(Data) /\ trusted # <<>> /\ presented \in Seq(Data)
        /\ Len(trusted) <= Len(presented)
        /\ SubSeq(presented, 1, Len(trusted)) = trusted
    BY <1>1 DEF AuditorTypeOK, Receipts, IsPrefix
  <2>2. Len(trusted) \in 1 .. Len(presented)
    BY <2>1
  <2>3. VerifyConsistency(BuildRoot(HashesOf(SubSeq(presented, 1, Len(trusted)))),
                          BuildRoot(HashesOf(presented)), Len(trusted), Len(presented),
                          ConsistencyProof(Len(trusted), Len(presented),
                                           HashesOf(presented)))
    BY <2>1, <2>2, ConsistencyOfPrefix
  <2>4. /\ Root(trusted) = BuildRoot(HashesOf(trusted))
        /\ Root(presented) = BuildRoot(HashesOf(presented))
        /\ Leaves(presented) = HashesOf(presented)
    BY RootOfHashes
  <2> QED
    BY <2>1, <2>3, <2>4
<1>2. AuditorTypeOK => HonestExtensionAccepted
  BY <1>1 DEF HonestExtensionAccepted
<1> QED
  BY <1>2, AuditorTypes, PTL

(* The audit path InclusionProof computes is accepted at its own index     *)
(* (internal/merkle/proof.go), for every leaf of a tree of every size.     *)
THEOREM InclusionProofsAreAccepted == Spec => []InclusionProofAccepted
<1>1. ASSUME AuditorTypeOK, NEW i \in 0 .. (Len(presented) - 1)
      PROVE  VerifyInclusion(HashLeaf(presented[i + 1]), Root(presented), i,
                             Len(presented), InclusionProof(Leaves(presented), i))
  <2>1. presented \in Seq(Data)
    BY <1>1 DEF AuditorTypeOK, Receipts
  <2> QED
    BY <1>1, <2>1, InclusionOfElement, RootOfHashes
<1>2. AuditorTypeOK => InclusionProofAccepted
  BY <1>1 DEF InclusionProofAccepted
<1> QED
  BY <1>2, AuditorTypes, PTL

(* A receipt that verifies at an index is the receipt at that index,       *)
(* whatever list of hashes is sent as the audit path, too short and too    *)
(* long ones included: VerifyInclusion (internal/merkle/proof.go) is       *)
(* sound although it takes the depth of the leaf from the proof's length.  *)
THEOREM IncludedReceiptsAreThere == Spec => []IncludedReceiptIsThere
<1>1. ASSUME AuditorTypeOK, NEW i \in 0 .. (Len(presented) - 1), NEW d,
             NEW proof \in ArbitraryProofs,
             VerifyInclusion(HashLeaf(d), Root(presented), i, Len(presented), proof)
      PROVE  presented[i + 1] = d
  <2>1. presented \in Seq(Data) /\ presented # <<>>
    BY <1>1 DEF AuditorTypeOK, Receipts
  <2>2. PICK R : proof \in Seq(R)
    BY <1>1, ProofsAreSequences
  <2>3. VerifyInclusion(HashLeaf(d), BuildRoot(HashesOf(presented)), i, Len(presented), proof)
    BY <1>1, RootOfHashes
  <2> QED
    BY <2>1, <2>2, <2>3, ElementOfInclusion
<1>2. AuditorTypeOK => IncludedReceiptIsThere
  BY <1>1 DEF IncludedReceiptIsThere
<1> QED
  BY <1>2, AuditorTypes, PTL

(* Two trees with one root hold the same receipts, in the same order and   *)
(* number (BuildRoot, internal/merkle/merkle.go).                          *)
THEOREM RootsDetermineReceipts == Spec => []RootDeterminesReceipts
<1>1. ASSUME AuditorTypeOK, Root(trusted) = Root(presented)
      PROVE  trusted = presented
  <2>1. /\ trusted \in Seq(Data) /\ trusted # <<>>
        /\ presented \in Seq(Data) /\ presented # <<>>
    BY <1>1 DEF AuditorTypeOK, Receipts
  <2>2. BuildRoot(HashesOf(trusted)) = BuildRoot(HashesOf(presented))
    BY <1>1, RootOfHashes
  <2> QED
    BY <2>1, <2>2, RootDeterminesList
<1>2. AuditorTypeOK => RootDeterminesReceipts
  BY <1>1 DEF RootDeterminesReceipts
<1> QED
  BY <1>2, AuditorTypes, PTL

-----------------------------------------------------------------------------
(* The published checkpoints.                                              *)

LogInv == LogTypeOK /\ PrefixCovered

(* An abstract step keeps the published ranges typed and gapless: a new    *)
(* range starts where some earlier one reached, so that what lies before   *)
(* it was covered already.                                                 *)
LEMMA LogStep ==
    ASSUME LogInv, [LogNext]_logVars
    PROVE  LogInv'
<1> USE DEF LogInv, LogTypeOK
<1>1. CASE UNCHANGED logVars
  BY <1>1 DEF logVars, PrefixCovered, IsCovered
<1>2. CASE Grow
  BY <1>2 DEF Grow, PrefixCovered, IsCovered
<1>3. ASSUME NEW first \in 1 .. size, NEW last \in 1 .. size, Publish(first, last)
      PROVE  LogInv'
  <2> DEFINE new == [first |-> first, last |-> last]
             n == Len(published) + 1
  <2>1. new \in Span
    BY DEF Span
  <2>2. /\ published' = Append(published, new)
        /\ size' = size
    BY <1>3 DEF Publish
  <2> HIDE DEF new
  <2>3. /\ published' \in Seq(Span)
        /\ DOMAIN published' = 1 .. n
        /\ DOMAIN published = 1 .. (n - 1)
        /\ published'[n] = new
        /\ \A c \in DOMAIN published : published'[c] = published[c]
    BY <2>1, <2>2
  <2>4. \A i : IsCovered(i) => IsCovered(i)'
    BY <2>3 DEF IsCovered
  <2>5. \A i \in first .. last : IsCovered(i)'
    <3> TAKE i \in first .. last
    <3>1. n \in DOMAIN published' /\ published'[n].first <= i /\ i <= published'[n].last
      BY <2>3 DEF new
    <3> QED
      BY <3>1 DEF IsCovered
  <2>6. \A i \in 1 .. (first - 1) : IsCovered(i)'
    <3> TAKE i \in 1 .. (first - 1)
    <3>1. PICK c \in DOMAIN published : published[c].last + 1 >= first
      BY <1>3 DEF Publish, Reached
    <3>2. published[c].last \in Nat
      <4>1. published[c] \in Span
        BY <3>1
      <4> QED
        BY <4>1 DEF Span
    <3>3. i \in 1 .. published[c].last
      BY <3>1, <3>2
    <3>4. IsCovered(i)
      BY <3>1, <3>3 DEF PrefixCovered
    <3> QED
      BY <3>4, <2>4
  <2>7. ASSUME NEW c \in DOMAIN published', NEW i \in 1 .. published'[c].last
        PROVE  IsCovered(i)'
    <3>1. CASE c = n
      BY <3>1, <2>3, <2>5, <2>6 DEF new
    <3>2. CASE c \in DOMAIN published
      BY <3>2, <2>3, <2>4 DEF PrefixCovered
    <3> QED
      BY <3>1, <3>2, <2>3
  <2>8. PrefixCovered'
    BY <2>7 DEF PrefixCovered
  <2> QED
    BY <2>2, <2>3, <2>8
<1> QED
  BY <1>1, <1>2, <1>3 DEF LogNext

(* Whoever walks the published checkpoints meets every receipt up to the   *)
(* furthest one any of them reaches.                                       *)
THEOREM PublishedPrefixIsCovered == LogSpec => []PrefixCovered
<1>1. LogInit => LogInv
  BY DEF LogInit, LogInv, LogTypeOK, PrefixCovered
<1>2. LogInv /\ [LogNext]_logVars => LogInv'
  BY LogStep
<1>3. LogInv => PrefixCovered
  BY DEF LogInv
<1> QED
  BY <1>1, <1>2, <1>3, PTL DEF LogSpec
=============================================================================
