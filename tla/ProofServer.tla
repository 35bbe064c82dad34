---------------------------- MODULE ProofServer -----------------------------
(***************************************************************************)
(* The proof endpoints of internal/api/proof.go beside a running ledger:   *)
(* GET /v1/receipts/{id}/proof and                                         *)
(* GET /v1/checkpoints/{id}/consistency/{old_id}.                          *)
(*                                                                         *)
(* A request makes several store calls, each one atomic step, with         *)
(* ingestion, builds, faults and crashes of the ledger in between.  The    *)
(* requests only read, so one outstanding request stands for any number.   *)
(***************************************************************************)
EXTENDS Ledger, Merkle

VARIABLE request  \* the outstanding request and what it has read so far

serverVars == <<vars, request>>

NoRequest == [stage |-> "none"]

-----------------------------------------------------------------------------
(* Leaf hashes and the root a checkpoint's root_hex stands for.            *)

LeavesFromReceipts(receipts) == [i \in DOMAIN receipts |-> HashLeaf(receipts[i])]

RootHex(cp) == BuildRoot(LeavesFromReceipts(cp.root))

\* Mutant: the position is taken for a row id.
IndexOfRow(receipts, id) == {id - 1}

\* buildLeavesAndIndex: the 0-based position of the receipt, if it is there.
IndexOf(receipts, id) == {i - 1 : i \in {j \in DOMAIN receipts : receipts[j] = id}}

-----------------------------------------------------------------------------
(* GET /v1/receipts/{id}/proof.                                            *)

\* GetReceiptByID finds the row.
AskInclusion(id) ==
    /\ request.stage = "none"
    /\ request' = [stage |-> "found", id |-> id]
    /\ UNCHANGED vars

\* Mutant: the end of the range is taken to be exclusive.
CoveringExclusive(id) ==
    {c \in DOMAIN checkpoints :
        checkpoints[c].batchStart <= id /\ id < checkpoints[c].batchEnd}

(* WHERE batch_start <= row AND batch_end >= row LIMIT 1, with no ORDER    *)
(* BY: any covering checkpoint.                                            *)
GetCheckpointForRow(id) == {c \in DOMAIN checkpoints : Covers(checkpoints[c], id)}

LocateCheckpoint ==
    /\ request.stage = "found"
    /\ \/ \E c \in GetCheckpointForRow(request.id) :
             request' = [stage |-> "located", id |-> request.id, cp |-> c]
       \/ /\ GetCheckpointForRow(request.id) = {}
          /\ request' = [stage |-> "404", id |-> request.id]
    /\ UNCHANGED vars

(* GetReceiptsByRange over the checkpoint's range, and the answer built    *)
(* from it and from the size and root the checkpoint was saved with.       *)
AnswerInclusion ==
    /\ request.stage = "located"
    /\ LET cp == checkpoints[request.cp]
           receipts == GetReceiptsByRange(cp.batchStart, cp.batchEnd)
           leaves == LeavesFromReceipts(receipts)
           index == IndexOf(receipts, request.id)
       IN  request' =
             IF \E i \in index : InclusionProofDefined(leaves, i)
             THEN LET i == CHOOSE j \in index : InclusionProofDefined(leaves, j)
                  IN  [stage |-> "proof", id |-> request.id, cp |-> request.cp,
                       index |-> i, treeSize |-> cp.treeSize, root |-> RootHex(cp),
                       path |-> InclusionProof(leaves, i)]
             ELSE [stage |-> "500"]
    /\ UNCHANGED vars

-----------------------------------------------------------------------------
(* GET /v1/checkpoints/{id}/consistency/{old_id}.                          *)

\* GetCheckpoint twice.
AskConsistency(new, old) ==
    /\ request.stage = "none"
    /\ request' = [stage |-> "pair", new |-> new, old |-> old]
    /\ UNCHANGED vars

\* Mutant: the log is taken to begin at the checkpoint's own batch.
CumulativeReceiptsOfBatch(cp) == GetReceiptsByRange(cp.batchStart, cp.batchEnd)

\* All receipts from the first row to the end of a checkpoint.
CumulativeReceipts(cp) == GetReceiptsByRange(1, cp.batchEnd)

ReadOldReceipts ==
    /\ request.stage = "pair"
    /\ request' = [stage |-> "old", new |-> request.new, old |-> request.old,
                   receipts |-> CumulativeReceipts(checkpoints[request.old])]
    /\ UNCHANGED vars

AnswerConsistency ==
    /\ request.stage = "old"
    /\ LET newReceipts == CumulativeReceipts(checkpoints[request.new])
           oldSize == Len(request.receipts)
           newSize == Len(newReceipts)
           leaves == LeavesFromReceipts(newReceipts)
       IN  request' =
             IF oldSize >= newSize
             THEN [stage |-> "400", new |-> request.new, old |-> request.old]
             ELSE IF ~ConsistencyProofDefined(oldSize, newSize, leaves)
             THEN [stage |-> "500"]
             ELSE [stage |-> "consistency", new |-> request.new, old |-> request.old,
                   oldSize |-> oldSize, newSize |-> newSize,
                   oldRoot |-> BuildRoot(LeavesFromReceipts(request.receipts)),
                   newRoot |-> BuildRoot(leaves),
                   proof |-> ConsistencyProof(oldSize, newSize, leaves)]
    /\ UNCHANGED vars

\* The client has its answer.
Done ==
    /\ request.stage \in {"proof", "consistency", "400", "404", "500"}
    /\ request' = NoRequest
    /\ UNCHANGED vars

-----------------------------------------------------------------------------
ServerInit == Init /\ request = NoRequest

\* A crash of the ledger breaks the connection.
LedgerStep ==
    \/ Step /\ UNCHANGED request
    \/ Crash /\ request' = NoRequest

Serve ==
    \/ \E id \in 1 .. rows : AskInclusion(id)
    \/ LocateCheckpoint
    \/ AnswerInclusion
    \/ \E new, old \in DOMAIN checkpoints : AskConsistency(new, old)
    \/ ReadOldReceipts
    \/ AnswerConsistency
    \/ Done

ServerNext == LedgerStep \/ Serve

ServerSpec == ServerInit /\ [][ServerNext]_serverVars

-----------------------------------------------------------------------------
(* siqlah-verifier check-proof, with the answer of the proof endpoint: the *)
(* leaf hash is computed from the receipt the client has.                  *)
CheckProof(id, answer) ==
    VerifyInclusion(HashLeaf(id), answer.root, answer.index, answer.treeSize, answer.path)

-----------------------------------------------------------------------------
(* Properties.                                                             *)

(* Every inclusion proof the server hands out verifies for the receipt it  *)
(* was asked for (cmd/verifier check-proof), against a saved checkpoint's  *)
(* root and size, and at the receipt's place in that checkpoint.           *)
ServedInclusionVerifies ==
    request.stage = "proof" =>
        /\ CheckProof(request.id, request)
        /\ checkpoints[request.cp].batchStart + request.index = request.id

(* Every consistency proof verifies between the two roots of the answer,   *)
(* and the sizes are those of the log up to the two checkpoints.           *)
ServedConsistencyVerifies ==
    request.stage = "consistency" =>
        /\ VerifyConsistency(request.oldRoot, request.newRoot,
                             request.oldSize, request.newSize, request.proof)
        /\ request.oldSize = checkpoints[request.old].batchEnd
        /\ request.newSize = checkpoints[request.new].batchEnd

(* A receipt that was batched before it was asked for is not answered with *)
(* "has not been batched into a checkpoint yet", and no request ends in an *)
(* internal error of the proof code: the rows of a saved checkpoint are    *)
(* all there, the receipt among them, when they are read back.             *)
BatchedReceiptIsServed ==
    [][/\ request'.stage # "500"
       /\ request'.stage = "404" => request'.id \notin batched]_request
=============================================================================
