--------------------------- MODULE TesseraLedger ----------------------------
(***************************************************************************)
(* The ledger in its Tessera mode: TesseraStore writes a receipt to SQLite *)
(* and then to the Tessera log (internal/store/tessera_store.go), and      *)
(* TesseraBuilder saves checkpoints over the log's own checkpoint          *)
(* (internal/checkpoint/builder.go).                                       *)
(*                                                                         *)
(* The ingest handlers run concurrently, each between its INSERT and its   *)
(* log appends.  The Tessera library is external: Add gives an entry the   *)
(* next index for good, and from time to time a checkpoint is published    *)
(* over the entries sequenced so far.  One goroutine builds: the manual    *)
(* build endpoint has no builder in this mode.                             *)
(*                                                                         *)
(* A receipt is named by its row id, and a root by the list of the         *)
(* receipts hashed into it; <<>> stands for previous_root_hex = "".        *)
(***************************************************************************)
EXTENDS Merkle, FiniteSets, SequencesExt

CONSTANTS
    Handlers,        \* concurrent ingest requests
    MaxItems,        \* bound: items of one request (500 in the code)
    MaxRows,         \* bound: receipts ever ingested
    MaxCheckpoints,  \* bound: checkpoints ever built
    FaultKinds,      \* which calls may fail, and "crash"
    MaxFaults        \* bound: faults in a behaviour

ASSUME TesseraAssumption ==
    /\ IsFiniteSet(Handlers)
    /\ MaxItems \in Nat
    /\ MaxRows \in Nat
    /\ MaxCheckpoints \in Nat
    /\ MaxFaults \in Nat

VARIABLES
    rows,         \* receipts: the row ids are 1 .. rows
    accepted,     \* the rows whose client got a 201
    log,          \* the Tessera log, as row ids: index i is log[i + 1]
    logSize,      \* size of Tessera's latest checkpoint, 0 before the first
    checkpoints,  \* checkpoints: the row with id i is checkpoints[i]
    batch,        \* handler: the rows it inserted
    added,        \* handler: how many of them it has added to the log
    pc,           \* where the builder stands in BuildAndSign
    size,         \* builder: the log size it read
    prevRoot,     \* builder: prevRootHex
    lookup,       \* an outstanding call of GetLogInclusionProof or GetLogConsistencyProof
    faults        \* faults so far

handlerVars == <<batch, added>>
builderVars == <<pc, size, prevRoot>>
vars == <<rows, accepted, log, logSize, checkpoints, batch, added, pc, size,
          prevRoot, lookup, faults>>

NoLookup == [stage |-> "none"]

Fault(kind) ==
    /\ kind \in FaultKinds
    /\ faults < MaxFaults
    /\ faults' = faults + 1

NoFault == UNCHANGED faults

RowsOf(h) == {batch[h][i] : i \in DOMAIN batch[h]}

-----------------------------------------------------------------------------
(* AppendReceipt and AppendReceiptsBatch.                                  *)

\* The INSERTs, one transaction.
Insert(h, n) ==
    /\ batch[h] = <<>>
    /\ rows + n <= MaxRows
    /\ rows' = rows + n
    /\ batch' = [batch EXCEPT ![h] = [i \in 1 .. n |-> rows + i]]
    /\ added' = [added EXCEPT ![h] = 0]
    /\ NoFault
    /\ UNCHANGED <<accepted, log, logSize, checkpoints, builderVars, lookup>>

\* The request returns.
Return(h) ==
    /\ batch' = [batch EXCEPT ![h] = <<>>]
    /\ added' = [added EXCEPT ![h] = 0]

\* log.Append of the next receipt of the batch.
LogAppend(h) ==
    /\ added[h] < Len(batch[h])
    /\ log' = Append(log, batch[h][added[h] + 1])
    /\ added' = [added EXCEPT ![h] = @ + 1]
    /\ NoFault
    /\ UNCHANGED <<rows, accepted, logSize, checkpoints, batch, builderVars, lookup>>

\* Mutant: 201 as soon as the first receipt of the batch is in the log.
RespondEarly(h) ==
    /\ added[h] > 0
    /\ accepted' = accepted \cup RowsOf(h)
    /\ Return(h)
    /\ NoFault
    /\ UNCHANGED <<rows, log, logSize, checkpoints, builderVars, lookup>>

\* 201 when all of them are in the log.
Respond(h) ==
    /\ batch[h] # <<>>
    /\ added[h] = Len(batch[h])
    /\ accepted' = accepted \cup RowsOf(h)
    /\ Return(h)
    /\ NoFault
    /\ UNCHANGED <<rows, log, logSize, checkpoints, builderVars, lookup>>

(* log.Append returns an error: 500, the rows stay and the rest of the     *)
(* batch is never added.  The failed entry itself may have been sequenced. *)
LogAppendFails(h) ==
    /\ added[h] < Len(batch[h])
    /\ Fault("append")
    /\ log' \in {log, Append(log, batch[h][added[h] + 1])}
    /\ Return(h)
    /\ UNCHANGED <<rows, accepted, logSize, checkpoints, builderVars, lookup>>

-----------------------------------------------------------------------------
(* Tessera integrates the sequenced entries, and every 5 s publishes a     *)
(* checkpoint over what is integrated.                                     *)
TesseraPublishes(n) ==
    /\ n > logSize
    /\ logSize' = n
    /\ NoFault
    /\ UNCHANGED <<rows, accepted, log, checkpoints, handlerVars, builderVars, lookup>>

-----------------------------------------------------------------------------
(* TesseraBuilder.BuildAndSign.                                            *)

\* GetLogCheckpoint fails, or the log is empty: nothing is built.
BuildNothing ==
    /\ pc = "idle"
    /\ UNCHANGED vars

GetLogCheckpoint ==
    /\ pc = "idle"
    /\ logSize > 0
    /\ Len(checkpoints) < MaxCheckpoints
    /\ pc' = "read"
    /\ size' = logSize
    /\ NoFault
    /\ UNCHANGED <<rows, accepted, log, logSize, checkpoints, handlerVars, prevRoot, lookup>>

ReadPrevious ==
    /\ pc = "read"
    /\ pc' = "signed"
    /\ prevRoot' = IF checkpoints = <<>> THEN <<>>
                   ELSE checkpoints[Len(checkpoints)].root
    /\ NoFault
    /\ UNCHANGED <<rows, accepted, log, logSize, checkpoints, handlerVars, size, lookup>>

\* The error of LatestCheckpoint is discarded.
ReadPreviousFails ==
    /\ pc = "read"
    /\ Fault("latest")
    /\ pc' = "signed"
    /\ prevRoot' = <<>>
    /\ UNCHANGED <<rows, accepted, log, logSize, checkpoints, handlerVars, size, lookup>>

BuildReturns ==
    /\ pc' = "idle"
    /\ size' = 0
    /\ prevRoot' = <<>>

\* Mutant: the root is that of the log by now, the size the one read before.
NewCheckpointRootAtSave ==
    [batchStart |-> 0, batchEnd |-> size - 1, treeSize |-> size,
     root |-> SubSeq(log, 1, logSize), prev |-> prevRoot]

NewCheckpoint ==
    [batchStart |-> 0, batchEnd |-> size - 1, treeSize |-> size,
     root |-> SubSeq(log, 1, size), prev |-> prevRoot]

SaveCheckpoint ==
    /\ pc = "signed"
    /\ checkpoints' = Append(checkpoints, NewCheckpoint)
    /\ BuildReturns
    /\ NoFault
    /\ UNCHANGED <<rows, accepted, log, logSize, handlerVars, lookup>>

SaveCheckpointFails ==
    /\ pc = "signed"
    /\ Fault("save")
    /\ BuildReturns
    /\ UNCHANGED <<rows, accepted, log, logSize, checkpoints, handlerVars, lookup>>

\* The receipts the handlers are adding to the log right now.
BeingAdded ==
    {batch[h][added[h] + 1] : h \in {g \in Handlers : added[g] < Len(batch[g])}}

(* The process stops and is started again on the same database and log.    *)
(* Any of the entries being added may have been sequenced.                 *)
Crash ==
    /\ Fault("crash")
    /\ \E late \in SetToAllKPermutations(BeingAdded) : log' = log \o late
    /\ batch' = [h \in Handlers |-> <<>>]
    /\ added' = [h \in Handlers |-> 0]
    /\ BuildReturns
    /\ lookup' = NoLookup
    /\ UNCHANGED <<rows, accepted, logSize, checkpoints>>

-----------------------------------------------------------------------------
(* GetLogInclusionProof and GetLogConsistencyProof: a proof for the tree   *)
(* size the caller passes, which some checkpoint had, and then the root of *)
(* the checkpoint that is the latest by then.                              *)

LeavesOf(receipts) == [i \in DOMAIN receipts |-> HashLeaf(receipts[i])]

\* The tree of the first n entries, as the tiles have it.
LogLeaves(n) == LeavesOf(SubSeq(log, 1, n))

\* Mutant: the proof is for all the entries that were sequenced.
LogInclusionProofOfAll(index, n) == InclusionProof(LogLeaves(Len(log)), index)

LogInclusionProof(index, n) == InclusionProof(LogLeaves(n), index)

LogConsistencyProof(old, n) == ConsistencyProof(old, n, LogLeaves(n))

ProveInclusion(index, n) ==
    /\ lookup = NoLookup
    /\ n <= logSize
    /\ lookup' = [stage |-> "inclusion", index |-> index, size |-> n,
                  path |-> LogInclusionProof(index, n)]
    /\ NoFault
    /\ UNCHANGED <<rows, accepted, log, logSize, checkpoints, handlerVars, builderVars>>

ProveConsistency(old, n) ==
    /\ lookup = NoLookup
    /\ n <= logSize
    /\ lookup' = [stage |-> "consistency", old |-> old, size |-> n,
                  path |-> LogConsistencyProof(old, n)]
    /\ NoFault
    /\ UNCHANGED <<rows, accepted, log, logSize, checkpoints, handlerVars, builderVars>>

RootHash == BuildRoot(LogLeaves(logSize))

AnswerLookup ==
    /\ lookup.stage \in {"inclusion", "consistency"}
    /\ lookup' = [stage |-> "answered", for |-> lookup, root |-> RootHash]
    /\ NoFault
    /\ UNCHANGED <<rows, accepted, log, logSize, checkpoints, handlerVars, builderVars>>

LookupDone ==
    /\ lookup.stage = "answered"
    /\ lookup' = NoLookup
    /\ NoFault
    /\ UNCHANGED <<rows, accepted, log, logSize, checkpoints, handlerVars, builderVars>>

-----------------------------------------------------------------------------
Init ==
    /\ rows = 0
    /\ accepted = {}
    /\ log = <<>>
    /\ logSize = 0
    /\ checkpoints = <<>>
    /\ batch = [h \in Handlers |-> <<>>]
    /\ added = [h \in Handlers |-> 0]
    /\ pc = "idle"
    /\ size = 0
    /\ prevRoot = <<>>
    /\ lookup = NoLookup
    /\ faults = 0

Ingest(h) ==
    \/ \E n \in 1 .. MaxItems : Insert(h, n)
    \/ LogAppend(h)
    \/ Respond(h)
    \/ LogAppendFails(h)

Build ==
    \/ GetLogCheckpoint
    \/ ReadPrevious
    \/ SaveCheckpoint

BuildFails ==
    \/ ReadPreviousFails
    \/ SaveCheckpointFails

LookUp ==
    \/ \E n \in 1 .. logSize : \E index \in 0 .. n - 1 : ProveInclusion(index, n)
    \/ \E n \in 1 .. logSize : \E old \in 1 .. n : ProveConsistency(old, n)
    \/ AnswerLookup
    \/ LookupDone

LedgerNext ==
    \/ \E h \in Handlers : Ingest(h)
    \/ \E n \in 1 .. Len(log) : TesseraPublishes(n)
    \/ Build
    \/ BuildNothing
    \/ BuildFails
    \/ Crash

Next == LedgerNext \/ LookUp

Spec == Init /\ [][Next]_vars

-----------------------------------------------------------------------------
(* Properties.                                                             *)

(* A 201 is only sent for receipts that are in the log, each once, however *)
(* the requests interleave and whichever append fails.                     *)
AcceptedIsLoggedOnce ==
    \A r \in accepted : Cardinality({i \in DOMAIN log : log[i] = r}) = 1

(* The saved checkpoints are consistent with one another: each is over a   *)
(* prefix of the later ones, across faults and restarts, its size and root *)
(* were read together, and none runs ahead of what Tessera itself signed.  *)
CheckpointsAreConsistent ==
    \A c, d \in DOMAIN checkpoints :
        c <= d => /\ IsPrefix(checkpoints[c].root, checkpoints[d].root)
                  /\ Len(checkpoints[c].root) = checkpoints[c].treeSize
                  /\ checkpoints[c].treeSize <= logSize

(* The answer of a log proof call verifies, for the entry and the sizes    *)
(* that were asked for, exactly when the root that came with it is the     *)
(* root of the size asked for, which it is if that was the latest size and *)
(* no checkpoint was published between the two reads.  An answer put       *)
(* together from two checkpoints never verifies for something else.        *)
LogProofIsOfItsRoot ==
    lookup.stage = "answered" =>
        LET ask   == lookup.for
            right == lookup.root = BuildRoot(LogLeaves(ask.size))
        IN  /\ ask.stage = "inclusion" =>
                  (right <=> VerifyInclusion(HashLeaf(log[ask.index + 1]), lookup.root,
                                             ask.index, ask.size, ask.path))
            /\ ask.stage = "consistency" =>
                  (right <=> VerifyConsistency(BuildRoot(LogLeaves(ask.old)), lookup.root,
                                               ask.old, ask.size, ask.path))

(* CHANGELOG.md, phase 16: "Tessera-backed inclusion and consistency       *)
(* proofs".  What GET /v1/receipts/{id}/proof answers in this mode, from   *)
(* the SQLite rows batchStart .. batchEnd, verifies against the checkpoint *)
(* it names.                                                               *)
ProofVerifies(cp, id) ==
    LET receipts == [i \in 1 .. cp.batchEnd |-> i]
        leaves == LeavesOf(receipts)
    IN  VerifyInclusion(HashLeaf(id), BuildRoot(LeavesOf(cp.root)), id - 1,
                        cp.treeSize, InclusionProof(leaves, id - 1))

InclusionProofsVerify ==
    \A c \in DOMAIN checkpoints, id \in 1 .. rows :
        checkpoints[c].batchStart <= id /\ id <= checkpoints[c].batchEnd =>
            ProofVerifies(checkpoints[c], id)
=============================================================================
