------------------------------- MODULE Ledger -------------------------------
(***************************************************************************)
(* The receipt ledger in its SQLite mode: the receipts and checkpoints     *)
(* tables (internal/store/sqlite.go), the handlers that ingest receipts    *)
(* (internal/api/ingest.go) and the checkpoint builder                     *)
(* (internal/checkpoint/builder.go).                                       *)
(*                                                                         *)
(* The database has one connection (SetMaxOpenConns(1)), so every store    *)
(* call is one atomic step.  Nothing serialises the callers of             *)
(* BuildAndSign: the batcher goroutine of cmd/siqlah/main.go and every     *)
(* POST /v1/checkpoints/build handler run its store calls interleaved.     *)
(*                                                                         *)
(* Abstractions:                                                           *)
(*   - a receipt is named by its row id: its UUID and its canonical bytes  *)
(*     are fresh for every ingested item, and the row is never updated     *)
(*     except for its batched column;                                      *)
(*   - the Merkle root of a batch is named by the list of the receipts     *)
(*     hashed into it (LogAuditor checks that BuildRoot tells lists        *)
(*     apart), and <<>> stands for previous_root_hex = "";                 *)
(*   - the timestamp and the operator's signature are left out.            *)
(***************************************************************************)
EXTENDS Naturals, Sequences, FiniteSets

CONSTANTS
    Builders,    \* concurrent callers of BuildAndSign
    Ticker,      \* the batcher goroutine, one of them
    MaxBatch,    \* Builder.maxBatch
    MaxItems,    \* bound: items of one POST /v1/receipts/batch (500 in the code)
    MaxRows,     \* bound: receipts ever ingested
    FaultKinds,  \* which store calls may fail, and "crash"
    MaxFaults    \* bound: faults with an effect in a behaviour

ASSUME LedgerAssumption ==
    /\ Ticker \in Builders
    /\ MaxBatch \in Nat \ {0}
    /\ MaxItems \in Nat
    /\ MaxRows \in Nat
    /\ MaxFaults \in Nat

VARIABLES
    rows,         \* receipts: the AUTOINCREMENT row ids are 1 .. rows
    batched,      \* receipts: the rows with batched = 1
    checkpoints,  \* checkpoints: the row with id i is checkpoints[i]
    pc,           \* where each builder stands in BuildAndSign
    stored,       \* builder: the row ids FetchUnbatched returned, rowIDs
    prevRoot,     \* builder: prevRootHex
    faults        \* faults so far

storeVars == <<rows, batched, checkpoints>>
builderVars == <<pc, stored, prevRoot>>
vars == <<rows, batched, checkpoints, pc, stored, prevRoot, faults>>

Stages == {"idle", "fetched", "signed", "saved"}

Checkpoint ==
    [batchStart : Nat, batchEnd : Nat, treeSize : Nat,
     root : Seq(Nat), prev : Seq(Nat)]

TypeOK ==
    /\ rows \in 0 .. MaxRows
    /\ batched \subseteq 1 .. rows
    /\ checkpoints \in Seq(Checkpoint)
    /\ pc \in [Builders -> Stages]
    /\ stored \in [Builders -> Seq(Nat)]
    /\ prevRoot \in [Builders -> Seq(Nat)]
    /\ faults \in 0 .. MaxFaults

-----------------------------------------------------------------------------
(* Queries.                                                                *)

\* ORDER BY id ASC.
Ascending(S) ==
    [i \in 1 .. Cardinality(S) |->
        CHOOSE x \in S : Cardinality({y \in S : y < x}) = i - 1]

\* LIMIT n.
Limit(s, n) == [i \in 1 .. (IF n < Len(s) THEN n ELSE Len(s)) |-> s[i]]

Unbatched == {i \in 1 .. rows : i \notin batched}

\* Mutant: ORDER BY id DESC, the newest receipts first.
FetchUnbatchedNewest(limit) ==
    LET s == Ascending(Unbatched)
        k == IF limit < Len(s) THEN limit ELSE Len(s)
    IN  [i \in 1 .. k |-> s[Len(s) - k + i]]

\* Mutant: the newest row is left for the next tick, and the next.
FetchUnbatchedLagging(limit) == Limit(Ascending(Unbatched \ {rows}), limit)

FetchUnbatched(limit) == Limit(Ascending(Unbatched), limit)

GetReceiptsByRange(startID, endID) ==
    Ascending({i \in 1 .. rows : startID <= i /\ i <= endID})

\* The root of the newest checkpoint, "" when there is none.
LatestRoot ==
    IF checkpoints = <<>> THEN <<>> ELSE checkpoints[Len(checkpoints)].root

-----------------------------------------------------------------------------
(* Faults: a store call that returns an error, or the process dying.       *)
Fault(kind) ==
    /\ kind \in FaultKinds
    /\ faults < MaxFaults
    /\ faults' = faults + 1

NoFault == UNCHANGED faults

-----------------------------------------------------------------------------
(* Ingestion.                                                              *)

\* POST /v1/receipts: one INSERT.
AppendReceipt ==
    /\ rows < MaxRows
    /\ rows' = rows + 1
    /\ UNCHANGED <<batched, checkpoints>>
    /\ NoFault
    /\ UNCHANGED builderVars

\* POST /v1/receipts/batch: n INSERTs in one transaction.
AppendReceiptsBatch(n) ==
    /\ rows + n <= MaxRows
    /\ rows' = rows + n
    /\ UNCHANGED <<batched, checkpoints>>
    /\ NoFault
    /\ UNCHANGED builderVars

(* A failed INSERT, or a failed transaction, rolled back with the          *)
(* AUTOINCREMENT sequence: no row and no gap in the ids is left.  (It has  *)
(* no effect, so it does not count as one of the MaxFaults.)               *)
AppendFails ==
    /\ rows < MaxRows
    /\ "append" \in FaultKinds
    /\ NoFault
    /\ UNCHANGED <<storeVars, builderVars>>

-----------------------------------------------------------------------------
(* BuildAndSign, one action per store call.                                *)

Goto(b, from, to) ==
    /\ pc[b] = from
    /\ pc' = [pc EXCEPT ![b] = to]

\* BuildAndSign returns, and its locals are gone.
Return(b, from) ==
    /\ Goto(b, from, "idle")
    /\ stored' = [stored EXCEPT ![b] = <<>>]
    /\ prevRoot' = [prevRoot EXCEPT ![b] = <<>>]

\* FetchUnbatched, and the leaves, the root and the bounds computed from it.
Fetch(b) ==
    /\ Goto(b, "idle", "fetched")
    /\ FetchUnbatched(MaxBatch) # <<>>
    /\ stored' = [stored EXCEPT ![b] = FetchUnbatched(MaxBatch)]
    /\ UNCHANGED prevRoot
    /\ NoFault
    /\ UNCHANGED storeVars

\* Returns nil, nil when there are no unbatched receipts.
FetchNothing(b) ==
    /\ pc[b] = "idle"
    /\ FetchUnbatched(MaxBatch) = <<>>
    /\ UNCHANGED vars

\* Without effect, like AppendFails.
FetchFails(b) ==
    /\ pc[b] = "idle"
    /\ "fetch" \in FaultKinds
    /\ NoFault
    /\ UNCHANGED <<storeVars, builderVars>>

\* Mutant: the previous root is taken from the batch being built.
ReadPreviousOwnRoot(b) ==
    /\ Goto(b, "fetched", "signed")
    /\ prevRoot' = [prevRoot EXCEPT ![b] = stored[b]]
    /\ UNCHANGED stored
    /\ NoFault
    /\ UNCHANGED storeVars

\* LatestCheckpoint, and the payload signed over its root.
ReadPrevious(b) ==
    /\ Goto(b, "fetched", "signed")
    /\ prevRoot' = [prevRoot EXCEPT ![b] = LatestRoot]
    /\ UNCHANGED stored
    /\ NoFault
    /\ UNCHANGED storeVars

(* The error of LatestCheckpoint is discarded: the checkpoint is signed as *)
(* if it were the first.                                                   *)
ReadPreviousFails(b) ==
    /\ Goto(b, "fetched", "signed")
    /\ prevRoot' = [prevRoot EXCEPT ![b] = <<>>]
    /\ UNCHANGED stored
    /\ Fault("latest")
    /\ UNCHANGED storeVars

\* Mutant: the end of the batch is read when the checkpoint is saved.
NewCheckpointEndAtSave(b) ==
    [batchStart |-> stored[b][1],
     batchEnd   |-> rows,
     treeSize   |-> Len(stored[b]),
     root       |-> stored[b],
     prev       |-> prevRoot[b]]

NewCheckpoint(b) ==
    [batchStart |-> stored[b][1],
     batchEnd   |-> stored[b][Len(stored[b])],
     treeSize   |-> Len(stored[b]),
     root       |-> stored[b],
     prev       |-> prevRoot[b]]

\* Mutant: a checkpoint replaces the newest one when both start alike.
SaveCheckpointReplaces(b) ==
    LET n == Len(checkpoints)
    IN  /\ Goto(b, "signed", "saved")
        /\ checkpoints' =
              IF n > 0 /\ checkpoints[n].batchStart = stored[b][1]
              THEN [checkpoints EXCEPT ![n] = NewCheckpoint(b)]
              ELSE Append(checkpoints, NewCheckpoint(b))
        /\ UNCHANGED <<rows, batched>>
        /\ NoFault
        /\ UNCHANGED <<stored, prevRoot>>

SaveCheckpoint(b) ==
    /\ Goto(b, "signed", "saved")
    /\ checkpoints' = Append(checkpoints, NewCheckpoint(b))
    /\ UNCHANGED <<rows, batched>>
    /\ NoFault
    /\ UNCHANGED <<stored, prevRoot>>

SaveCheckpointFails(b) ==
    /\ Return(b, "signed")
    /\ Fault("save")
    /\ UNCHANGED storeVars

\* Mutant: every row is marked, the ones ingested since the fetch included.
RowIDsAll(b) == 1 .. rows

RowIDs(b) == {stored[b][i] : i \in 1 .. Len(stored[b])}

MarkBatched(b) ==
    /\ Return(b, "saved")
    /\ batched' = batched \cup RowIDs(b)
    /\ UNCHANGED <<rows, checkpoints>>
    /\ NoFault

(* The checkpoint stays in the table; its receipts stay unbatched and are  *)
(* fetched again.                                                          *)
MarkBatchedFails(b) ==
    /\ Return(b, "saved")
    /\ Fault("mark")
    /\ UNCHANGED storeVars

(* The process stops, at any point of any build, and is started again on   *)
(* the same database.  (A shutdown is the same: main returns, and closes   *)
(* the store, without waiting for the batcher.)  Between builds there is   *)
(* nothing to lose.                                                        *)
Crash ==
    /\ \E b \in Builders : pc[b] # "idle"
    /\ Fault("crash")
    /\ pc' = [b \in Builders |-> "idle"]
    /\ stored' = [b \in Builders |-> <<>>]
    /\ prevRoot' = [b \in Builders |-> <<>>]
    /\ UNCHANGED storeVars

-----------------------------------------------------------------------------
Init ==
    /\ rows = 0
    /\ batched = {}
    /\ checkpoints = <<>>
    /\ pc = [b \in Builders |-> "idle"]
    /\ stored = [b \in Builders |-> <<>>]
    /\ prevRoot = [b \in Builders |-> <<>>]
    /\ faults = 0

Build(b) ==
    \/ Fetch(b)
    \/ ReadPrevious(b)
    \/ SaveCheckpoint(b)
    \/ MarkBatched(b)

BuildFails(b) ==
    \/ FetchFails(b)
    \/ ReadPreviousFails(b)
    \/ SaveCheckpointFails(b)
    \/ MarkBatchedFails(b)

Ingest ==
    \/ AppendReceipt
    \/ \E n \in 1 .. MaxItems : AppendReceiptsBatch(n)
    \/ AppendFails

\* A step of the running process.
Step ==
    \/ Ingest
    \/ \E b \in Builders : Build(b) \/ FetchNothing(b) \/ BuildFails(b)

Next == Step \/ Crash

(* The batcher ticks for as long as the process runs and finishes what it  *)
(* started.  Nothing is asked of clients or of their build requests.       *)
Fairness == WF_vars(Build(Ticker))

Spec == Init /\ [][Next]_vars
FairSpec == Spec /\ Fairness

-----------------------------------------------------------------------------
(* Properties.                                                             *)

Covers(cp, i) == cp.batchStart <= i /\ i <= cp.batchEnd

Covered(i) == \E c \in DOMAIN checkpoints : Covers(checkpoints[c], i)

(* A checkpoint's range, size and root agree: reading the rows batchStart  *)
(* .. batchEnd back, as the proof handler and the monitor do, gives the    *)
(* receipts that were hashed, no more, no fewer and in that order, however *)
(* the builders interleaved and whatever was ingested since.               *)
CheckpointMatchesItsRange ==
    \A c \in DOMAIN checkpoints :
        LET cp == checkpoints[c]
        IN  /\ GetReceiptsByRange(cp.batchStart, cp.batchEnd) = cp.root
            /\ Len(cp.root) = cp.treeSize

(* Save comes before mark: a row the builder will not look at again is in  *)
(* a checkpoint, whatever failed and wherever the process died.            *)
BatchedIsCovered == \A i \in batched : Covered(i)

(* The checkpoints never leave a hole behind: every row up to the end of a *)
(* checkpoint is in some checkpoint.                                       *)
NoGap ==
    \A c \in DOMAIN checkpoints :
        \A i \in 1 .. checkpoints[c].batchEnd : Covered(i)

(* previous_root_hex never points forward or at a root that was never      *)
(* published: it is empty or the root of an earlier checkpoint.            *)
PreviousIsEarlier ==
    \A c \in DOMAIN checkpoints :
        \/ checkpoints[c].prev = <<>>
        \/ \E d \in 1 .. (c - 1) : checkpoints[d].root = checkpoints[c].prev

(* The inductive invariant behind these.  The marks are a prefix of the    *)
(* rows, and a batch in flight is a run of rows that starts right after a  *)
(* prefix that is marked by now: another builder may have moved the prefix *)
(* on since the fetch, never back.                                         *)

\* The list s, s + 1, ..., e.
Batch(s, e) == [i \in 1 .. (e - s + 1) |-> s + i - 1]

BatchedIsPrefix == \E p \in 0 .. rows : batched = 1 .. p

InFlight(b) ==
    \E s, e \in 1 .. rows :
        /\ s <= e
        /\ stored[b] = Batch(s, e)
        /\ 1 .. (s - 1) \subseteq batched
        /\ pc[b] = "saved" =>
              \E c \in DOMAIN checkpoints :
                  checkpoints[c].batchStart = s /\ checkpoints[c].batchEnd = e

CheckpointIsBatch(cp) ==
    /\ cp.batchStart \in 1 .. rows
    /\ cp.batchEnd \in cp.batchStart .. rows
    /\ cp.root = Batch(cp.batchStart, cp.batchEnd)
    /\ cp.treeSize = cp.batchEnd - cp.batchStart + 1

PrevRootIsPublished(b) ==
    \/ prevRoot[b] = <<>>
    \/ \E c \in DOMAIN checkpoints : checkpoints[c].root = prevRoot[b]

(* The strengthening that makes the properties above inductive.            *)
IndInv ==
    /\ TypeOK
    /\ BatchedIsPrefix
    /\ \A b \in Builders : pc[b] # "idle" => InFlight(b)
    /\ \A c \in DOMAIN checkpoints : CheckpointIsBatch(checkpoints[c])
    /\ BatchedIsCovered
    /\ NoGap
    /\ \A b \in Builders : PrevRootIsPublished(b)
    /\ PreviousIsEarlier

(* docs/api.md and docs/witness-protocol.md section 6: previous_root_hex   *)
(* is the root of the immediately preceding checkpoint.                    *)
ChainLinked ==
    \A c \in DOMAIN checkpoints :
        checkpoints[c].prev = IF c = 1 THEN <<>> ELSE checkpoints[c - 1].root

(* What was published stays as it was: no step changes or removes a        *)
(* checkpoint or a receipt, or takes a batched mark back.                  *)
AppendOnly ==
    [][/\ rows <= rows'
       /\ batched \subseteq batched'
       /\ Len(checkpoints) <= Len(checkpoints')
       /\ \A c \in DOMAIN checkpoints : checkpoints'[c] = checkpoints[c]
      ]_storeVars

(* The ledger implements CheckpointLog: the rows are the log, a saved      *)
(* checkpoint is a published range, every other step is invisible.         *)
Log == INSTANCE CheckpointLog WITH
    size <- rows,
    published <- [c \in DOMAIN checkpoints |->
                    [first |-> checkpoints[c].batchStart,
                     last  |-> checkpoints[c].batchEnd]]

ImplementsCheckpointLog == Log!LogSpec

(* Every ingested receipt is checkpointed and leaves the pending set in    *)
(* the end, once the faults have stopped.                                  *)
EventuallyCheckpointed ==
    \A i \in 1 .. MaxRows : (i <= rows) ~> (Covered(i) /\ i \in batched)
=============================================================================
