------------------------------ MODULE Migrate -------------------------------
(***************************************************************************)
(* `siqlah migrate` (cmd/siqlah/migrate.go): the receipts of a SQLite      *)
(* ledger are copied, a range of row ids at a time, into a TesseraStore,   *)
(* which writes each one to its own SQLite table and then to the Tessera   *)
(* log.  A run that fails is started again by hand, from the beginning, on *)
(* the same destination.  The source ledger may be serving meanwhile.      *)
(*                                                                         *)
(* A receipt is named by its row id in the source.                         *)
(***************************************************************************)
EXTENDS Naturals, Sequences

CONSTANTS
    BatchSize,   \* --batch-size
    MaxSource,   \* bound: receipts ever in the source
    MaxRuns      \* bound: runs of the command

ASSUME MigrateAssumption ==
    /\ BatchSize \in Nat \ {0}
    /\ MaxSource \in Nat
    /\ MaxRuns \in Nat

VARIABLES
    source,       \* receipts of the source: the row ids are 1 .. source
    dst,          \* receipts of the destination, in row order
    log,          \* the Tessera log, in index order
    pc,           \* where the run stands
    total,        \* stats.TotalReceipts
    startID,      \* startID
    queue,        \* the receipts of the batch still to be appended
    runs,         \* runs started
    interrupted   \* runs that ended in log.Fatalf or were killed

runVars == <<pc, total, startID, queue>>
migrateVars == <<source, dst, log, pc, total, startID, queue, runs, interrupted>>

-----------------------------------------------------------------------------
\* The source's server ingests a receipt, before the run or during it.
SourceGrows ==
    /\ source < MaxSource
    /\ source' = source + 1
    /\ UNCHANGED <<dst, log, runVars, runs, interrupted>>

\* Mutant: a run takes up where the row ids of the destination end.
StartRunWhereRowsEnd ==
    /\ pc \in {"stopped", "done"}
    /\ runs < MaxRuns
    /\ runs' = runs + 1
    /\ pc' = "read"
    /\ total' = source
    /\ startID' = Len(dst) + 1
    /\ queue' = <<>>
    /\ UNCHANGED <<source, dst, log, interrupted>>

StartRun ==
    /\ pc \in {"stopped", "done"}
    /\ runs < MaxRuns
    /\ runs' = runs + 1
    /\ pc' = "read"
    /\ total' = source
    /\ startID' = 1
    /\ queue' = <<>>
    /\ UNCHANGED <<source, dst, log, interrupted>>

GetReceiptsByRange(first, last) ==
    LET end == IF last < source THEN last ELSE source
    IN  [i \in 1 .. (IF first <= end THEN end - first + 1 ELSE 0) |-> first + i - 1]

EndID(start) == start + BatchSize - 1

ReadBatch ==
    /\ pc = "read"
    /\ queue' = GetReceiptsByRange(startID, EndID(startID))
    /\ IF queue' = <<>>
       THEN pc' = "done" /\ UNCHANGED startID
       ELSE pc' = "insert" /\ startID' = startID + BatchSize
    /\ UNCHANGED <<source, dst, log, total, runs, interrupted>>

\* dstStore.AppendReceipt: the row first ...
InsertRow ==
    /\ pc = "insert"
    /\ dst' = Append(dst, Head(queue))
    /\ pc' = "log"
    /\ UNCHANGED <<source, log, total, startID, queue, runs, interrupted>>

\* ... then the log entry.
AppendEntry ==
    /\ pc = "log"
    /\ log' = Append(log, Head(queue))
    /\ queue' = Tail(queue)
    /\ pc' = IF queue' = <<>> THEN "read" ELSE "insert"
    /\ UNCHANGED <<source, dst, total, startID, runs, interrupted>>

\* Mutant: a receipt whose entry cannot be written is skipped.
StopRunSkips ==
    /\ pc = "log"
    /\ queue' = Tail(queue)
    /\ pc' = IF queue' = <<>> THEN "read" ELSE "insert"
    /\ UNCHANGED <<source, dst, log, total, startID, runs, interrupted>>

(* log.Fatalf on any error, or the process is killed.  The entry that was  *)
(* being written may be in the log.                                        *)
StopRun ==
    /\ pc \in {"read", "insert", "log"}
    /\ \/ UNCHANGED log
       \/ pc = "log" /\ log' = Append(log, Head(queue))
    /\ pc' = "stopped"
    /\ queue' = <<>>
    /\ interrupted' = interrupted + 1
    /\ UNCHANGED <<source, dst, total, startID, runs>>

-----------------------------------------------------------------------------
MigrateInit ==
    /\ source = 0
    /\ dst = <<>>
    /\ log = <<>>
    /\ pc = "stopped"
    /\ total = 0
    /\ startID = 1
    /\ queue = <<>>
    /\ runs = 0
    /\ interrupted = 0

MigrateNext ==
    \/ SourceGrows
    \/ StartRun
    \/ ReadBatch
    \/ InsertRow
    \/ AppendEntry
    \/ StopRun

MigrateSpec == MigrateInit /\ [][MigrateNext]_migrateVars

-----------------------------------------------------------------------------
(* When a run completes, what was in the source when it began is in the    *)
(* log, in the source's order, one after the other up to what came later.  *)
CompleteAndInOrder ==
    pc = "done" =>
        \E first \in 0 .. Len(log) :
            /\ first + total <= Len(log)
            /\ SubSeq(log, first + 1, first + total) = [i \in 1 .. total |-> i]

(* Rows and log entries of the destination part by one receipt at most for *)
(* every interrupted run.                                                  *)
RowsFollowLog ==
    /\ Len(log) <= Len(dst)
    /\ Len(dst) <= Len(log) + interrupted + (IF pc = "log" THEN 1 ELSE 0)
=============================================================================
