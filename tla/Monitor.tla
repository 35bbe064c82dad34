------------------------------- MODULE Monitor ------------------------------
(***************************************************************************)
(* The discrepancy monitor (internal/monitor) beside a running ledger: on  *)
(* every tick it asks for the stats, for the newest checkpoints and for    *)
(* the receipts of each one's range, and alerts for every receipt whose    *)
(* verified token counts differ too much from the provider's.  Every HTTP  *)
(* request is one step, with ingestion, builds, faults and crashes of the  *)
(* ledger in between.                                                      *)
(*                                                                         *)
(* The counts of each row are chosen at the start, as if the receipts to   *)
(* come were known.  Verified counts come with a receipt that is put into  *)
(* the store; the ingest handlers of this server leave them at zero (see   *)
(* Receipts), and such a receipt is one of the choices.                    *)
(***************************************************************************)
EXTENDS Ledger

CONSTANTS
    Counts,     \* the token counts a receipt may have
    Threshold,  \* Monitor.threshold, in percent
    RoundsUp,   \* a difference of exactly Threshold percent comes out above it
    PageSize    \* checkpoints asked for on a tick (50 in the code)

ASSUME MonitorAssumption ==
    /\ Counts \subseteq [input : Nat, output : Nat,
                         verifiedInput : Nat, verifiedOutput : Nat]
    /\ Threshold \in Nat
    /\ RoundsUp \in BOOLEAN
    /\ Threshold < 100 => (RoundsUp <=> Threshold \in {7, 14, 28, 55, 56})
    /\ PageSize \in Nat \ {0}

VARIABLES
    counts,   \* the token counts of each row
    tick,     \* the tick that is running
    alerted,  \* the rows the webhook has received an alert for
    missed    \* history: the rows this tick could not fetch or deliver

monitorVars == <<counts, tick, alerted, missed>>
allVars == <<vars, monitorVars>>

NoTick == [stage |-> "waiting"]

-----------------------------------------------------------------------------
(* checkReceipt.                                                           *)

Distance(a, b) == IF a > b THEN a - b ELSE b - a

(* discrepancy(provider, verified) > threshold, without the division:      *)
(* 100 percent when the provider says 0 and the verified count does not.   *)
(* The quotient of two float64 integers depends on their ratio only, so at *)
(* exactly the threshold it is for the threshold to tell on which side of  *)
(* it the product with 100 falls; any other ratio is far enough from it.   *)
Exceeds(provider, verified) ==
    IF provider = 0
    THEN verified # 0 /\ 100 > Threshold
    ELSE \/ Distance(provider, verified) * 100 > Threshold * provider
         \/ RoundsUp /\ Distance(provider, verified) * 100 = Threshold * provider

\* Mutant: receipts without verified counts are compared too.
CheckReceiptUnverified(c) ==
    Exceeds(c.input, c.verifiedInput) \/ Exceeds(c.output, c.verifiedOutput)

\* The alert is raised.
CheckReceipt(c) ==
    /\ c.verifiedInput # 0 \/ c.verifiedOutput # 0
    /\ Exceeds(c.input, c.verifiedInput) \/ Exceeds(c.output, c.verifiedOutput)

-----------------------------------------------------------------------------
(* tick.                                                                   *)

\* fetchStats.
FetchStats ==
    /\ tick = NoTick
    /\ tick' = [stage |-> "stats"]
    /\ missed' = {}
    /\ UNCHANGED <<vars, counts, alerted>>

\* Mutant: the oldest checkpoints first.
ListCheckpointsOldest(limit) ==
    Limit([i \in DOMAIN checkpoints |-> i], limit)

\* ListCheckpoints(0, limit): ORDER BY id DESC.
ListCheckpoints(limit) ==
    Limit([i \in DOMAIN checkpoints |-> Len(checkpoints) + 1 - i], limit)

\* fetchCheckpoints.  With none, the tick is over.
FetchCheckpoints ==
    /\ tick.stage = "stats"
    /\ tick' = IF checkpoints = <<>>
               THEN NoTick
               ELSE [stage |-> "page", page |-> ListCheckpoints(PageSize), next |-> 1]
    /\ UNCHANGED <<vars, counts, alerted, missed>>

ReceiptRange(c) == checkpoints[c].batchStart .. checkpoints[c].batchEnd

\* The loop goes on, and ends after the last checkpoint of the page.
NextCheckpoint ==
    tick' = [tick EXCEPT !.next = @ + 1,
                         !.stage = IF tick.next = Len(tick.page) THEN "end" ELSE "page"]

\* checkReceipt of every receipt of the range but the lost ones.
Check(c, lost) ==
    /\ alerted' = alerted \cup {i \in ReceiptRange(c) \ lost : CheckReceipt(counts[i])}
    /\ missed' = missed \cup lost

\* fetchReceiptRange of one checkpoint, and checkReceipt of each receipt.
FetchReceiptRange ==
    /\ tick.stage = "page"
    /\ Check(tick.page[tick.next], {})
    /\ NextCheckpoint
    /\ UNCHANGED <<vars, counts>>

\* Mutant: the error ends the tick as those of the other two requests do.
FetchReceiptRangeFailsEnds ==
    /\ tick.stage = "page"
    /\ Fault("range")
    /\ Check(tick.page[tick.next], ReceiptRange(tick.page[tick.next]))
    /\ tick' = [tick EXCEPT !.stage = "end"]
    /\ UNCHANGED <<storeVars, builderVars, counts>>

(* The request for the range fails (or is answered with an error, whose    *)
(* body decodes to an empty list), or the webhook does not take some of    *)
(* the alerts: the rest of the page is still looked at.                    *)
FetchReceiptRangeFails ==
    /\ tick.stage = "page"
    /\ Fault("range")
    /\ \E lost \in SUBSET ReceiptRange(tick.page[tick.next]) \ {{}} :
          Check(tick.page[tick.next], lost)
    /\ NextCheckpoint
    /\ UNCHANGED <<storeVars, builderVars, counts>>

\* fetchStats or fetchCheckpoints fails: the tick is over.
TickFails ==
    /\ tick.stage \in {"waiting", "stats"}
    /\ Fault("tick")
    /\ tick' = NoTick
    /\ UNCHANGED <<storeVars, builderVars, counts, alerted, missed>>

\* tick returns; Run waits for the ticker.
TickEnds ==
    /\ tick.stage = "end"
    /\ tick' = NoTick
    /\ UNCHANGED <<vars, counts, alerted, missed>>

-----------------------------------------------------------------------------
MonitorInit ==
    /\ Init
    /\ counts \in [1 .. MaxRows -> Counts]
    /\ tick = NoTick
    /\ alerted = {}
    /\ missed = {}

Poll == FetchStats \/ FetchCheckpoints \/ FetchReceiptRange \/ TickEnds

\* The monitor is a goroutine of the ledger's process and stops with it.
MonitorNext ==
    \/ Step /\ UNCHANGED monitorVars
    \/ Crash /\ tick' = NoTick /\ UNCHANGED <<counts, alerted, missed>>
    \/ Poll
    \/ FetchReceiptRangeFails
    \/ TickFails

\* The batcher and the monitor tick for as long as the process runs.
MonitorFairness == Fairness /\ WF_allVars(Poll)

MonitorSpec == MonitorInit /\ [][MonitorNext]_allVars /\ MonitorFairness

-----------------------------------------------------------------------------
(* Properties.                                                             *)

(* By more than Threshold percent of what the provider said, in exact      *)
(* terms, or by just as much where that is rounded up.                     *)
Off(provider, verified) ==
    LET above == provider * 100 + Threshold * provider
        below == provider * 100 - Threshold * provider
    IN  \/ verified * 100 > above \/ verified * 100 < below
        \/ RoundsUp /\ provider # 0 /\ verified * 100 \in {below, above}

Discrepant(i) ==
    /\ counts[i].verifiedInput + counts[i].verifiedOutput > 0
    /\ \/ Off(counts[i].input, counts[i].verifiedInput)
       \/ Off(counts[i].output, counts[i].verifiedOutput)

(* An alert is never raised for a receipt that is not in a checkpoint, was *)
(* not verified or is within the threshold.                                *)
AlertsAreJustified == \A i \in alerted : Covered(i) /\ Discrepant(i)

(* One failure costs one range: when a tick ends, every discrepant receipt *)
(* of the page it fetched has been alerted, except for those whose own     *)
(* request or alert failed.  (This is so for thresholds under 100 percent: *)
(* from there on, tokens verified where the provider reported none are     *)
(* never more than the threshold apart from it.)                           *)
TickCoversPage ==
    tick.stage = "end" =>
        \A p \in DOMAIN tick.page : \A i \in ReceiptRange(tick.page[p]) :
            Discrepant(i) => i \in alerted \cup missed

\* PageSize checkpoints were built after the last one over the row.
LeftBehind(i) ==
    /\ Covered(i)
    /\ \A c \in DOMAIN checkpoints :
          Covers(checkpoints[c], i) => c + PageSize <= Len(checkpoints)

(* A discrepant receipt is alerted in the end, once the faults have        *)
(* stopped, unless it was left behind by newer checkpoints.                *)
EventuallyAlerted ==
    \A i \in 1 .. MaxRows :
        (i <= rows /\ Discrepant(i)) ~> (i \in alerted \/ LeftBehind(i))
=============================================================================
