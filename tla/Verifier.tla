------------------------------ MODULE Verifier ------------------------------
(***************************************************************************)
(* The client's side of the receipts (cmd/verifier/main.go):               *)
(* `verify-receipt`, and `reconcile`, which goes through a local usage log *)
(* one entry at a time, fetches the receipt each entry names with          *)
(* GET /v1/receipts/{id} and compares the counts.  The server ingests and  *)
(* restarts meanwhile.                                                     *)
(*                                                                         *)
(* The local log is the client's own: the id of a receipt that was issued  *)
(* to it, or an id the ledger has never heard of, and the usage it counted *)
(* itself.  (`check-proof` is CheckProof in ProofServer.)                  *)
(***************************************************************************)
EXTENDS Receipts

CONSTANTS
    LocalUsages,  \* what the client may have counted
    Threshold,    \* --threshold, in percent
    RoundsUp,     \* a difference of exactly Threshold percent comes out above it
    MaxEntries,   \* bound: entries of the local log
    MaxLost       \* bound: GETs that fail

ASSUME VerifierAssumption ==
    /\ LocalUsages \subseteq [input : Nat, output : Nat]
    /\ Threshold \in Nat
    /\ RoundsUp \in BOOLEAN
    /\ Threshold < 100 => (RoundsUp <=> Threshold \in {7, 14, 28, 55, 56})
    /\ MaxEntries \in Nat
    /\ MaxLost \in Nat

VARIABLES
    reconcile,  \* the run of `siqlah-verifier reconcile`
    lost        \* GETs that failed so far

verifierVars == <<reconcile, lost>>

NotReconciling == [stage |-> "idle"]
UnknownID == 0

-----------------------------------------------------------------------------
\* verify-receipt: the exit status 0.
RunVerifyReceipt(r, pub) == VerifyReceipt(r, pub)

-----------------------------------------------------------------------------
(* reconcile.                                                              *)

(* discrepancy(local, remote) > threshold: relative to what the client     *)
(* counted, and in float64, which matters at exactly the threshold.        *)
Exceeds(a, b) ==
    LET distance == IF a > b THEN a - b ELSE b - a
    IN  IF a = 0 THEN b # 0 /\ 100 > Threshold
        ELSE \/ distance * 100 > Threshold * a
             \/ RoundsUp /\ distance * 100 = Threshold * a

LocalLogs ==
    LET ids == {r.id : r \in issued} \cup {UnknownID}
        entries == {[id |-> id, usage |-> u] : id \in ids, u \in LocalUsages}
    IN  UNION {[1 .. n -> entries] : n \in 0 .. MaxEntries}

RunReconcile(localLog) ==
    /\ reconcile = NotReconciling
    /\ reconcile' = [stage |-> "run", log |-> localLog, next |-> 1,
                     missing |-> 0, discrepancies |-> 0, failed |-> {}]
    /\ UNCHANGED lost

\* fetchReceiptFromLedger answers: the receipt, or 404.
Compare ==
    /\ reconcile.stage = "run" /\ reconcile.next \in DOMAIN reconcile.log
    /\ LET entry == reconcile.log[reconcile.next]
           found == {r \in {table[i] : i \in DOMAIN table} : r.id = entry.id}
           apart == \E r \in found : \/ Exceeds(entry.usage.input, r.inputTokens)
                                     \/ Exceeds(entry.usage.output, r.outputTokens)
       IN  reconcile' = [reconcile EXCEPT
                            !.next = @ + 1,
                            !.missing = IF found = {} THEN @ + 1 ELSE @,
                            !.discrepancies = IF apart THEN @ + 1 ELSE @]
    /\ UNCHANGED lost

\* Mutant: an entry that could not be fetched is passed over.
FetchErrorPassedOver ==
    /\ reconcile.stage = "run" /\ reconcile.next \in DOMAIN reconcile.log
    /\ lost < MaxLost
    /\ lost' = lost + 1
    /\ reconcile' = [reconcile EXCEPT !.next = @ + 1, !.failed = @ \cup {reconcile.next}]

\* The GET fails, or is answered with another status: FETCH_ERROR.
FetchError ==
    /\ reconcile.stage = "run" /\ reconcile.next \in DOMAIN reconcile.log
    /\ lost < MaxLost
    /\ lost' = lost + 1
    /\ reconcile' = [reconcile EXCEPT !.next = @ + 1, !.missing = @ + 1,
                                      !.failed = @ \cup {reconcile.next}]

\* The summary, and the exit status.
Summary ==
    /\ reconcile.stage = "run" /\ reconcile.next = Len(reconcile.log) + 1
    /\ reconcile' = [stage |-> "exit", log |-> reconcile.log, failed |-> reconcile.failed,
                     ok |-> reconcile.discrepancies = 0 /\ reconcile.missing = 0]
    /\ UNCHANGED lost

ReconcileDone ==
    /\ reconcile.stage = "exit"
    /\ reconcile' = NotReconciling
    /\ UNCHANGED lost

VerifierInit == reconcile = NotReconciling /\ lost = 0

VerifierNext ==
    \/ \E localLog \in LocalLogs : RunReconcile(localLog)
    \/ Compare
    \/ FetchError
    \/ Summary
    \/ ReconcileDone

\* The command runs beside the server.
ReconcileSpec ==
    /\ ReceiptsInit /\ VerifierInit
    /\ [][\/ ReceiptsNext /\ UNCHANGED verifierVars
          \/ VerifierNext /\ UNCHANGED receiptsVars]_<<receiptsVars, verifierVars>>

-----------------------------------------------------------------------------
(* Properties.                                                             *)

\* The client counted what the response says, in input and output tokens.
CountedRight(entry) ==
    entry.usage = [input |-> origin[entry.id].body.input, output |-> origin[entry.id].body.output]

(* reconcile succeeds only if every entry of the local log was looked up   *)
(* and none of them is missing, and then no count on the ledger is more    *)
(* than the threshold away from the client's own, whatever was ingested    *)
(* meanwhile.  A client that counted right is told so exactly when every   *)
(* receipt was billed through the adapter of its format, or for no tokens, *)
(* and every GET was answered: usage billed as zero under the wrong        *)
(* provider does not pass.  (With a --threshold of 100 or more it does: no *)
(* difference to a zero count is more than 100 percent.)                   *)
ReconcileIsRight ==
    reconcile.stage = "exit" =>
        LET entries  == {reconcile.log[i] : i \in DOMAIN reconcile.log}
            answered == /\ reconcile.failed = {}
                        /\ \A e \in entries : e.id \in DOMAIN table
            Within(mine, theirs) ==
                100 * theirs \in (100 - Threshold) * mine .. (100 + Threshold) * mine
        IN  /\ reconcile.ok =>
                  /\ answered
                  /\ \A e \in entries :
                        /\ Within(e.usage.input, table[e.id].inputTokens)
                        /\ Within(e.usage.output, table[e.id].outputTokens)
            /\ answered /\ (\A e \in entries : CountedRight(e)) =>
                  (reconcile.ok <=>
                      \A e \in entries :
                          \/ AdapterFormat[origin[e.id].provider] = origin[e.id].body.format
                          \/ e.usage = [input |-> 0, output |-> 0])

(* docs/api.md: signature_hex is the "Ed25519 signature over canonical     *)
(* receipt bytes": `siqlah-verifier verify-receipt` accepts what the       *)
(* server issued.                                                          *)
IssuedReceiptVerifies == \A r \in issued : RunVerifyReceipt(r, OperatorKey)
=============================================================================
