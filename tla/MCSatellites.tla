---------------------------- MODULE MCSatellites ----------------------------
(***************************************************************************)
(* An instance for TLC of the parts around the log: the receipts and their *)
(* verifier, receipt signing, the legacy witness protocol, the migration   *)
(* command and the server process.  They share no state with each other,   *)
(* so that their interleavings show nothing that each alone does not: each *)
(* runs while the others are at their initial state.                       *)
(*                                                                         *)
(* The verifier reads the receipts table and nothing else of the server: a *)
(* run of reconcile meets ingestion and restarts, and no payment.          *)
(***************************************************************************)
EXTENDS Verifier, ReceiptSigning, LegacyWitness, Migrate, ServerProcess

\* Response bodies: usage objects in both formats, one of no tokens.
Completion == [format |-> "completion", input |-> 100, output |-> 50]
Messages == [format |-> "messages", input |-> 100, output |-> 50]
Silent == [format |-> "completion", input |-> 0, output |-> 0]

Bundle(cert, signed) ==
    [cert |-> cert, algorithm |-> "SHA2_256", signed |-> signed, signer |-> "oidc"]

Request(provider, model, body, bundle) ==
    [provider |-> provider, model |-> model, body |-> body, bundle |-> bundle]

MCRequests ==
    {Request("openai", "m", Completion, NoBundle),
     Request("anthropic", "m", Messages, NoBundle),
     Request("anthropic", "m", Completion, Bundle("pem", TRUE)),
     Request("anthropic", "x", Messages, Bundle("der", FALSE)),
     Request("generic", "", Silent, NoBundle),
     Request("unknown", "m", Messages, NoBundle)}

MCLocalUsages ==
    {[input |-> 100, output |-> 50], [input |-> 99, output |-> 50], [input |-> 0, output |-> 0]}

Satellites == <<"receipts", "signing", "legacy", "migrate", "server">>

AtInit(part) ==
    CASE part = "receipts" -> ReceiptsInit /\ VerifierInit
      [] part = "signing"  -> SigningInit
      [] part = "legacy"   -> LegacyInit /\ keyGiven
      [] part = "migrate"  -> MigrateInit
      [] part = "server"   -> ServerInit

OthersAtInit(part) == \A i \in DOMAIN Satellites : Satellites[i] = part \/ AtInit(Satellites[i])

Init == ReceiptsInit /\ VerifierInit /\ SigningInit /\ LegacyInit /\ MigrateInit /\ ServerInit

ReceiptsStep ==
    \/ reconcile = NotReconciling /\ ReceiptsNext /\ UNCHANGED verifierVars
    \/ reconcile # NotReconciling /\ Restart /\ UNCHANGED verifierVars
    \/ /\ reconcile # NotReconciling
       /\ \E req \in Requests : Ingest(<<req>>)
       /\ UNCHANGED verifierVars
    \/ /\ payments = {} /\ \A h \in Handlers : handler[h] = Idle
       /\ VerifierNext
       /\ UNCHANGED receiptsVars

Next ==
    \/ /\ OthersAtInit("receipts") /\ ReceiptsStep
       /\ UNCHANGED <<signingVars, legacyVars, migrateVars, serverVars>>
    \/ /\ OthersAtInit("signing") /\ SigningNext
       /\ UNCHANGED <<receiptsVars, verifierVars, legacyVars, migrateVars, serverVars>>
    \/ /\ OthersAtInit("legacy") /\ LegacyNext
       /\ UNCHANGED <<receiptsVars, verifierVars, signingVars, migrateVars, serverVars>>
    \/ /\ OthersAtInit("migrate") /\ MigrateNext
       /\ UNCHANGED <<receiptsVars, verifierVars, signingVars, legacyVars, serverVars>>
    \/ /\ OthersAtInit("server") /\ ServerNext
       /\ UNCHANGED <<receiptsVars, verifierVars, signingVars, legacyVars, migrateVars>>

Spec ==
    Init /\ [][Next]_<<receiptsVars, verifierVars, signingVars, legacyVars, migrateVars,
                       serverVars>>
=============================================================================
