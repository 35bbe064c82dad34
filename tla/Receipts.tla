------------------------------ MODULE Receipts ------------------------------
(***************************************************************************)
(* What the server issues for one API call: the receipt built, signed and  *)
(* stored by the ingest handlers (internal/api/ingest.go) out of what the  *)
(* provider adapter, the model identity and the energy table say of the    *)
(* request (internal/provider, internal/model, internal/energy), its       *)
(* attestation (internal/attestation), and the payment that comes with     *)
(* POST /v1/receipts/with-payment and is kept in memory by the x402 bridge *)
(* (internal/x402, internal/api/x402_handlers.go).                         *)
(*                                                                         *)
(* A request is a record of the provider it names, the model, the response *)
(* body with the format of its usage object, and the OMS bundle.  The id   *)
(* of a receipt is its row number.  A receipt keeps every field through    *)
(* the JSON of the receipts table.                                         *)
(***************************************************************************)
EXTENDS Naturals, Sequences, FiniteSets, Vur

CONSTANTS
    Requests,         \* ingest requests that are valid JSON
    WellKnown,        \* models of the identity registry
    Benchmarked,      \* models of the energy table
    InferenceRegion,  \* --inference-region, or "" for none
    Handlers,         \* concurrent POST /v1/receipts/with-payment requests
    Auths,            \* payment authorizations that decode
    ValidAuths,       \* the ones with an x402 scheme and no empty field
    MaxReceipts,      \* bound: receipts ever ingested
    MaxRestarts       \* bound: restarts of the server

NoBundle == [cert |-> "none"]

ASSUME ReceiptsAssumption ==
    /\ \A req \in Requests :
          /\ \/ req.bundle = NoBundle
             \/ DOMAIN req.bundle = {"cert", "algorithm", "signed", "signer"}
          /\ req.body.format \in {"messages", "completion"} =>
                req.body.input \in Int /\ req.body.output \in Int
    /\ ValidAuths \subseteq Auths
    /\ MaxReceipts \in Nat
    /\ MaxRestarts \in Nat

VARIABLES
    table,         \* receipts: the receipt of each row; the row number is its id
    origin,        \* history: the request each row was built from
    payments,      \* Bridge.payments: <<receipt id, authorization>> pairs
    handler,       \* what each handler has appended and not yet answered for
    issued,        \* history: the receipts answered with 201
    acknowledged,  \* history: the pairs answered with 201 since the restart
    restarts       \* restarts so far

receiptsVars ==
    <<table, origin, payments, handler, issued, acknowledged, restarts>>

Idle == [stage |-> "idle"]
NoBody == [format |-> "none"]
OperatorKey == "operator"

-----------------------------------------------------------------------------
(* internal/provider.  A body that is no object with numbers in its usage  *)
(* is an error; a usage object in the other format has none of the fields  *)
(* that are looked for, and counts for nothing.                            *)

AdapterFormat ==
    [p \in {"openai", "anthropic", "generic"} |->
        IF p = "anthropic" THEN "messages" ELSE "completion"]

Parses(req) ==
    req.provider \in DOMAIN AdapterFormat /\ req.body.format \in {"messages", "completion"}

NoUsage == [input |-> 0, output |-> 0]

\* AnthropicAdapter.ParseUsage: input_tokens and output_tokens.
ParseMessages(body) ==
    IF body.format = "messages" THEN [input |-> body.input, output |-> body.output]
    ELSE NoUsage

\* OpenAIAdapter.ParseUsage, and the generic one: prompt_tokens and completion_tokens.
ParseCompletion(body) ==
    IF body.format = "completion" THEN [input |-> body.input, output |-> body.output]
    ELSE NoUsage

ParseUsage(provider, body) ==
    IF AdapterFormat[provider] = "messages" THEN ParseMessages(body) ELSE ParseCompletion(body)

ValidateIngestRequest(req) == req.provider # "" /\ req.model # "" /\ req.body # NoBody

-----------------------------------------------------------------------------
(* internal/model.                                                         *)

\* A certificate in PEM is turned into base64 DER; anything else is left alone.
ParseBundleFromPEM(bundle) ==
    IF bundle.cert = "pem" THEN [bundle EXCEPT !.cert = "der"] ELSE bundle

\* VerifyModelIdentity with no trust roots, as the server calls it.
BundleVerifies(bundle) ==
    bundle.cert = "der" /\ bundle.algorithm = "SHA2_256" /\ bundle.signed

Unidentified == [signer |-> "", verified |-> FALSE, digest |-> ""]

\* Mutant: the registry's identities count as verified.
LookupVerified(model) ==
    IF model \in WellKnown THEN [signer |-> "publisher", verified |-> TRUE, digest |-> ""]
    ELSE Unidentified

Lookup(model) ==
    IF model \in WellKnown THEN [signer |-> "publisher", verified |-> FALSE, digest |-> ""]
    ELSE Unidentified

\* A bundle that fails does not fall back to the registry.
PopulateModelIdentity(req) ==
    IF req.bundle = NoBundle THEN Lookup(req.model)
    ELSE IF BundleVerifies(ParseBundleFromPEM(req.bundle))
         THEN [signer |-> req.bundle.signer, verified |-> TRUE, digest |-> "digest"]
         ELSE Unidentified

-----------------------------------------------------------------------------
(* internal/energy: in joules per input token of the model; an output      *)
(* token costs three times as much in every row of the table.              *)

Estimate(model, usage) ==
    IF model \in Benchmarked
    THEN [joules |-> usage.input + 3 * usage.output, source |-> "model-benchmark"]
    ELSE [joules |-> 0, source |-> "none"]

\* Every region has an intensity: an unknown one has the global average.
PopulateEnergyFields(model, usage) ==
    LET estimate == Estimate(model, usage)
        region   == IF estimate.source = "none" THEN "" ELSE InferenceRegion
    IN  [joules |-> estimate.joules, source |-> estimate.source,
         region |-> region, intensity |-> region # ""]

-----------------------------------------------------------------------------
(* buildReceipt: the usage the provider reported, the model identity and   *)
(* the energy estimate, the signature, and verified set after it.  The     *)
(* verified counts are never filled in.                                    *)
BuildReceipt(id, req) ==
    LET usage == ParseUsage(req.provider, req.body)
        model == PopulateModelIdentity(req)
    IN  [SignReceipt([id |-> id,
                      provider |-> req.provider,
                      model |-> req.model,
                      inputTokens |-> usage.input,
                      outputTokens |-> usage.output,
                      verifiedInputTokens |-> 0,
                      responseHash |-> req.body,
                      modelSigner |-> model.signer,
                      modelSignatureVerified |-> model.verified,
                      modelDigest |-> model.digest,
                      energy |-> PopulateEnergyFields(req.model, usage),
                      signerType |-> "",
                      signerIdentity |-> OperatorKey,
                      certificate |-> 0,
                      rekorLogIndex |-> 0,
                      verified |-> FALSE,
                      signature |-> NoSignature], OperatorKey)
            EXCEPT !.verified = TRUE]

\* AppendReceipt and AppendReceiptsBatch.
AppendReceipts(reqs) ==
    /\ Len(table) + Len(reqs) <= MaxReceipts
    /\ table' = table \o [i \in DOMAIN reqs |-> BuildReceipt(Len(table) + i, reqs[i])]
    /\ origin' = origin \o reqs

NewRows == {table'[i] : i \in DOMAIN table' \ DOMAIN table}

-----------------------------------------------------------------------------
(* POST /v1/receipts with one request, POST /v1/receipts/batch with one or *)
(* more: one item that is not valid or does not parse refuses them all.    *)
Ingest(reqs) ==
    /\ \A i \in DOMAIN reqs : ValidateIngestRequest(reqs[i]) /\ Parses(reqs[i])
    /\ AppendReceipts(reqs)
    /\ issued' = issued \cup NewRows
    /\ UNCHANGED <<payments, handler, acknowledged, restarts>>

-----------------------------------------------------------------------------
(* POST /v1/receipts/with-payment.                                         *)

(* No X-Payment header, or one that does not decode: 402.  A request that  *)
(* does not parse, or an INSERT that fails: 400 or 500.                    *)
Refuse(h) ==
    /\ handler[h] = Idle
    /\ UNCHANGED receiptsVars

\* ExtractPaymentAuth, buildReceipt and AppendReceipt; nothing is validated first.
AppendPaid(h, req, auth) ==
    /\ handler[h] = Idle
    /\ Parses(req)
    /\ AppendReceipts(<<req>>)
    /\ handler' = [handler EXCEPT ![h] =
                      [stage |-> "appended", receipt |-> Len(table'), auth |-> auth]]
    /\ UNCHANGED <<payments, issued, acknowledged, restarts>>

\* Mutant: the payment is filed under the newest receipt.
StorePaymentUnderNewest(id, auth) ==
    payments' = {p \in payments : p[1] # Len(table)} \cup {<<Len(table), auth>>}

\* Bridge.Store.
StorePayment(id, auth) ==
    payments' = {p \in payments : p[1] # id} \cup {<<id, auth>>}

\* WrapReceipt.
WrapReceipt(r, auth) ==
    [status |-> "200", receipt |-> r, auth |-> auth,
     paymentVerified |-> auth \in ValidAuths]

\* Bridge.Store under the handler's own receipt.
Pay(h) ==
    /\ handler[h].stage = "appended"
    /\ StorePayment(handler[h].receipt, handler[h].auth)
    /\ handler' = [handler EXCEPT ![h].stage = "paid"]
    /\ UNCHANGED <<table, origin, issued, acknowledged, restarts>>

\* WrapReceipt, and the 201.
AnswerPaid(h) ==
    /\ handler[h].stage = "paid"
    /\ issued' = issued \cup {table[handler[h].receipt]}
    /\ acknowledged' = acknowledged \cup {<<handler[h].receipt, handler[h].auth>>}
    /\ handler' = [handler EXCEPT ![h] = Idle]
    /\ UNCHANGED <<table, origin, payments, restarts>>

-----------------------------------------------------------------------------
(* GET /v1/receipts/{id}/payment and /v1/receipts/{id}/attestation: the    *)
(* row, which does not change, and then what is made of it.                *)

NoPaymentRecord == [status |-> "404"]

\* Bridge.Get: the payment, or 404 "no payment record for this receipt".
GetReceiptPayment(id) ==
    LET paid == {p \in payments : p[1] = id}
    IN  IF paid = {} THEN NoPaymentRecord
        ELSE WrapReceipt(table[id], (CHOOSE p \in paid : TRUE)[2])

(* buildPredicate: model provenance if a signer is known or verified, an   *)
(* energy footprint if there are joules.                                   *)
BuildPredicate(r) ==
    [provenance |-> IF r.modelSigner # "" \/ r.modelSignatureVerified
                    THEN {[model |-> r.model, signer |-> r.modelSigner,
                           digest |-> r.modelDigest, verified |-> r.modelSignatureVerified]}
                    ELSE {},
     footprint  |-> IF r.energy.joules > 0
                    THEN {[joules |-> r.energy.joules, carbon |-> r.energy.intensity]}
                    ELSE {}]

\* NewReceiptStatement; the response hash of a receipt is never empty.
ReceiptStatement(r) == [subject |-> r.responseHash, predicate |-> BuildPredicate(r)]

HandleAttestation(id) == ReceiptStatement(table[id])

\* The server is restarted: the table stays, the bridge is empty again.
Restart ==
    /\ restarts < MaxRestarts
    /\ restarts' = restarts + 1
    /\ payments' = {}
    /\ handler' = [h \in Handlers |-> Idle]
    /\ acknowledged' = {}
    /\ UNCHANGED <<table, origin, issued>>

-----------------------------------------------------------------------------
ReceiptsInit ==
    /\ table = <<>>
    /\ origin = <<>>
    /\ payments = {}
    /\ handler = [h \in Handlers |-> Idle]
    /\ issued = {}
    /\ acknowledged = {}
    /\ restarts = 0

ReceiptsNext ==
    \/ \E req \in Requests : Ingest(<<req>>)
    \/ \E first, second \in Requests : Ingest(<<first, second>>)
    \/ \E h \in Handlers :
          \/ Refuse(h)
          \/ \E req \in Requests, auth \in Auths : AppendPaid(h, req, auth)
          \/ Pay(h)
          \/ AnswerPaid(h)
    \/ Restart

ReceiptsSpec == ReceiptsInit /\ [][ReceiptsNext]_receiptsVars

-----------------------------------------------------------------------------
(* Properties.                                                             *)

(* As long as the server runs, a payment that was answered with 201 is     *)
(* what GET .../payment shows for its receipt, whatever other requests     *)
(* interleave with it; and what is shown for a receipt is the payment of   *)
(* its own request, acknowledged already or about to be: no receipt shows  *)
(* a payment that came with another, and one that is 404 there is one      *)
(* whose payment was never acknowledged since the restart.                 *)
AcknowledgedPaymentKept ==
    /\ \A a \in acknowledged : GetReceiptPayment(a[1]) = WrapReceipt(table[a[1]], a[2])
    /\ \A id \in DOMAIN table :
          LET shown == GetReceiptPayment(id)
          IN  shown # NoPaymentRecord =>
                 \/ <<id, shown.auth>> \in acknowledged
                 \/ \E h \in Handlers :
                       handler[h] = [stage |-> "paid", receipt |-> id, auth |-> shown.auth]

(* An attestation claims no more of the model and its energy than the      *)
(* request gave reason to: a verified model comes with a bundle whose      *)
(* signature is good, an unverified one is named by the registry, a        *)
(* footprint is of a benchmarked model and of the tokens in the response   *)
(* body (also when the provider was misnamed and its adapter found none),  *)
(* and the subject is that body.                                           *)
AttestationClaimsEarned ==
    \A id \in DOMAIN table :
        LET req == origin[id]
            att == HandleAttestation(id)
        IN  /\ att.subject = req.body
            /\ \A p \in att.predicate.provenance :
                  /\ p.model = req.model
                  /\ IF p.verified
                     THEN /\ req.bundle # NoBundle
                          /\ req.bundle.signed /\ req.bundle.signer = p.signer
                     ELSE req.bundle = NoBundle /\ req.model \in WellKnown
            /\ \A f \in att.predicate.footprint :
                  /\ req.model \in Benchmarked
                  /\ f.joules = req.body.input + 3 * req.body.output
                  /\ f.carbon <=> InferenceRegion # ""
=============================================================================
