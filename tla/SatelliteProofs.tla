-------------------------- MODULE SatelliteProofs ---------------------------
(***************************************************************************)
(* Proofs about the parts around the ledger, for every set of receipts,    *)
(* keys and counts and any number of connections, requests, starts, runs,  *)
(* witnesses and checkpoints: the receipts and the verifier command        *)
(* (ReceiptSigning, Vur, Verifier), the server process (ServerProcess),    *)
(* the migration command (Migrate) and the legacy witness protocol         *)
(* (LegacyWitness).                                                        *)
(***************************************************************************)
EXTENDS Verifier, ReceiptSigning, ServerProcess, Migrate, LegacyWitness,
        FiniteSetTheorems, SequenceTheorems, TLAPS

-----------------------------------------------------------------------------
(* Signing one receipt again and again.                                    *)

\* The fields of a receipt that the signing functions look at.
SignedFields ==
    {"inputTokens", "signerType", "signerIdentity", "certificate", "rekorLogIndex"}

ReceiptFields == SignedFields \cup {"signature"}

IsReceipt(r) == r = [f \in ReceiptFields |-> r[f]]

\* The canonical bytes the receipt had when it said n tokens.
BytesAt(r, n) == [f \in SignedFields |-> IF f = "inputTokens" THEN n ELSE r[f]]

\* The last signature is on the receipt, over the usage of that time.
SignatureIsLast ==
    \/ last = Unsigned /\ receipt.signature = NoSignature
    \/ \E key, tokens :
          /\ last = [by |-> "ed25519", identity |-> key, tokens |-> tokens]
          /\ receipt.signature = Ed25519Sign(key, BytesAt(receipt, tokens))
    \/ \E identity, tokens :
          /\ last = [by |-> "fulcio", identity |-> identity, tokens |-> tokens]
          /\ receipt.signature.by = "fulcio"

SigningInv == IsReceipt(receipt) /\ SignatureIsLast

(* The canonical bytes leave out the signature and nothing else.           *)
LEMMA CanonicalIsBytesAt ==
    ASSUME NEW r, IsReceipt(r)
    PROVE  CanonicalBytes(r) = BytesAt(r, r.inputTokens)
  <1>1. DOMAIN r \ {"signature"} = SignedFields
    BY DEF IsReceipt, ReceiptFields, SignedFields
  <1>2. QED
    BY <1>1 DEF CanonicalBytes, BytesAt

(* Bytes of different usage differ.                                        *)
LEMMA BytesTellUsage ==
    ASSUME NEW r, NEW m, NEW n
    PROVE  BytesAt(r, m) = BytesAt(r, n) <=> m = n
  <1>1. BytesAt(r, m)["inputTokens"] = m /\ BytesAt(r, n)["inputTokens"] = n
    BY DEF BytesAt, SignedFields
  <1>2. QED
    BY <1>1

(* What a receipt says is over the bytes, but for the signature.           *)
LEMMA SameBytes ==
    ASSUME NEW r, NEW q, NEW n, \A f \in SignedFields \ {"inputTokens"} : r[f] = q[f]
    PROVE  BytesAt(r, n) = BytesAt(q, n)
  BY DEF BytesAt

(* The deprecated SignReceipt.                                             *)
LEMMA SignLegacyKeepsInv ==
    ASSUME SigningInv, NEW k \in SigningKeys, SignLegacy(k)
    PROVE  SigningInv'
  <1> DEFINE n == receipt.inputTokens
             blank == [receipt EXCEPT
                          !.signerType = IF @ = "" THEN "ed25519" ELSE @,
                          !.signature = NoSignature]
  <1>1. /\ IsReceipt(blank)
        /\ blank.inputTokens = n
    BY DEF SigningInv, IsReceipt, ReceiptFields, SignedFields
  <1>2. receipt' = [blank EXCEPT !.signature = Ed25519Sign(k, CanonicalBytes(blank))]
    BY DEF SignLegacy, SignReceipt
  <1> HIDE DEF blank
  <1>3. CanonicalBytes(blank) = BytesAt(blank, n)
    BY <1>1, CanonicalIsBytesAt
  <1>4. /\ IsReceipt(receipt')
        /\ receipt'.signature = Ed25519Sign(k, BytesAt(blank, n))
        /\ \A f \in SignedFields \ {"inputTokens"} : receipt'[f] = blank[f]
    BY <1>1, <1>2, <1>3 DEF IsReceipt, ReceiptFields, SignedFields
  <1>5. BytesAt(receipt', n) = BytesAt(blank, n)
    BY <1>4, SameBytes
  <1>6. last' = [by |-> "ed25519", identity |-> k, tokens |-> n]
    BY DEF SignLegacy
  <1>7. QED
    BY <1>4, <1>5, <1>6 DEF SigningInv, SignatureIsLast, IsReceipt

(* What SignReceiptWithSigner leaves when the signer fails.                *)
LEMMA PreparedIsReceipt ==
    ASSUME NEW r, IsReceipt(r), NEW s
    PROVE  /\ IsReceipt(PreparedFor(r, s))
           /\ PreparedFor(r, s).inputTokens = r.inputTokens
           /\ PreparedFor(r, s).certificate = 0
           /\ PreparedFor(r, s).rekorLogIndex = 0
           /\ PreparedFor(r, s).signature = NoSignature
  BY DEF PreparedFor, IsReceipt, ReceiptFields, SignedFields

(* SignReceiptWithSigner with an Ed25519 key: the certificate and the      *)
(* index that it puts in are the ones the bytes were signed with.          *)
LEMMA SignEd25519KeepsInv ==
    ASSUME SigningInv, NEW k \in SigningKeys, SignWith(Ed25519Signer(k))
    PROVE  SigningInv'
  <1> DEFINE n == receipt.inputTokens
             s == Ed25519Signer(k)
             blank == PreparedFor(receipt, s)
             bundle == SignerSign(s, CanonicalBytes(blank), signings')
  <1>1. s.type = "ed25519" /\ s.identity = k
    BY DEF Ed25519Signer
  <1>2. /\ IsReceipt(blank) /\ blank.inputTokens = n
        /\ blank.certificate = 0 /\ blank.rekorLogIndex = 0
    BY PreparedIsReceipt DEF SigningInv
  <1>3. /\ bundle.signature = Ed25519Sign(k, CanonicalBytes(blank))
        /\ bundle.certificate = 0
        /\ bundle.rekorLogIndex = -1
    BY <1>1 DEF SignerSign
  <1>4. receipt' = [blank EXCEPT !.signature = bundle.signature,
                                 !.certificate = bundle.certificate,
                                 !.rekorLogIndex = IF bundle.rekorLogIndex >= 0
                                                   THEN bundle.rekorLogIndex ELSE @]
    BY DEF SignWith, SignReceiptWithSigner
  <1>5. last' = [by |-> "ed25519", identity |-> k, tokens |-> n]
    BY <1>1 DEF SignWith
  <1> HIDE DEF blank, bundle, s
  <1>6. ~(bundle.rekorLogIndex >= 0)
    BY <1>3
  <1>7. CanonicalBytes(blank) = BytesAt(blank, n)
    BY <1>2, CanonicalIsBytesAt
  <1>8. /\ IsReceipt(receipt')
        /\ receipt'.signature = Ed25519Sign(k, BytesAt(blank, n))
        /\ receipt'.certificate = blank.certificate
        /\ receipt'.rekorLogIndex = blank.rekorLogIndex
        /\ receipt'.signerType = blank.signerType
        /\ receipt'.signerIdentity = blank.signerIdentity
    BY <1>2, <1>3, <1>4, <1>6, <1>7 DEF IsReceipt, ReceiptFields, SignedFields
  <1>9. \A f \in SignedFields \ {"inputTokens"} : receipt'[f] = blank[f]
    BY <1>8 DEF SignedFields
  <1>10. BytesAt(receipt', n) = BytesAt(blank, n)
    BY <1>9, SameBytes
  <1>11. QED
    BY <1>5, <1>8, <1>10 DEF SigningInv, SignatureIsLast, IsReceipt

(* SignReceiptWithSigner with Fulcio.                                      *)
LEMMA SignFulcioKeepsInv ==
    ASSUME SigningInv, NEW b \in BOOLEAN, SignWith(FulcioSigner(b))
    PROVE  SigningInv'
  <1> DEFINE s == FulcioSigner(b)
             blank == PreparedFor(receipt, s)
             bundle == SignerSign(s, CanonicalBytes(blank), signings')
  <1>1. s.type = "fulcio" /\ s.identity = "fulcio"
    BY DEF FulcioSigner
  <1>2. IsReceipt(blank)
    BY PreparedIsReceipt DEF SigningInv
  <1>3. bundle.signature.by = "fulcio"
    BY <1>1 DEF SignerSign
  <1>4. receipt' = [blank EXCEPT !.signature = bundle.signature,
                                 !.certificate = bundle.certificate,
                                 !.rekorLogIndex = IF bundle.rekorLogIndex >= 0
                                                   THEN bundle.rekorLogIndex ELSE @]
    BY DEF SignWith, SignReceiptWithSigner
  <1>5. last' = [by |-> "fulcio", identity |-> "fulcio", tokens |-> receipt.inputTokens]
    BY <1>1 DEF SignWith
  <1> HIDE DEF blank, bundle, s
  <1>6. IsReceipt(receipt') /\ receipt'.signature.by = "fulcio"
    BY <1>2, <1>3, <1>4 DEF IsReceipt, ReceiptFields, SignedFields
  <1>7. QED
    BY <1>5, <1>6 DEF SigningInv, SignatureIsLast, IsReceipt

(* A correction leaves the signature of the other usage behind.            *)
LEMMA CorrectKeepsInv ==
    ASSUME SigningInv, NEW c \in Counts, Correct(c)
    PROVE  SigningInv'
  <1>1. receipt' = [receipt EXCEPT !.inputTokens = c] /\ last' = last
    BY DEF Correct
  <1>2. /\ IsReceipt(receipt')
        /\ receipt'.signature = receipt.signature
        /\ \A f \in SignedFields \ {"inputTokens"} : receipt'[f] = receipt[f]
    BY <1>1 DEF SigningInv, IsReceipt, ReceiptFields, SignedFields
  <1>3. \A n : BytesAt(receipt', n) = BytesAt(receipt, n)
    BY <1>2, SameBytes
  <1>4. QED
    BY <1>1, <1>2, <1>3 DEF SigningInv, SignatureIsLast, IsReceipt

(* The inductive invariant of signing.                                     *)
THEOREM SigningInvariant == SigningSpec => []SigningInv
  <1>1. ASSUME SigningInit PROVE SigningInv
    <2>1. IsReceipt(receipt)
      BY <1>1 DEF SigningInit, IsReceipt, ReceiptFields, SignedFields
    <2>2. receipt.signature = NoSignature /\ last = Unsigned
      BY <1>1 DEF SigningInit
    <2>3. QED
      BY <2>1, <2>2 DEF SigningInv, SignatureIsLast
  <1>2. SigningInv /\ [SigningNext]_signingVars => SigningInv'
    <2> SUFFICES ASSUME SigningInv, [SigningNext]_signingVars PROVE SigningInv'
      OBVIOUS
    <2>1. ASSUME NEW s \in Signers, SignWith(s) PROVE SigningInv'
      BY <2>1, SignEd25519KeepsInv, SignFulcioKeepsInv DEF Signers
    <2>2. ASSUME NEW s \in Signers, SignFails(s) PROVE SigningInv'
      <3>1. receipt' = PreparedFor(receipt, s) /\ last' = Unsigned
        BY <2>2 DEF SignFails
      <3>2. IsReceipt(receipt') /\ receipt'.signature = NoSignature
        BY <3>1, PreparedIsReceipt DEF SigningInv
      <3>3. QED
        BY <3>1, <3>2 DEF SigningInv, SignatureIsLast, IsReceipt
    <2>3. CASE UNCHANGED signingVars
      BY <2>3 DEF signingVars, SigningInv, SignatureIsLast, IsReceipt, BytesAt
    <2>4. QED
      BY <2>1, <2>2, <2>3, CorrectKeepsInv, SignLegacyKeepsInv DEF SigningNext
  <1>3. QED
    BY <1>1, <1>2, PTL DEF SigningSpec

(* An Ed25519 key finds the receipt valid exactly when it signed last and  *)
(* the usage is what it signed: for any keys, counts and sequence of       *)
(* signings by Ed25519 and Fulcio, corrections and failures.               *)
THEOREM LastSignatureVerifies == SigningSpec => []SignedReceiptVerifies
  <1>1. ASSUME SigningInv PROVE SignedReceiptVerifies
    <2> DEFINE n == receipt.inputTokens
    <2>1. CanonicalBytes(receipt) = BytesAt(receipt, n)
      BY <1>1, CanonicalIsBytesAt DEF SigningInv
    <2>2. ASSUME NEW k \in SigningKeys
          PROVE  /\ VerifyReceiptWithVerifier(receipt, Ed25519Verifier(k)) <=>
                      receipt.signature = Ed25519Sign(k, BytesAt(receipt, n))
                 /\ VerifyReceipt(receipt, k) <=>
                      receipt.signature = Ed25519Sign(k, BytesAt(receipt, n))
      <3>1. Ed25519Sign(k, BytesAt(receipt, n)) # NoSignature
        BY DEF Ed25519Sign, NoSignature
      <3>2. QED
        BY <2>1, <3>1 DEF VerifyReceiptWithVerifier, VerifierVerify, Ed25519Verifier,
                          VerifyReceipt
    <2>3. ASSUME NEW k \in SigningKeys
          PROVE  receipt.signature = Ed25519Sign(k, BytesAt(receipt, n)) <=>
                   last = [by |-> "ed25519", identity |-> k, tokens |-> n]
      <3>1. CASE last = Unsigned /\ receipt.signature = NoSignature
        BY <3>1 DEF Unsigned, NoSignature, Ed25519Sign
      <3>2. ASSUME NEW key, NEW tokens,
                   last = [by |-> "ed25519", identity |-> key, tokens |-> tokens],
                   receipt.signature = Ed25519Sign(key, BytesAt(receipt, tokens))
            PROVE  receipt.signature = Ed25519Sign(k, BytesAt(receipt, n)) <=>
                     last = [by |-> "ed25519", identity |-> k, tokens |-> n]
        <4>1. receipt.signature = Ed25519Sign(k, BytesAt(receipt, n)) <=>
                 key = k /\ BytesAt(receipt, tokens) = BytesAt(receipt, n)
          BY <3>2 DEF Ed25519Sign
        <4>2. last = [by |-> "ed25519", identity |-> k, tokens |-> n] <=>
                 key = k /\ tokens = n
          BY <3>2
        <4>3. QED
          BY <4>1, <4>2, BytesTellUsage
      <3>3. ASSUME NEW identity, NEW tokens,
                   last = [by |-> "fulcio", identity |-> identity, tokens |-> tokens],
                   receipt.signature.by = "fulcio"
            PROVE  receipt.signature = Ed25519Sign(k, BytesAt(receipt, n)) <=>
                     last = [by |-> "ed25519", identity |-> k, tokens |-> n]
        <4>1. receipt.signature # Ed25519Sign(k, BytesAt(receipt, n))
          BY <3>3 DEF Ed25519Sign
        <4>2. last # [by |-> "ed25519", identity |-> k, tokens |-> n]
          BY <3>3
        <4>3. QED
          BY <4>1, <4>2
      <3>4. QED
        BY <1>1, <3>1, <3>2, <3>3 DEF SigningInv, SignatureIsLast
    <2>4. QED
      BY <2>2, <2>3 DEF SignedReceiptVerifies
  <1>2. QED
    BY <1>1, SigningInvariant, PTL

-----------------------------------------------------------------------------
(* What the server issues.                                                 *)

(* SignReceipt and the flag set after it leave the other fields alone.     *)
LEMMA SignReceiptKeepsFields ==
    ASSUME NEW r, NEW key, NEW f \in DOMAIN r \ {"signerType", "signature", "verified"}
    PROVE  [SignReceipt(r, key) EXCEPT !.verified = TRUE][f] = r[f]
  BY DEF SignReceipt

(* The fields of a receipt are those of its request.                       *)
LEMMA BuiltFields ==
    ASSUME NEW id, NEW req
    PROVE  LET r     == BuildReceipt(id, req)
               usage == ParseUsage(req.provider, req.body)
               model == PopulateModelIdentity(req)
           IN  /\ r.id = id
               /\ r.model = req.model
               /\ r.inputTokens = usage.input
               /\ r.outputTokens = usage.output
               /\ r.responseHash = req.body
               /\ r.modelSigner = model.signer
               /\ r.modelSignatureVerified = model.verified
               /\ r.modelDigest = model.digest
               /\ r.energy = PopulateEnergyFields(req.model, usage)
  <1> DEFINE usage == ParseUsage(req.provider, req.body)
             model == PopulateModelIdentity(req)
             draft == [id |-> id,
                       provider |-> req.provider,
                       model |-> req.model,
                       inputTokens |-> usage.input,
                       outputTokens |-> usage.output,
                       verifiedInputTokens |-> 0,
                       responseHash |-> req.body,
                       modelSigner |-> model.signer,
                       modelSignatureVerified |-> model.verified,
                       modelDigest |-> model.digest,
                       energy |-> PopulateEnergyFields(req.model, usage),
                       signerType |-> "",
                       signerIdentity |-> OperatorKey,
                       certificate |-> 0,
                       rekorLogIndex |-> 0,
                       verified |-> FALSE,
                       signature |-> NoSignature]
             kept == {"id", "model", "inputTokens", "outputTokens", "responseHash",
                      "modelSigner", "modelSignatureVerified", "modelDigest", "energy"}
  <1>1. BuildReceipt(id, req) = [SignReceipt(draft, OperatorKey) EXCEPT !.verified = TRUE]
    BY DEF BuildReceipt
  <1> HIDE DEF usage, model
  <1>2. kept \subseteq DOMAIN draft \ {"signerType", "signature", "verified"}
    OBVIOUS
  <1>3. /\ draft["id"] = id
        /\ draft["model"] = req.model
        /\ draft["inputTokens"] = usage.input
        /\ draft["outputTokens"] = usage.output
        /\ draft["responseHash"] = req.body
        /\ draft["modelSigner"] = model.signer
        /\ draft["modelSignatureVerified"] = model.verified
        /\ draft["modelDigest"] = model.digest
        /\ draft["energy"] = PopulateEnergyFields(req.model, usage)
    OBVIOUS
  <1> HIDE DEF draft
  <1>4. \A f \in kept : BuildReceipt(id, req)[f] = draft[f]
    BY <1>1, <1>2, SignReceiptKeepsFields
  <1>5. QED
    BY <1>3, <1>4 DEF usage, model

\* A handler that has appended a receipt, before and after it files the payment.
Paying(h) == handler[h].stage = "appended"
Paid(h) == handler[h].stage = "paid"
AtWork(h) == Paying(h) \/ Paid(h)

HandlerStates == {Idle} \cup [stage : {"appended", "paid"}, receipt : Nat, auth : Auths]

FiledBy(h) == <<handler[h].receipt, handler[h].auth>>

\* Each row is the receipt of the request it came from.
TableIsOfOrigin ==
    /\ origin \in Seq(Requests)
    /\ table = [id \in 1 .. Len(origin) |-> BuildReceipt(id, origin[id])]
    /\ \A id \in 1 .. Len(origin) : Parses(origin[id])

IssuedAreRows == issued \subseteq {table[id] : id \in 1 .. Len(origin)}

\* The receipts that handlers are at work on: each has a row, and is one
\* handler's alone.
HandlersAreApart ==
    /\ handler \in [Handlers -> HandlerStates]
    /\ \A h \in Handlers : AtWork(h) => handler[h].receipt \in 1 .. Len(origin)
    /\ \A g, h \in Handlers :
          g # h /\ AtWork(g) /\ AtWork(h) => handler[g].receipt # handler[h].receipt

\* A receipt is paid for once, and the bridge has what was acknowledged and
\* what is about to be.
PaidOnce ==
    /\ acknowledged \subseteq payments
    /\ \A h \in Handlers : Paid(h) => FiledBy(h) \in payments
    /\ \A p \in payments : p \in acknowledged \/ \E h \in Handlers : Paid(h) /\ p = FiledBy(h)
    /\ payments \subseteq (1 .. Len(origin)) \X Auths
    /\ \A p, q \in payments : p[1] = q[1] => p = q
    /\ \A h \in Handlers, p \in payments : Paying(h) => p[1] # handler[h].receipt

ReceiptsInv ==
    /\ TableIsOfOrigin
    /\ IssuedAreRows
    /\ HandlersAreApart
    /\ PaidOnce

(* The length and the rows of the table.                                   *)
LEMMA TableShape ==
    ASSUME TableIsOfOrigin
    PROVE  /\ Len(origin) \in Nat
           /\ table \in Seq({table[id] : id \in 1 .. Len(origin)})
           /\ Len(table) = Len(origin)
           /\ DOMAIN table = 1 .. Len(origin)
           /\ \A id \in 1 .. Len(origin) : table[id] = BuildReceipt(id, origin[id])
  <1>1. Len(origin) \in Nat
    BY DEF TableIsOfOrigin
  <1>2. /\ DOMAIN table = 1 .. Len(origin)
        /\ \A id \in 1 .. Len(origin) : table[id] = BuildReceipt(id, origin[id])
    BY DEF TableIsOfOrigin
  <1>3. table = [id \in 1 .. Len(origin) |-> table[id]]
    BY <1>2 DEF TableIsOfOrigin
  <1>4. table \in Seq({table[id] : id \in 1 .. Len(origin)}) /\ Len(table) = Len(origin)
    BY <1>1, <1>3
  <1>5. QED
    BY <1>1, <1>2, <1>4

(* The rows that are appended are the receipts of their requests, and the  *)
(* ones before them stay.                                                  *)
LEMMA AppendKeepsTable ==
    ASSUME TableIsOfOrigin, NEW reqs \in Seq(Requests), AppendReceipts(reqs),
           \A i \in 1 .. Len(reqs) : Parses(reqs[i])
    PROVE  /\ TableIsOfOrigin'
           /\ Len(origin') = Len(origin) + Len(reqs)
           /\ Len(table') = Len(origin')
           /\ DOMAIN table' = 1 .. Len(origin')
           /\ \A id \in 1 .. Len(origin) : table'[id] = table[id]
  <1> DEFINE m == Len(origin)
             n == Len(reqs)
             new == [i \in DOMAIN reqs |-> BuildReceipt(Len(table) + i, reqs[i])]
             Rows == {table[id] : id \in 1 .. m} \cup {new[i] : i \in 1 .. n}
  <1>1. /\ m \in Nat /\ n \in Nat /\ DOMAIN reqs = 1 .. n /\ Len(table) = m
        /\ DOMAIN table = 1 .. m
        /\ \A id \in 1 .. m : table[id] = BuildReceipt(id, origin[id])
    BY TableShape
  <1>2. origin' = origin \o reqs /\ table' = table \o new
    BY DEF AppendReceipts
  <1>3. origin \in Seq(Requests) /\ \A id \in 1 .. m : Parses(origin[id])
    BY DEF TableIsOfOrigin
  <1>4. /\ origin' \in Seq(Requests)
        /\ Len(origin') = m + n
        /\ \A id \in 1 .. m : origin'[id] = origin[id]
        /\ \A i \in 1 .. n : origin'[m + i] = reqs[i]
    BY <1>1, <1>2, <1>3, ConcatProperties
  <1>5. /\ DOMAIN new = 1 .. n
        /\ \A i \in 1 .. n : new[i] = BuildReceipt(m + i, reqs[i])
    BY <1>1
  <1> HIDE DEF new
  <1>6. new \in Seq(Rows) /\ Len(new) = n
    <2>1. new = [i \in 1 .. n |-> new[i]]
      BY <1>1, <1>5 DEF new
    <2>2. QED
      BY <1>1, <2>1
  <1>7. table \in Seq(Rows)
    BY TableShape
  <1> HIDE DEF Rows
  <1>8. /\ table' \in Seq(Rows)
        /\ Len(table') = m + n
        /\ \A id \in 1 .. m : table'[id] = table[id]
        /\ \A i \in 1 .. n : table'[m + i] = new[i]
    <2>1. /\ table' \in Seq(Rows)
          /\ Len(table') = m + n
          /\ \A i \in 1 .. m + n : table'[i] = IF i <= m THEN table[i] ELSE new[i - m]
      <3>1. /\ table \o new \in Seq(Rows)
            /\ Len(table \o new) = Len(table) + Len(new)
            /\ \A i \in 1 .. Len(table) + Len(new) :
                  (table \o new)[i] = IF i <= Len(table) THEN table[i]
                                      ELSE new[i - Len(table)]
        BY <1>6, <1>7, ConcatProperties, Zenon
      <3>2. Len(table) = m /\ Len(new) = n
        BY <1>1, <1>6
      <3>3. QED
        BY <1>2, <3>1, <3>2
    <2>2. \A id \in 1 .. m : id \in 1 .. m + n /\ id <= m
      BY <1>1
    <2>3. \A i \in 1 .. n : m + i \in 1 .. m + n /\ ~(m + i <= m) /\ (m + i) - m = i
      BY <1>1
    <2>4. \A i \in 1 .. n : table'[m + i] = new[(m + i) - m]
      BY <2>1, <2>3
    <2>5. \A i \in 1 .. n : table'[m + i] = new[i]
      BY <2>3, <2>4
    <2>6. QED
      BY <2>1, <2>2, <2>5
  <1>9. \A id \in 1 .. (m + n) : id \in 1 .. m \/ \E i \in 1 .. n : id = m + i
    <2> TAKE id \in 1 .. (m + n)
    <2>1. id \notin 1 .. m => id - m \in 1 .. n /\ id = m + (id - m)
      BY <1>1
    <2>2. QED
      BY <2>1
  <1>10. \A id \in 1 .. (m + n) : table'[id] = BuildReceipt(id, origin'[id])
    <2> TAKE id \in 1 .. (m + n)
    <2>1. CASE id \in 1 .. m
      BY <1>1, <1>4, <1>8, <2>1
    <2>2. ASSUME NEW i \in 1 .. n, id = m + i
          PROVE  table'[id] = BuildReceipt(id, origin'[id])
      <3>1. table'[m + i] = BuildReceipt(m + i, reqs[i]) /\ origin'[m + i] = reqs[i]
        BY <1>4, <1>5, <1>8
      <3>2. QED
        BY <2>2, <3>1
    <2>3. QED
      BY <1>9, <2>1, <2>2
  <1>11. \A id \in 1 .. (m + n) : Parses(origin'[id])
    BY <1>3, <1>4, <1>9
  <1>12. DOMAIN table' = 1 .. (m + n)
    BY <1>8
  <1>13. table' = [id \in 1 .. (m + n) |-> BuildReceipt(id, origin'[id])]
    BY <1>8, <1>10, <1>12
  <1>14. QED
    BY <1>4, <1>8, <1>11, <1>12, <1>13 DEF TableIsOfOrigin

(* Rows are added: what is known of the earlier ones stays.                *)
LEMMA GrowthKeeps ==
    ASSUME ReceiptsInv, Len(origin') \in Nat, Len(origin) <= Len(origin'),
           \A id \in 1 .. Len(origin) : table'[id] = table[id],
           UNCHANGED <<payments, acknowledged>>
    PROVE  /\ 1 .. Len(origin) \subseteq 1 .. Len(origin')
           /\ acknowledged' \subseteq payments'
           /\ payments' \subseteq (1 .. Len(origin')) \X Auths
           /\ \A p, q \in payments' : p[1] = q[1] => p = q
           /\ {table[id] : id \in 1 .. Len(origin)}
                 \subseteq {table'[id] : id \in 1 .. Len(origin')}
  <1>1. Len(origin) \in Nat
    BY TableShape DEF ReceiptsInv
  <1>2. 1 .. Len(origin) \subseteq 1 .. Len(origin')
    BY <1>1
  <1>3. payments' \subseteq (1 .. Len(origin')) \X Auths
    BY <1>2 DEF ReceiptsInv, PaidOnce
  <1>4. QED
    BY <1>2, <1>3 DEF ReceiptsInv, PaidOnce

(* POST /v1/receipts and /v1/receipts/batch.                               *)
LEMMA IngestKeepsInv ==
    ASSUME ReceiptsInv, NEW reqs \in Seq(Requests), Ingest(reqs)
    PROVE  ReceiptsInv'
  <1>1. /\ \A i \in 1 .. Len(reqs) : Parses(reqs[i])
        /\ AppendReceipts(reqs)
        /\ issued' = issued \cup NewRows
        /\ UNCHANGED <<payments, handler, acknowledged>>
    BY DEF Ingest
  <1>2. /\ TableIsOfOrigin'
        /\ Len(origin') = Len(origin) + Len(reqs)
        /\ DOMAIN table' = 1 .. Len(origin')
        /\ \A id \in 1 .. Len(origin) : table'[id] = table[id]
    BY <1>1, AppendKeepsTable DEF ReceiptsInv
  <1>3. Len(origin) \in Nat /\ Len(origin') \in Nat /\ Len(origin) <= Len(origin')
    BY <1>2, TableShape DEF ReceiptsInv
  <1>4. IssuedAreRows'
    <2>1. NewRows \subseteq {table'[id] : id \in 1 .. Len(origin')}
      BY <1>2 DEF NewRows
    <2>2. QED
      BY <1>1, <1>2, <1>3, <2>1, GrowthKeeps DEF ReceiptsInv, IssuedAreRows
  <1>5. HandlersAreApart'
    BY <1>1, <1>2, <1>3 DEF ReceiptsInv, HandlersAreApart, AtWork, Paying, Paid
  <1>6. PaidOnce'
    BY <1>1, <1>2, <1>3, GrowthKeeps DEF ReceiptsInv, PaidOnce, Paying, Paid, FiledBy
  <1>7. QED
    BY <1>2, <1>4, <1>5, <1>6 DEF ReceiptsInv

(* A paid receipt is appended: its row is new, and so is nobody else's.    *)
LEMMA AppendPaidKeepsInv ==
    ASSUME ReceiptsInv, NEW h \in Handlers, NEW req \in Requests, NEW auth \in Auths,
           AppendPaid(h, req, auth)
    PROVE  ReceiptsInv'
  <1> DEFINE reqs == <<req>>
             new == [stage |-> "appended", receipt |-> Len(table'), auth |-> auth]
  <1>1. /\ Parses(req)
        /\ AppendReceipts(reqs)
        /\ handler' = [handler EXCEPT ![h] = new]
        /\ UNCHANGED <<payments, issued, acknowledged>>
    BY DEF AppendPaid
  <1>2. reqs \in Seq(Requests) /\ Len(reqs) = 1 /\ \A i \in 1 .. Len(reqs) : Parses(reqs[i])
    BY <1>1
  <1>3. /\ TableIsOfOrigin'
        /\ Len(origin') = Len(origin) + Len(reqs)
        /\ Len(table') = Len(origin')
        /\ \A id \in 1 .. Len(origin) : table'[id] = table[id]
    BY <1>1, <1>2, AppendKeepsTable DEF ReceiptsInv
  <1>4. /\ Len(origin) \in Nat
        /\ Len(origin') = Len(origin) + 1
        /\ Len(table') = Len(origin) + 1
    BY <1>2, <1>3, TableShape DEF ReceiptsInv
  <1>5. /\ new \in HandlerStates
        /\ new.receipt = Len(origin) + 1 /\ new.stage = "appended"
    BY <1>4 DEF HandlerStates
  <1> HIDE DEF new
  <1>6. /\ handler'[h] = new
        /\ \A g \in Handlers : g # h => handler'[g] = handler[g]
        /\ handler' \in [Handlers -> HandlerStates]
        /\ handler[h] = Idle
    BY <1>1, <1>5 DEF ReceiptsInv, HandlersAreApart, AppendPaid
  <1>7. IssuedAreRows'
    BY <1>1, <1>3, <1>4, GrowthKeeps DEF ReceiptsInv, IssuedAreRows
  <1>8. \A g \in Handlers : AtWork(g) => handler[g].receipt \in 1 .. Len(origin)
    BY DEF ReceiptsInv, HandlersAreApart
  <1>9. HandlersAreApart'
    <2>1. \A g \in Handlers : AtWork(g)' => handler'[g].receipt \in 1 .. Len(origin')
      BY <1>4, <1>5, <1>6, <1>8 DEF AtWork, Paying, Paid
    <2>2. ASSUME NEW f \in Handlers, NEW g \in Handlers, f # g, AtWork(f)', AtWork(g)'
          PROVE  handler'[f].receipt # handler'[g].receipt
      BY <1>4, <1>5, <1>6, <1>8, <2>2 DEF AtWork, Paying, Paid, ReceiptsInv, HandlersAreApart
    <2>3. QED
      BY <1>6, <2>1, <2>2 DEF HandlersAreApart
  <1>10. PaidOnce'
    <2>1. \A p \in payments : p[1] \in 1 .. Len(origin)
      BY DEF ReceiptsInv, PaidOnce
    <2>2. ASSUME NEW g \in Handlers, NEW p \in payments', Paying(g)'
          PROVE  p[1] # handler'[g].receipt
      BY <1>1, <1>4, <1>5, <1>6, <2>1, <2>2 DEF Paying, ReceiptsInv, PaidOnce
    <2>3. \A g \in Handlers : /\ Paid(g)' <=> Paid(g)
                              /\ Paid(g) => FiledBy(g)' = FiledBy(g)
      BY <1>5, <1>6 DEF Paid, FiledBy, Idle
    <2>4. \A g \in Handlers : Paid(g)' => FiledBy(g)' \in payments'
      BY <1>1, <2>3 DEF ReceiptsInv, PaidOnce
    <2>5. \A p \in payments' : p \in acknowledged'
                               \/ \E g \in Handlers : Paid(g)' /\ p = FiledBy(g)'
      BY <1>1, <2>3 DEF ReceiptsInv, PaidOnce
    <2>6. QED
      BY <1>1, <1>3, <1>4, <2>2, <2>4, <2>5, GrowthKeeps DEF PaidOnce
  <1>11. QED
    BY <1>3, <1>7, <1>9, <1>10 DEF ReceiptsInv

(* The payment is filed under the handler's own receipt, which has none.   *)
LEMMA PayKeepsInv ==
    ASSUME ReceiptsInv, NEW h \in Handlers, Pay(h)
    PROVE  ReceiptsInv'
  <1> DEFINE id == handler[h].receipt
             auth == handler[h].auth
             new == [handler[h] EXCEPT !.stage = "paid"]
  <1>1. /\ Paying(h)
        /\ payments' = {p \in payments : p[1] # id} \cup {<<id, auth>>}
        /\ handler' = [handler EXCEPT ![h] = new]
        /\ UNCHANGED <<table, origin, issued, acknowledged>>
    BY DEF Pay, StorePayment, Paying
  <1>2. id \in 1 .. Len(origin) /\ auth \in Auths
    BY <1>1 DEF ReceiptsInv, HandlersAreApart, HandlerStates, AtWork, Paying, Idle
  <1>3. \A p \in payments : p[1] # id
    BY <1>1 DEF ReceiptsInv, PaidOnce
  <1>4. payments' = payments \cup {<<id, auth>>}
    BY <1>1, <1>3
  <1>5. /\ new \in HandlerStates
        /\ new.stage = "paid" /\ new.receipt = id /\ new.auth = auth
    BY <1>1 DEF ReceiptsInv, HandlersAreApart, HandlerStates, Paying, Idle
  <1> HIDE DEF new
  <1>6. /\ handler'[h] = new
        /\ \A g \in Handlers : g # h => handler'[g] = handler[g]
        /\ handler' \in [Handlers -> HandlerStates]
    BY <1>1, <1>5 DEF ReceiptsInv, HandlersAreApart
  <1>7. /\ \A g \in Handlers : Paying(g)' => g # h /\ Paying(g)
        /\ \A g \in Handlers : AtWork(g)' => AtWork(g) /\ handler'[g].receipt = handler[g].receipt
        /\ \A g \in Handlers : g # h => FiledBy(g)' = FiledBy(g) /\ (Paid(g)' <=> Paid(g))
        /\ Paid(h)' /\ FiledBy(h)' = <<id, auth>> /\ ~Paid(h)
    BY <1>1, <1>5, <1>6 DEF Paying, Paid, AtWork, FiledBy
  <1>8. TableIsOfOrigin' /\ IssuedAreRows'
    BY <1>1 DEF ReceiptsInv, TableIsOfOrigin, IssuedAreRows
  <1>9. HandlersAreApart'
    BY <1>1, <1>6, <1>7 DEF ReceiptsInv, HandlersAreApart
  <1>10. PaidOnce'
    <2>1. acknowledged' \subseteq payments'
      BY <1>1, <1>4 DEF ReceiptsInv, PaidOnce
    <2>2. payments' \subseteq (1 .. Len(origin')) \X Auths
      BY <1>1, <1>2, <1>4 DEF ReceiptsInv, PaidOnce
    <2>3. \A p, q \in payments' : p[1] = q[1] => p = q
      BY <1>3, <1>4 DEF ReceiptsInv, PaidOnce
    <2>4. ASSUME NEW g \in Handlers, NEW p \in payments', Paying(g)'
          PROVE  p[1] # handler'[g].receipt
      <3>1. handler[g].receipt # id /\ handler'[g] = handler[g] /\ Paying(g)
        BY <1>1, <1>6, <1>7, <2>4 DEF ReceiptsInv, HandlersAreApart, AtWork
      <3>2. QED
        BY <1>4, <3>1 DEF ReceiptsInv, PaidOnce
    <2>5. \A g \in Handlers : Paid(g)' => FiledBy(g)' \in payments'
      BY <1>4, <1>7 DEF ReceiptsInv, PaidOnce
    <2>6. ASSUME NEW p \in payments'
          PROVE  p \in acknowledged' \/ \E g \in Handlers : Paid(g)' /\ p = FiledBy(g)'
      <3>1. CASE p = <<id, auth>>
        BY <1>7, <3>1
      <3>2. CASE p \in payments
        BY <1>1, <1>7, <3>2 DEF ReceiptsInv, PaidOnce
      <3>3. QED
        BY <1>4, <3>1, <3>2
    <2>7. QED
      BY <2>1, <2>2, <2>3, <2>4, <2>5, <2>6 DEF PaidOnce
  <1>11. QED
    BY <1>8, <1>9, <1>10 DEF ReceiptsInv

(* The 201: what the handler has filed is now acknowledged.                *)
LEMMA AnswerPaidKeepsInv ==
    ASSUME ReceiptsInv, NEW h \in Handlers, AnswerPaid(h)
    PROVE  ReceiptsInv'
  <1>1. /\ Paid(h)
        /\ issued' = issued \cup {table[handler[h].receipt]}
        /\ acknowledged' = acknowledged \cup {FiledBy(h)}
        /\ handler' = [handler EXCEPT ![h] = Idle]
        /\ UNCHANGED <<table, origin, payments>>
    BY DEF AnswerPaid, Paid, FiledBy
  <1>2. handler[h].receipt \in 1 .. Len(origin)
    BY <1>1 DEF ReceiptsInv, HandlersAreApart, AtWork
  <1>3. /\ handler'[h] = Idle
        /\ \A g \in Handlers : g # h => handler'[g] = handler[g]
        /\ handler' \in [Handlers -> HandlerStates]
    BY <1>1 DEF ReceiptsInv, HandlersAreApart, HandlerStates
  <1>4. /\ \A g \in Handlers : Paying(g)' => g # h /\ Paying(g)
        /\ \A g \in Handlers : Paid(g)' => g # h /\ Paid(g)
        /\ \A g \in Handlers : g # h => FiledBy(g)' = FiledBy(g) /\ (Paid(g)' <=> Paid(g))
    BY <1>3 DEF Paying, Paid, FiledBy, Idle
  <1>5. TableIsOfOrigin' /\ IssuedAreRows'
    BY <1>1, <1>2 DEF ReceiptsInv, TableIsOfOrigin, IssuedAreRows
  <1>6. HandlersAreApart'
    BY <1>1, <1>3, <1>4 DEF ReceiptsInv, HandlersAreApart, AtWork
  <1>7. PaidOnce'
    <2>1. acknowledged' \subseteq payments'
      BY <1>1 DEF ReceiptsInv, PaidOnce
    <2>2. \A g \in Handlers : Paid(g)' => FiledBy(g)' \in payments'
      BY <1>1, <1>4 DEF ReceiptsInv, PaidOnce
    <2>3. \A p \in payments' : p \in acknowledged'
                               \/ \E g \in Handlers : Paid(g)' /\ p = FiledBy(g)'
      BY <1>1, <1>4 DEF ReceiptsInv, PaidOnce
    <2>4. \A g \in Handlers, p \in payments' : Paying(g)' => p[1] # handler'[g].receipt
      BY <1>1, <1>3, <1>4 DEF ReceiptsInv, PaidOnce
    <2>5. QED
      BY <1>1, <2>1, <2>2, <2>3, <2>4 DEF ReceiptsInv, PaidOnce
  <1>8. QED
    BY <1>5, <1>6, <1>7 DEF ReceiptsInv

(* The inductive invariant of the receipts.                                *)
LEMMA ReceiptsInvStep ==
    ASSUME ReceiptsInv, [ReceiptsNext]_receiptsVars
    PROVE  ReceiptsInv'
  <1>1. ASSUME NEW req \in Requests, Ingest(<<req>>) PROVE ReceiptsInv'
    <2>1. <<req>> \in Seq(Requests)
      OBVIOUS
    <2>2. QED
      BY <1>1, <2>1, IngestKeepsInv, Zenon
  <1>2. ASSUME NEW first \in Requests, NEW second \in Requests, Ingest(<<first, second>>)
        PROVE  ReceiptsInv'
    <2>1. <<first, second>> \in Seq(Requests)
      OBVIOUS
    <2>2. QED
      BY <1>2, <2>1, IngestKeepsInv, Zenon
  <1>3. CASE Restart
    BY <1>3 DEF Restart, ReceiptsInv, TableIsOfOrigin, IssuedAreRows, HandlersAreApart,
                HandlerStates, PaidOnce, AtWork, Paying, Paid, Idle
  <1>4. CASE UNCHANGED receiptsVars
    BY <1>4 DEF receiptsVars, ReceiptsInv, TableIsOfOrigin, IssuedAreRows, HandlersAreApart,
                PaidOnce, AtWork, Paying, Paid, FiledBy
  <1>5. QED
    BY <1>1, <1>2, <1>3, <1>4, AppendPaidKeepsInv, PayKeepsInv, AnswerPaidKeepsInv
       DEF ReceiptsNext, Refuse

(* Every row is the receipt of its request, a receipt is one handler's     *)
(* alone, and the bridge has what was acknowledged or is about to be.      *)
THEOREM ReceiptsInvariant == ReceiptsSpec => []ReceiptsInv
  <1>1. ReceiptsInit => ReceiptsInv
    BY DEF ReceiptsInit, ReceiptsInv, TableIsOfOrigin, IssuedAreRows, HandlersAreApart,
           HandlerStates, PaidOnce, AtWork, Paying, Paid, Idle
  <1>2. ReceiptsInv /\ [ReceiptsNext]_receiptsVars => ReceiptsInv'
    BY ReceiptsInvStep
  <1>3. QED
    BY <1>1, <1>2, PTL DEF ReceiptsSpec

(* What GET .../payment shows for a receipt that is paid for.              *)
LEMMA PaymentShown ==
    ASSUME ReceiptsInv, NEW p \in payments
    PROVE  GetReceiptPayment(p[1]) = WrapReceipt(table[p[1]], p[2])
  <1> DEFINE paid == {q \in payments : q[1] = p[1]}
  <1>1. paid = {p}
    BY DEF ReceiptsInv, PaidOnce
  <1>2. (CHOOSE q \in paid : TRUE) = p
    BY <1>1
  <1>3. paid # {}
    BY <1>1
  <1>4. QED
    BY <1>2, <1>3 DEF GetReceiptPayment

(* A payment that was answered with 201 is what is shown for its receipt,  *)
(* and no receipt shows another's: for any requests that interleave.       *)
THEOREM PaymentsAreKept == ReceiptsSpec => []AcknowledgedPaymentKept
  <1>1. ASSUME ReceiptsInv PROVE AcknowledgedPaymentKept
    <2>1. acknowledged \subseteq payments
      BY <1>1 DEF ReceiptsInv, PaidOnce
    <2>2. ASSUME NEW id \in DOMAIN table, GetReceiptPayment(id) # NoPaymentRecord
          PROVE  LET auth == GetReceiptPayment(id).auth
                 IN  \/ <<id, auth>> \in acknowledged
                     \/ \E h \in Handlers :
                           handler[h] = [stage |-> "paid", receipt |-> id, auth |-> auth]
      <3>1. PICK p \in payments : p[1] = id
        BY <2>2 DEF GetReceiptPayment
      <3>2. GetReceiptPayment(id) = WrapReceipt(table[id], p[2])
        BY <1>1, <3>1, PaymentShown
      <3>3. GetReceiptPayment(id).auth = p[2]
        BY <3>2 DEF WrapReceipt
      <3>4. p = <<p[1], p[2]>>
        BY <1>1, <3>1 DEF ReceiptsInv, PaidOnce
      <3>5. CASE p \in acknowledged
        BY <3>1, <3>3, <3>4, <3>5
      <3>6. ASSUME NEW h \in Handlers, Paid(h), p = FiledBy(h)
            PROVE  handler[h] = [stage |-> "paid", receipt |-> id, auth |-> p[2]]
        <4>1. handler[h].receipt = id /\ handler[h].auth = p[2]
          BY <3>1, <3>6 DEF FiledBy
        <4>2. handler[h] \in [stage : {"appended", "paid"}, receipt : Nat, auth : Auths]
          BY <1>1, <3>6 DEF ReceiptsInv, HandlersAreApart, HandlerStates, Paid, Idle
        <4>3. QED
          BY <3>6, <4>1, <4>2 DEF Paid
      <3>7. QED
        BY <1>1, <3>3, <3>5, <3>6 DEF ReceiptsInv, PaidOnce
    <2>3. QED
      BY <1>1, <2>1, <2>2, PaymentShown DEF AcknowledgedPaymentKept
  <1>2. QED
    BY <1>1, ReceiptsInvariant, PTL

(* The provenance a receipt of a request may claim.                        *)
LEMMA ProvenanceEarned ==
    ASSUME NEW req \in Requests, NEW r, NEW p,
           r.model = req.model,
           r.modelSigner = PopulateModelIdentity(req).signer,
           r.modelSignatureVerified = PopulateModelIdentity(req).verified,
           p \in BuildPredicate(r).provenance
    PROVE  /\ p.model = req.model
           /\ IF p.verified
              THEN /\ req.bundle # NoBundle
                   /\ req.bundle.signed /\ req.bundle.signer = p.signer
              ELSE req.bundle = NoBundle /\ req.model \in WellKnown
  <1> DEFINE m == PopulateModelIdentity(req)
  <1> DEFINE Claim == [model |-> r.model, signer |-> r.modelSigner,
                       digest |-> r.modelDigest, verified |-> r.modelSignatureVerified]
  <1>6. BuildPredicate(r).provenance
          = IF r.modelSigner # "" \/ r.modelSignatureVerified THEN {Claim} ELSE {}
    BY DEF BuildPredicate
  <1>7. (m.signer # "" \/ m.verified) /\ p = Claim
    BY <1>6, Zenon
  <1>8. p.model = r.model /\ p.signer = r.modelSigner
    BY <1>7
  <1>9. p.verified = r.modelSignatureVerified
    BY <1>7, Zenon
  <1>1. /\ m.signer # "" \/ m.verified
        /\ p.model = req.model /\ p.signer = m.signer /\ p.verified = m.verified
    BY <1>7, <1>8, <1>9, Zenon
  <1>2. CASE req.bundle = NoBundle
    <2>1. m = Lookup(req.model)
      BY <1>2 DEF PopulateModelIdentity
    <2>4. ASSUME req.model \in WellKnown PROVE m.verified = FALSE
      <3>1. m = [signer |-> "publisher", verified |-> FALSE, digest |-> ""]
        BY <2>1, <2>4 DEF Lookup
      <3> HIDE DEF m
      <3>2. QED
        BY <3>1
    <2>5. ASSUME req.model \notin WellKnown PROVE m.verified = FALSE /\ m.signer = ""
      <3>1. m = [signer |-> "", verified |-> FALSE, digest |-> ""]
        BY <2>1, <2>5 DEF Lookup, Unidentified
      <3> HIDE DEF m
      <3>2. QED
        BY <3>1
    <2>2. m.verified = FALSE /\ (req.model \notin WellKnown => m.signer = "")
      BY <2>4, <2>5, Zenon
    <2>3. QED
      BY <1>1, <1>2, <2>2
  <1>3. CASE req.bundle # NoBundle /\ BundleVerifies(ParseBundleFromPEM(req.bundle))
    <2>1. m.verified = TRUE /\ m.signer = req.bundle.signer
      BY <1>3 DEF PopulateModelIdentity
    <2>2. ParseBundleFromPEM(req.bundle).signed
      BY <1>3 DEF BundleVerifies
    <2>3. ParseBundleFromPEM(req.bundle).signed = req.bundle.signed
      BY <1>3, ReceiptsAssumption DEF ParseBundleFromPEM
    <2>4. QED
      BY <1>1, <1>3, <2>1, <2>2, <2>3
  <1>4. CASE req.bundle # NoBundle /\ ~BundleVerifies(ParseBundleFromPEM(req.bundle))
    <2>1. m.verified = FALSE /\ m.signer = ""
      BY <1>4 DEF PopulateModelIdentity, Unidentified
    <2>2. QED
      BY <1>1, <2>1
  <1>5. QED
    BY <1>2, <1>3, <1>4

(* The energy footprint a receipt of a request may claim.                  *)
LEMMA FootprintEarned ==
    ASSUME NEW req \in Requests, NEW r, NEW f,
           r.energy = PopulateEnergyFields(req.model, ParseUsage(req.provider, req.body)),
           f \in BuildPredicate(r).footprint
    PROVE  /\ req.model \in Benchmarked
           /\ f.joules = req.body.input + 3 * req.body.output
           /\ f.carbon <=> InferenceRegion # ""
  <1> DEFINE usage == ParseUsage(req.provider, req.body)
             e == PopulateEnergyFields(req.model, usage)
  <1>1. e.joules > 0 /\ f.joules = e.joules /\ f.carbon = e.intensity
    BY DEF BuildPredicate
  <1>2. e.joules = Estimate(req.model, usage).joules
    BY DEF PopulateEnergyFields
  <1>3. req.model \in Benchmarked
    BY <1>1, <1>2 DEF Estimate
  <1>4. e.joules = usage.input + 3 * usage.output
    BY <1>2, <1>3 DEF Estimate
  <1>5. usage # NoUsage
    BY <1>1, <1>4 DEF NoUsage
  <1>6. usage = [input |-> req.body.input, output |-> req.body.output]
    BY <1>5 DEF ParseUsage, ParseMessages, ParseCompletion
  <1>7. e.joules = req.body.input + 3 * req.body.output
    BY <1>4, <1>6
  <1>8. e.intensity <=> InferenceRegion # ""
    BY <1>3 DEF PopulateEnergyFields, Estimate
  <1>9. QED
    BY <1>1, <1>3, <1>7, <1>8

(* No attestation claims more of the model and its energy than the request *)
(* gave reason to: for any requests, registry, energy table and region.    *)
THEOREM AttestationsAreEarned == ReceiptsSpec => []AttestationClaimsEarned
  <1>1. ASSUME ReceiptsInv PROVE AttestationClaimsEarned
    <2> SUFFICES ASSUME NEW id \in DOMAIN table
                 PROVE  LET req == origin[id]
                            att == HandleAttestation(id)
                        IN  /\ att.subject = req.body
                            /\ \A p \in att.predicate.provenance :
                                  /\ p.model = req.model
                                  /\ IF p.verified
                                     THEN /\ req.bundle # NoBundle
                                          /\ req.bundle.signed /\ req.bundle.signer = p.signer
                                     ELSE req.bundle = NoBundle /\ req.model \in WellKnown
                            /\ \A f \in att.predicate.footprint :
                                  /\ req.model \in Benchmarked
                                  /\ f.joules = req.body.input + 3 * req.body.output
                                  /\ f.carbon <=> InferenceRegion # ""
      BY DEF AttestationClaimsEarned
    <2> DEFINE req == origin[id]
               r == table[id]
    <2>1. id \in 1 .. Len(origin) /\ r = BuildReceipt(id, req) /\ req \in Requests
      BY <1>1, TableShape DEF ReceiptsInv, TableIsOfOrigin
    <2> HIDE DEF req, r
    <2>2. /\ r.model = req.model
          /\ r.responseHash = req.body
          /\ r.modelSigner = PopulateModelIdentity(req).signer
          /\ r.modelSignatureVerified = PopulateModelIdentity(req).verified
          /\ r.energy = PopulateEnergyFields(req.model, ParseUsage(req.provider, req.body))
      BY <2>1, BuiltFields
    <2>3. HandleAttestation(id).subject = req.body
          /\ HandleAttestation(id).predicate = BuildPredicate(r)
      BY <2>2 DEF HandleAttestation, ReceiptStatement, r
    <2>4. QED
      BY <2>1, <2>2, <2>3, ProvenanceEarned, FootprintEarned, ZenonT(60) DEF req
  <1>2. QED
    BY <1>1, ReceiptsInvariant, PTL

-----------------------------------------------------------------------------
(* reconcile.                                                              *)

\* Entries of the local log the ledger knows, and those it disagrees with.
Known(e) == e.id \in DOMAIN table

Apart(e) ==
    \/ Exceeds(e.usage.input, table[e.id].inputTokens)
    \/ Exceeds(e.usage.output, table[e.id].outputTokens)

\* A local log names rows, or the id that no row will ever have.
IsLocalLog(own) ==
    /\ own \in Seq([id : Nat, usage : [input : Nat, output : Nat]])
    /\ \A i \in 1 .. Len(own) : Known(own[i]) \/ own[i].id = UnknownID

\* The first n entries: none failed or missing, none apart.
NoneMissing(own, failed, n) == failed = {} /\ \A i \in 1 .. n : Known(own[i])

NoneApart(own, failed, n) == \A i \in (1 .. n) \ failed : Known(own[i]) => ~Apart(own[i])

RunFields == {"stage", "log", "next", "missing", "discrepancies", "failed"}

\* The counters are zero exactly when what they count has not happened.
RunIsRight ==
    LET own == reconcile.log
        done == reconcile.next - 1
    IN  /\ reconcile = [f \in RunFields |-> reconcile[f]]
        /\ IsLocalLog(own)
        /\ reconcile.next \in 1 .. Len(own) + 1
        /\ reconcile.missing \in Nat
        /\ reconcile.discrepancies \in Nat
        /\ reconcile.failed \subseteq 1 .. done
        /\ reconcile.missing = 0 <=> NoneMissing(own, reconcile.failed, done)
        /\ reconcile.discrepancies = 0 <=> NoneApart(own, reconcile.failed, done)

ExitIsRight ==
    LET own == reconcile.log
    IN  /\ IsLocalLog(own)
        /\ reconcile.ok <=> /\ NoneMissing(own, reconcile.failed, Len(own))
                            /\ NoneApart(own, reconcile.failed, Len(own))

ReconcileInv ==
    \/ reconcile = NotReconciling
    \/ reconcile.stage = "run" /\ RunIsRight
    \/ reconcile.stage = "exit" /\ ExitIsRight

(* The rows stay, and no row ever has the unknown id.                      *)
LEMMA RowsStay ==
    ASSUME ReceiptsInv, [ReceiptsNext]_receiptsVars
    PROVE  /\ DOMAIN table \subseteq DOMAIN table'
           /\ \A id \in DOMAIN table : table'[id] = table[id]
           /\ UnknownID \notin DOMAIN table'
  <1>1. DOMAIN table = 1 .. Len(origin) /\ Len(origin) \in Nat
    BY TableShape DEF ReceiptsInv
  <1>2. DOMAIN table' = 1 .. Len(origin') /\ Len(origin') \in Nat
    BY ReceiptsInvStep, TableShape DEF ReceiptsInv, TableIsOfOrigin
  <1>3. UnknownID \notin DOMAIN table'
    BY <1>2 DEF UnknownID
  <1>4. ASSUME NEW reqs \in Seq(Requests), AppendReceipts(reqs),
               \A i \in 1 .. Len(reqs) : Parses(reqs[i])
        PROVE  /\ DOMAIN table \subseteq DOMAIN table'
               /\ \A id \in DOMAIN table : table'[id] = table[id]
    <2>1. /\ Len(origin') = Len(origin) + Len(reqs) /\ Len(reqs) \in Nat
          /\ \A id \in 1 .. Len(origin) : table'[id] = table[id]
      BY <1>4, AppendKeepsTable DEF ReceiptsInv
    <2>2. QED
      BY <1>1, <1>2, <2>1
  <1>5. ASSUME NEW reqs \in Seq(Requests), Ingest(reqs)
        PROVE  /\ DOMAIN table \subseteq DOMAIN table'
               /\ \A id \in DOMAIN table : table'[id] = table[id]
    <2>1. AppendReceipts(reqs) /\ \A i \in 1 .. Len(reqs) : Parses(reqs[i])
      BY <1>5 DEF Ingest
    <2>2. QED
      BY <1>4, <2>1
  <1>6. ASSUME NEW req \in Requests, Ingest(<<req>>)
        PROVE  /\ DOMAIN table \subseteq DOMAIN table'
               /\ \A id \in DOMAIN table : table'[id] = table[id]
    <2>1. <<req>> \in Seq(Requests)
      OBVIOUS
    <2>2. QED
      BY <1>5, <1>6, <2>1, Zenon
  <1>7. ASSUME NEW first \in Requests, NEW second \in Requests, Ingest(<<first, second>>)
        PROVE  /\ DOMAIN table \subseteq DOMAIN table'
               /\ \A id \in DOMAIN table : table'[id] = table[id]
    <2>1. <<first, second>> \in Seq(Requests)
      OBVIOUS
    <2>2. QED
      BY <1>5, <1>7, <2>1, Zenon
  <1>8. ASSUME NEW h, NEW req \in Requests, NEW auth, AppendPaid(h, req, auth)
        PROVE  /\ DOMAIN table \subseteq DOMAIN table'
               /\ \A id \in DOMAIN table : table'[id] = table[id]
    <2>1. /\ <<req>> \in Seq(Requests) /\ AppendReceipts(<<req>>)
          /\ \A i \in 1 .. Len(<<req>>) : Parses(<<req>>[i])
      BY <1>8 DEF AppendPaid
    <2>2. QED
      BY <1>4, <2>1, Zenon
  <1>9. ASSUME table' = table
        PROVE  /\ DOMAIN table \subseteq DOMAIN table'
               /\ \A id \in DOMAIN table : table'[id] = table[id]
    BY <1>9
  <1>10. QED
    BY <1>3, <1>6, <1>7, <1>8, <1>9
       DEF ReceiptsNext, Refuse, Pay, AnswerPaid, Restart, receiptsVars

(* What the ledger knows of an entry does not change.                      *)
LEMMA EntriesStay ==
    ASSUME ReceiptsInv, [ReceiptsNext]_receiptsVars,
           NEW e, Known(e) \/ e.id = UnknownID
    PROVE  /\ Known(e)' <=> Known(e)
           /\ Known(e) => (Apart(e)' <=> Apart(e))
  <1>1. /\ DOMAIN table \subseteq DOMAIN table'
        /\ \A id \in DOMAIN table : table'[id] = table[id]
        /\ UnknownID \notin DOMAIN table'
    BY RowsStay
  <1>2. Known(e)' <=> Known(e)
    BY <1>1 DEF Known
  <1>3. ASSUME Known(e) PROVE Apart(e)' <=> Apart(e)
    <2>1. table'[e.id] = table[e.id]
      BY <1>1, <1>3 DEF Known
    <2>2. QED
      BY <2>1 DEF Apart, Exceeds
  <1>4. QED
    BY <1>2, <1>3

(* The server moves on while the command runs.                             *)
LEMMA ServerKeepsReconcile ==
    ASSUME ReceiptsInv, [ReceiptsNext]_receiptsVars, ReconcileInv, UNCHANGED verifierVars
    PROVE  ReconcileInv'
  <1>1. reconcile' = reconcile
    BY DEF verifierVars
  <1>2. ASSUME NEW own, IsLocalLog(own), NEW failed, NEW n \in Nat, n <= Len(own)
        PROVE  /\ IsLocalLog(own)'
               /\ NoneMissing(own, failed, n)' <=> NoneMissing(own, failed, n)
               /\ NoneApart(own, failed, n)' <=> NoneApart(own, failed, n)
    <2>1. \A i \in 1 .. Len(own) : Known(own[i]) \/ own[i].id = UnknownID
      BY <1>2 DEF IsLocalLog
    <2>2. \A i \in 1 .. Len(own) : /\ Known(own[i])' <=> Known(own[i])
                                   /\ Known(own[i]) => (Apart(own[i])' <=> Apart(own[i]))
      BY <2>1, EntriesStay
    <2>3. Len(own) \in Nat
      BY <1>2 DEF IsLocalLog
    <2>4. 1 .. n \subseteq 1 .. Len(own)
      BY <1>2, <2>3
    <2>5. IsLocalLog(own)'
      BY <1>2, <2>2 DEF IsLocalLog
    <2>6. QED
      BY <2>2, <2>4, <2>5 DEF NoneMissing, NoneApart
  <1>3. CASE reconcile = NotReconciling
    BY <1>1, <1>3 DEF ReconcileInv
  <1>4. CASE reconcile.stage = "run" /\ RunIsRight
    <2> DEFINE own == reconcile.log
               failed == reconcile.failed
               done == reconcile.next - 1
    <2>1. IsLocalLog(own) /\ done \in Nat /\ done <= Len(own)
      <3>1. IsLocalLog(own) /\ reconcile.next \in 1 .. Len(own) + 1
        BY <1>4 DEF RunIsRight
      <3>2. Len(own) \in Nat
        BY <3>1 DEF IsLocalLog
      <3>3. QED
        BY <3>1, <3>2
    <2>2. /\ IsLocalLog(own)'
          /\ NoneMissing(own, failed, done)' <=> NoneMissing(own, failed, done)
          /\ NoneApart(own, failed, done)' <=> NoneApart(own, failed, done)
      <3>1. PICK l, f, n : l = own /\ f = failed /\ n = done
        OBVIOUS
      <3>2. /\ IsLocalLog(l)'
            /\ NoneMissing(l, f, n)' <=> NoneMissing(l, f, n)
            /\ NoneApart(l, f, n)' <=> NoneApart(l, f, n)
        BY <1>2, <2>1, <3>1
      <3>3. QED
        BY <1>1, <3>1, <3>2
    <2>3. RunIsRight'
      BY <1>1, <1>4, <2>2 DEF RunIsRight
    <2>4. QED
      BY <1>1, <1>4, <2>3 DEF ReconcileInv
  <1>5. CASE reconcile.stage = "exit" /\ ExitIsRight
    <2> DEFINE own == reconcile.log
               failed == reconcile.failed
    <2>1. IsLocalLog(own) /\ Len(own) \in Nat /\ Len(own) <= Len(own)
      BY <1>5, SMTT(30) DEF ExitIsRight, IsLocalLog
    <2>2. /\ IsLocalLog(own)'
          /\ NoneMissing(own, failed, Len(own))' <=> NoneMissing(own, failed, Len(own))
          /\ NoneApart(own, failed, Len(own))' <=> NoneApart(own, failed, Len(own))
      <3>1. PICK l, f, n : l = own /\ f = failed /\ n = Len(own)
        OBVIOUS
      <3>2. /\ IsLocalLog(l)'
            /\ NoneMissing(l, f, n)' <=> NoneMissing(l, f, n)
            /\ NoneApart(l, f, n)' <=> NoneApart(l, f, n)
        BY <1>2, <2>1, <3>1
      <3>3. QED
        BY <1>1, <3>1, <3>2
    <2>3. ExitIsRight'
      BY <1>1, <1>5, <2>2 DEF ExitIsRight
    <2>4. QED
      BY <1>1, <1>5, <2>3 DEF ReconcileInv
  <1>6. QED
    BY <1>3, <1>4, <1>5 DEF ReconcileInv

(* A local log is a sequence.                                              *)
LEMMA LogShape ==
    ASSUME NEW own, IsLocalLog(own)
    PROVE  Len(own) \in Nat /\ DOMAIN own = 1 .. Len(own)
  <1>1. \A S : own \in Seq(S) => Len(own) \in Nat /\ DOMAIN own = 1 .. Len(own)
    OBVIOUS
  <1>2. QED
    BY <1>1, Zenon DEF IsLocalLog

(* One more entry: what the counters stand for.                            *)
LEMMA OneMoreEntry ==
    ASSUME NEW own, IsLocalLog(own), NEW n \in 1 .. Len(own),
           NEW failed, failed \subseteq 1 .. n - 1
    PROVE  /\ NoneMissing(own, failed, n) <=>
                NoneMissing(own, failed, n - 1) /\ Known(own[n])
           /\ NoneApart(own, failed, n) <=>
                NoneApart(own, failed, n - 1) /\ (Known(own[n]) => ~Apart(own[n]))
           /\ ~NoneMissing(own, failed \cup {n}, n)
           /\ NoneApart(own, failed \cup {n}, n) <=> NoneApart(own, failed, n - 1)
  <1>1. Len(own) \in Nat
    BY DEF IsLocalLog
  <1>2. 1 .. n = (1 .. n - 1) \cup {n} /\ n \notin 1 .. n - 1
    BY <1>1
  <1>3. (1 .. n) \ failed = ((1 .. n - 1) \ failed) \cup {n}
    BY <1>2
  <1>4. (1 .. n) \ (failed \cup {n}) = (1 .. n - 1) \ failed
    BY <1>2
  <1>5. QED
    BY <1>2, <1>3, <1>4 DEF NoneMissing, NoneApart

(* The receipt that is fetched is the row of the entry's id.               *)
LEMMA FoundIsRow ==
    ASSUME ReceiptsInv, NEW e
    PROVE  {r \in {table[i] : i \in DOMAIN table} : r.id = e.id}
             = IF Known(e) THEN {table[e.id]} ELSE {}
  <1>1. \A i \in DOMAIN table : table[i].id = i
    BY TableShape, BuiltFields DEF ReceiptsInv
  <1>2. QED
    BY <1>1 DEF Known

(* An entry is compared.                                                   *)
LEMMA CompareKeepsRun ==
    ASSUME ReceiptsInv, RunIsRight, Compare, UNCHANGED receiptsVars
    PROVE  RunIsRight' /\ reconcile'.stage = "run"
  <1> DEFINE own == reconcile.log
             n == reconcile.next
             failed == reconcile.failed
             entry == own[n]
             found == {r \in {table[i] : i \in DOMAIN table} : r.id = entry.id}
             apart == \E r \in found : \/ Exceeds(entry.usage.input, r.inputTokens)
                                       \/ Exceeds(entry.usage.output, r.outputTokens)
  <1>1. /\ IsLocalLog(own) /\ n \in 1 .. Len(own) /\ failed \subseteq 1 .. n - 1
        /\ reconcile.missing \in Nat /\ reconcile.discrepancies \in Nat
        /\ reconcile.missing = 0 <=> NoneMissing(own, failed, n - 1)
        /\ reconcile.discrepancies = 0 <=> NoneApart(own, failed, n - 1)
        /\ reconcile = [f \in RunFields |-> reconcile[f]]
    <2>1. IsLocalLog(own) /\ n \in DOMAIN own
      BY DEF RunIsRight, Compare
    <2>2. n \in 1 .. Len(own)
      BY <2>1, LogShape
    <2>3. QED
      BY <2>1, <2>2 DEF RunIsRight
  <1>2. reconcile' = [reconcile EXCEPT
                         !.next = @ + 1,
                         !.missing = IF found = {} THEN @ + 1 ELSE @,
                         !.discrepancies = IF apart THEN @ + 1 ELSE @]
    BY DEF Compare
  <1>3. found = IF Known(entry) THEN {table[entry.id]} ELSE {}
    BY FoundIsRow
  <1>4. (found = {} <=> ~Known(entry)) /\ (apart <=> Known(entry) /\ Apart(entry))
    BY <1>3 DEF Apart
  <1> HIDE DEF found, apart, entry
  <1>5. /\ reconcile' = [f \in RunFields |-> reconcile'[f]]
        /\ reconcile'.stage = "run"
        /\ reconcile'.log = own
        /\ reconcile'.next = n + 1
        /\ reconcile'.failed = failed
        /\ reconcile'.missing = IF found = {} THEN reconcile.missing + 1 ELSE reconcile.missing
        /\ reconcile'.discrepancies
              = IF apart THEN reconcile.discrepancies + 1 ELSE reconcile.discrepancies
    BY <1>1, <1>2 DEF RunFields, Compare
  <1>6. PICK l, f, m : l = own /\ f = failed /\ m = n
    OBVIOUS
  <1>7. /\ NoneMissing(l, f, m) <=> NoneMissing(l, f, m - 1) /\ Known(l[m])
        /\ NoneApart(l, f, m) <=>
             NoneApart(l, f, m - 1) /\ (Known(l[m]) => ~Apart(l[m]))
    BY <1>1, <1>6, OneMoreEntry
  <1>8. /\ reconcile'.missing \in Nat
        /\ reconcile'.missing = 0 <=> NoneMissing(l, f, m)
    <2>1. NoneMissing(l, f, m) <=> reconcile.missing = 0 /\ found # {}
      BY <1>1, <1>4, <1>6, <1>7 DEF entry
    <2>2. QED
      BY <1>1, <1>5, <2>1
  <1>9. /\ reconcile'.discrepancies \in Nat
        /\ reconcile'.discrepancies = 0 <=> NoneApart(l, f, m)
    <2>1. NoneApart(l, f, m) <=> reconcile.discrepancies = 0 /\ ~apart
      BY <1>1, <1>4, <1>6, <1>7 DEF entry
    <2>2. QED
      BY <1>1, <1>5, <2>1
  <1>10. reconcile'.next - 1 = m /\ m \in 1 .. Len(l) /\ reconcile'.next \in 1 .. Len(l) + 1
         /\ f \subseteq 1 .. m
    <2>1. Len(l) \in Nat
      BY <1>1, <1>6, LogShape
    <2>2. m \in 1 .. Len(l) /\ reconcile'.next = m + 1 /\ f \subseteq 1 .. m - 1
      BY <1>1, <1>5, <1>6
    <2>3. QED
      BY <2>1, <2>2
  <1>11. table' = table
    BY DEF receiptsVars
  <1>12. /\ IsLocalLog(l)'
         /\ NoneMissing(l, f, m)' <=> NoneMissing(l, f, m)
         /\ NoneApart(l, f, m)' <=> NoneApart(l, f, m)
    BY <1>1, <1>6, <1>11 DEF IsLocalLog, NoneMissing, NoneApart, Known, Apart
  <1>13. QED
    BY <1>5, <1>6, <1>8, <1>9, <1>10, <1>12 DEF RunIsRight

(* A GET fails.                                                            *)
LEMMA FetchErrorKeepsRun ==
    ASSUME RunIsRight, FetchError, UNCHANGED receiptsVars
    PROVE  RunIsRight' /\ reconcile'.stage = "run"
  <1> DEFINE own == reconcile.log
             n == reconcile.next
             failed == reconcile.failed
  <1>1. /\ IsLocalLog(own) /\ n \in 1 .. Len(own) /\ failed \subseteq 1 .. n - 1
        /\ reconcile.missing \in Nat /\ reconcile.discrepancies \in Nat
        /\ reconcile.missing = 0 <=> NoneMissing(own, failed, n - 1)
        /\ reconcile.discrepancies = 0 <=> NoneApart(own, failed, n - 1)
        /\ reconcile = [f \in RunFields |-> reconcile[f]]
    <2>1. IsLocalLog(own) /\ n \in DOMAIN own
      BY DEF RunIsRight, FetchError
    <2>2. n \in 1 .. Len(own)
      BY <2>1, LogShape
    <2>3. QED
      BY <2>1, <2>2 DEF RunIsRight
  <1>2. /\ reconcile' = [f \in RunFields |-> reconcile'[f]]
        /\ reconcile'.stage = "run"
        /\ reconcile'.log = own
        /\ reconcile'.next = n + 1
        /\ reconcile'.failed = failed \cup {n}
        /\ reconcile'.missing = reconcile.missing + 1
        /\ reconcile'.discrepancies = reconcile.discrepancies
    BY <1>1 DEF RunFields, FetchError
  <1>3. PICK l, f, m : l = own /\ f = failed \cup {n} /\ m = n
    OBVIOUS
  <1>4. /\ ~NoneMissing(l, f, m)
        /\ NoneApart(l, f, m) <=> reconcile.discrepancies = 0
    BY <1>1, <1>3, OneMoreEntry
  <1>5. reconcile'.next - 1 = m /\ reconcile'.next \in 1 .. Len(l) + 1 /\ f \subseteq 1 .. m
    <2>1. Len(l) \in Nat
      BY <1>1, <1>3, LogShape
    <2>2. QED
      BY <1>1, <1>2, <1>3, <2>1, SMTT(30)
  <1>6. table' = table
    BY DEF receiptsVars
  <1>7. /\ IsLocalLog(l)'
        /\ NoneMissing(l, f, m)' <=> NoneMissing(l, f, m)
        /\ NoneApart(l, f, m)' <=> NoneApart(l, f, m)
    BY <1>1, <1>3, <1>6 DEF IsLocalLog, NoneMissing, NoneApart, Known, Apart
  <1>8. reconcile'.missing \in Nat /\ reconcile'.missing # 0
    BY <1>1, <1>2
  <1>9. QED
    BY <1>1, <1>2, <1>3, <1>4, <1>5, <1>7, <1>8 DEF RunIsRight

(* The local logs the command may be given.                                *)
LEMMA LocalLogsAreLogs ==
    ASSUME ReceiptsInv, NEW own \in LocalLogs
    PROVE  IsLocalLog(own)
  <1> DEFINE ids == {r.id : r \in issued} \cup {UnknownID}
             entries == {[id |-> id, usage |-> u] : id \in ids, u \in LocalUsages}
  <1>1. PICK n \in 0 .. MaxEntries : own \in [1 .. n -> entries]
    BY DEF LocalLogs
  <1>2. \A r \in issued : r.id \in DOMAIN table /\ r.id \in Nat
    <2>1. DOMAIN table = 1 .. Len(origin) /\ Len(origin) \in Nat
      BY TableShape DEF ReceiptsInv
    <2>2. \A i \in DOMAIN table : table[i].id = i
      BY TableShape, BuiltFields DEF ReceiptsInv
    <2>3. QED
      BY <2>1, <2>2 DEF ReceiptsInv, IssuedAreRows
  <1>3. \A e \in entries : /\ e \in [id : Nat, usage : [input : Nat, output : Nat]]
                           /\ Known(e) \/ e.id = UnknownID
    BY <1>2, VerifierAssumption DEF Known, UnknownID
  <1> HIDE DEF entries
  <1>4. n \in Nat
    BY VerifierAssumption
  <1>5. own \in [1 .. n -> [id : Nat, usage : [input : Nat, output : Nat]]]
    BY <1>1, <1>3
  <1>6. own \in Seq([id : Nat, usage : [input : Nat, output : Nat]]) /\ Len(own) = n
    <2>1. \A S : own \in [1 .. n -> S] => own \in Seq(S) /\ Len(own) = n
      BY <1>4
    <2>2. QED
      BY <1>5, <2>1, Zenon
  <1>7. QED
    BY <1>1, <1>3, <1>6 DEF IsLocalLog

(* The command's steps.                                                    *)
LEMMA VerifierKeepsReconcile ==
    ASSUME ReceiptsInv, ReconcileInv, VerifierNext, UNCHANGED receiptsVars
    PROVE  ReconcileInv'
  <1>1. ASSUME NEW own \in LocalLogs, RunReconcile(own) PROVE ReconcileInv'
    <2>1. reconcile' = [stage |-> "run", log |-> own, next |-> 1,
                        missing |-> 0, discrepancies |-> 0, failed |-> {}]
      BY <1>1 DEF RunReconcile
    <2>2. reconcile' = [f \in RunFields |-> reconcile'[f]]
      BY <2>1 DEF RunFields
    <2>3. /\ reconcile'.stage = "run" /\ reconcile'.log = own /\ reconcile'.next = 1
          /\ reconcile'.missing = 0 /\ reconcile'.discrepancies = 0 /\ reconcile'.failed = {}
      BY <2>1
    <2>4. IsLocalLog(own) /\ table' = table
      BY LocalLogsAreLogs DEF receiptsVars
    <2>5. IsLocalLog(own)' /\ Len(own) \in Nat
      BY <2>4 DEF IsLocalLog, Known
    <2>6. NoneMissing(own, {}, 0)' /\ NoneApart(own, {}, 0)'
      BY DEF NoneMissing, NoneApart
    <2>7. 1 - 1 = 0 /\ 1 \in 1 .. Len(own) + 1
      BY <2>5
    <2>8. RunIsRight'
      BY <2>2, <2>3, <2>5, <2>6, <2>7 DEF RunIsRight
    <2>9. QED
      BY <2>3, <2>8 DEF ReconcileInv
  <1>2. ASSUME reconcile.stage = "run" PROVE RunIsRight
    BY <1>2 DEF ReconcileInv, NotReconciling
  <1>3. CASE Compare
    BY <1>2, <1>3, CompareKeepsRun DEF Compare, ReconcileInv
  <1>4. CASE FetchError
    BY <1>2, <1>4, FetchErrorKeepsRun DEF FetchError, ReconcileInv
  <1>5. CASE Summary
    <2>1. /\ reconcile.next = Len(reconcile.log) + 1
          /\ reconcile' = [stage |-> "exit", log |-> reconcile.log,
                           failed |-> reconcile.failed,
                           ok |-> reconcile.discrepancies = 0 /\ reconcile.missing = 0]
          /\ table' = table
      BY <1>5 DEF Summary, receiptsVars
    <2>2. PICK l, f, n : l = reconcile.log /\ f = reconcile.failed /\ n = Len(reconcile.log)
      OBVIOUS
    <2>3. IsLocalLog(l) /\ n = reconcile.next - 1
      BY <1>2, <1>5, <2>1, <2>2 DEF Summary, RunIsRight, IsLocalLog
    <2>4. /\ reconcile.missing = 0 <=> NoneMissing(l, f, n)
          /\ reconcile.discrepancies = 0 <=> NoneApart(l, f, n)
      BY <1>2, <1>5, <2>2, <2>3 DEF Summary, RunIsRight
    <2>5. /\ IsLocalLog(l)'
          /\ NoneMissing(l, f, n)' <=> NoneMissing(l, f, n)
          /\ NoneApart(l, f, n)' <=> NoneApart(l, f, n)
      BY <2>1, <2>3 DEF IsLocalLog, NoneMissing, NoneApart, Known, Apart
    <2>6. reconcile'.stage = "exit" /\ reconcile'.log = l /\ reconcile'.failed = f
      BY <2>1, <2>2
    <2>7. reconcile'.ok <=> reconcile.discrepancies = 0 /\ reconcile.missing = 0
      BY <2>1
    <2>8. ExitIsRight'
      BY <2>2, <2>4, <2>5, <2>6, <2>7 DEF ExitIsRight
    <2>9. QED
      BY <2>6, <2>8 DEF ReconcileInv
  <1>6. CASE ReconcileDone
    BY <1>6 DEF ReconcileDone, ReconcileInv
  <1>7. QED
    BY <1>1, <1>3, <1>4, <1>5, <1>6 DEF VerifierNext

(* What does not exceed the threshold is within it, as a distance, while   *)
(* it is below 100 percent.                                                *)
LEMMA NotExceedingIsWithin ==
    ASSUME Threshold < 100, NEW mine \in Nat, NEW theirs \in Int, ~Exceeds(mine, theirs)
    PROVE  100 * theirs \in (100 - Threshold) * mine .. (100 + Threshold) * mine
  <1>1. PICK t \in Nat : t = Threshold * mine /\ (mine > 0 => t < 100 * mine)
                          /\ (mine = 0 => t = 0)
    <2>1. Threshold \in Nat
      BY VerifierAssumption
    <2>2. Threshold * mine \in Nat /\ (mine = 0 => Threshold * mine = 0)
      BY <2>1
    <2>3. (100 - Threshold) * mine = 100 * mine - Threshold * mine
      BY <2>1
    <2>4. mine > 0 => (100 - Threshold) * mine > 0
      BY <2>1
    <2>5. QED
      BY <2>2, <2>3, <2>4
  <1>2. /\ (100 - Threshold) * mine = 100 * mine - t
        /\ (100 + Threshold) * mine = 100 * mine + t
    BY <1>1, VerifierAssumption
  <1>3. 100 > Threshold
    BY VerifierAssumption
  <1>4. 100 * theirs \in (100 - Threshold) * mine .. (100 + Threshold) * mine <=>
           100 * mine - t <= 100 * theirs /\ 100 * theirs <= 100 * mine + t
    BY <1>1, <1>2
  <1>5. IF mine = 0 THEN theirs = 0
        ELSE (IF mine > theirs THEN mine - theirs ELSE theirs - mine) * 100 <= t
    BY <1>1, <1>3 DEF Exceeds
  <1>6. QED
    BY <1>1, <1>4, <1>5

(* The counts of a row: what its adapter found in the body.                *)
LEMMA RowCounts ==
    ASSUME ReceiptsInv, NEW id \in DOMAIN table
    PROVE  /\ table[id].inputTokens \in Int
           /\ table[id].outputTokens \in Int
           /\ IF AdapterFormat[origin[id].provider] = origin[id].body.format
              THEN /\ table[id].inputTokens = origin[id].body.input
                   /\ table[id].outputTokens = origin[id].body.output
              ELSE table[id].inputTokens = 0 /\ table[id].outputTokens = 0
  <1> DEFINE req == origin[id]
             usage == ParseUsage(req.provider, req.body)
  <1>1. /\ table[id] = BuildReceipt(id, req) /\ req \in Requests /\ Parses(req)
    BY TableShape DEF ReceiptsInv, TableIsOfOrigin
  <1>2. table[id].inputTokens = usage.input /\ table[id].outputTokens = usage.output
    BY <1>1, BuiltFields
  <1>3. /\ req.body.format \in {"messages", "completion"}
        /\ AdapterFormat[req.provider] \in {"messages", "completion"}
    BY <1>1 DEF Parses, AdapterFormat
  <1>4. req.body.input \in Int /\ req.body.output \in Int
    BY <1>1, <1>3, ReceiptsAssumption
  <1>5. usage = IF AdapterFormat[req.provider] = req.body.format
                THEN [input |-> req.body.input, output |-> req.body.output]
                ELSE [input |-> 0, output |-> 0]
    BY <1>3 DEF ParseUsage, ParseMessages, ParseCompletion, NoUsage
  <1>6. QED
    BY <1>2, <1>4, <1>5

(* A client that counted right disagrees with a receipt exactly when the   *)
(* receipt was billed through the wrong adapter for more than nothing.     *)
LEMMA CountedRightApart ==
    ASSUME Threshold < 100, ReceiptsInv, NEW e, Known(e), CountedRight(e),
           e.usage \in [input : Nat, output : Nat]
    PROVE  ~Apart(e) <=>
             \/ AdapterFormat[origin[e.id].provider] = origin[e.id].body.format
             \/ e.usage = [input |-> 0, output |-> 0]
  <1> DEFINE a == e.usage.input
             b == e.usage.output
  <1>1. a \in Nat /\ b \in Nat
    OBVIOUS
  <1>2. a = origin[e.id].body.input /\ b = origin[e.id].body.output
    BY DEF CountedRight
  <1>3. \A n \in Nat : ~Exceeds(n, n)
    <2> TAKE n \in Nat
    <2>1. Threshold * n \in Nat
      BY VerifierAssumption
    <2>2. RoundsUp /\ n # 0 => Threshold * n # 0
      BY VerifierAssumption
    <2>3. QED
      BY <2>1, <2>2 DEF Exceeds
  <1>4. \A n \in Nat : Exceeds(n, 0) <=> n # 0
    <2> TAKE n \in Nat
    <2>1. n # 0 => 100 * n > Threshold * n
      <3>1. (100 - Threshold) * n = 100 * n - Threshold * n
        BY VerifierAssumption
      <3>2. n # 0 => (100 - Threshold) * n > 0
        BY VerifierAssumption
      <3>3. Threshold * n \in Nat
        BY VerifierAssumption
      <3>4. QED
        BY <3>1, <3>2, <3>3
    <2>2. QED
      BY <2>1 DEF Exceeds
  <1>5. e.usage = [input |-> 0, output |-> 0] <=> a = 0 /\ b = 0
    OBVIOUS
  <1> HIDE DEF a, b
  <1>6. CASE AdapterFormat[origin[e.id].provider] = origin[e.id].body.format
    <2>1. table[e.id].inputTokens = a /\ table[e.id].outputTokens = b
      BY <1>2, <1>6, RowCounts DEF Known
    <2>2. QED
      BY <1>1, <1>3, <1>6, <2>1 DEF Apart, a, b
  <1>7. CASE AdapterFormat[origin[e.id].provider] # origin[e.id].body.format
    <2>1. table[e.id].inputTokens = 0 /\ table[e.id].outputTokens = 0
      BY <1>7, RowCounts DEF Known
    <2>2. QED
      BY <1>1, <1>4, <1>5, <1>7, <2>1 DEF Apart, a, b
  <1>8. QED
    BY <1>6, <1>7

(* The inductive invariant of reconcile beside a server that moves on.     *)
THEOREM ReconcileInvariant == ReconcileSpec => [](ReceiptsInv /\ ReconcileInv)
  <1>1. ReceiptsInit /\ VerifierInit => ReceiptsInv /\ ReconcileInv
    BY DEF ReceiptsInit, ReceiptsInv, TableIsOfOrigin, IssuedAreRows, HandlersAreApart,
           HandlerStates, PaidOnce, AtWork, Paying, Paid, Idle, VerifierInit, ReconcileInv
  <1>2. ASSUME ReceiptsInv /\ ReconcileInv,
               [\/ ReceiptsNext /\ UNCHANGED verifierVars
                \/ VerifierNext /\ UNCHANGED receiptsVars]_<<receiptsVars, verifierVars>>
        PROVE  (ReceiptsInv /\ ReconcileInv)'
    <2>1. CASE [ReceiptsNext]_receiptsVars /\ UNCHANGED verifierVars
      BY <1>2, <2>1, ReceiptsInvStep, ServerKeepsReconcile
    <2>2. CASE VerifierNext /\ UNCHANGED receiptsVars
      <3>1. ReceiptsInv'
        BY <1>2, <2>2, ReceiptsInvStep
      <3>2. QED
        BY <1>2, <2>2, <3>1, VerifierKeepsReconcile
    <2>3. QED
      BY <1>2, <2>1, <2>2
  <1>3. QED
    BY <1>1, <1>2, PTL DEF ReconcileSpec

(* reconcile is right about the whole log it was given, for any threshold  *)
(* under 100 percent (the default is 1), any log, any lost GETs and        *)
(* whatever is ingested meanwhile.                                         *)
THEOREM ReconcileSucceedsRightly ==
    ASSUME Threshold < 100
    PROVE  ReconcileSpec => []ReconcileIsRight
  <1>1. ASSUME ReceiptsInv, ReconcileInv PROVE ReconcileIsRight
    <2> SUFFICES ASSUME reconcile.stage = "exit" PROVE ReconcileIsRight
      BY DEF ReconcileIsRight
    <2> DEFINE own == reconcile.log
               entries == {own[i] : i \in DOMAIN own}
               answered == reconcile.failed = {} /\ \A e \in entries : e.id \in DOMAIN table
               Within(mine, theirs) ==
                   100 * theirs \in (100 - Threshold) * mine .. (100 + Threshold) * mine
    <2>1. /\ IsLocalLog(own)
          /\ reconcile.ok <=> /\ NoneMissing(own, reconcile.failed, Len(own))
                              /\ NoneApart(own, reconcile.failed, Len(own))
      BY <1>1 DEF ReconcileInv, NotReconciling, ExitIsRight
    <2>2. DOMAIN own = 1 .. Len(own) /\ Len(own) \in Nat
      BY <2>1, LogShape
    <2>3. \A e \in entries : e.usage \in [input : Nat, output : Nat]
      <3>1. \A S : own \in Seq(S) => \A i \in 1 .. Len(own) : own[i] \in S
        OBVIOUS
      <3>2. \A i \in 1 .. Len(own) : own[i] \in [id : Nat, usage : [input : Nat, output : Nat]]
        BY <2>1, <3>1, Zenon DEF IsLocalLog
      <3>3. QED
        BY <2>2, <3>2
    <2>4. NoneMissing(own, reconcile.failed, Len(own)) <=> answered
      BY <2>2 DEF NoneMissing, Known
    <2>5. ASSUME answered
          PROVE  NoneApart(own, reconcile.failed, Len(own)) <=> \A e \in entries : ~Apart(e)
      BY <2>2, <2>5 DEF NoneApart, Known
    <2>6. reconcile.ok <=> answered /\ \A e \in entries : ~Apart(e)
      BY <2>1, <2>4, <2>5
    <2> HIDE DEF entries
    <2>7. ASSUME answered, NEW e \in entries, ~Apart(e)
          PROVE  /\ Within(e.usage.input, table[e.id].inputTokens)
                 /\ Within(e.usage.output, table[e.id].outputTokens)
      <3>1. e.usage.input \in Nat /\ e.usage.output \in Nat
        BY <2>3
      <3>2. table[e.id].inputTokens \in Int /\ table[e.id].outputTokens \in Int
        BY <1>1, <2>7, RowCounts
      <3>3. QED
        BY <1>1, <2>7, <3>1, <3>2, NotExceedingIsWithin DEF Apart
    <2>8. ASSUME answered, \A e \in entries : CountedRight(e)
          PROVE  reconcile.ok <=>
                   \A e \in entries :
                      \/ AdapterFormat[origin[e.id].provider] = origin[e.id].body.format
                      \/ e.usage = [input |-> 0, output |-> 0]
      BY <1>1, <2>3, <2>6, <2>8, CountedRightApart DEF Known
    <2>9. QED
      BY <2>6, <2>7, <2>8 DEF ReconcileIsRight, entries
  <1>2. QED
    BY <1>1, ReconcileInvariant, PTL

-----------------------------------------------------------------------------
(* The server process.                                                     *)

Busy(c) == conn[c].stage # "free"

ServerTypeOK ==
    /\ requested \in Nat
    /\ conn \in [Connections -> [stage : {"free", "accepted", "201", "500"}, request : Nat]]
    /\ stored \subseteq 1 .. requested
    /\ answers \subseteq (1 .. requested) \X {"201", "500"}

\* A request is on one connection, and no longer once it is answered.
RequestsAreDistinct ==
    /\ \A c \in Connections : Busy(c) => conn[c].request \in 1 .. requested
    /\ \A c, d \in Connections :
          c # d /\ Busy(c) /\ Busy(d) => conn[c].request # conn[d].request
    /\ \A c \in Connections, a \in answers : Busy(c) => a[1] # conn[c].request

\* What a handler is about to answer is so.
StageIsTrue ==
    \A c \in Connections :
        Busy(c) => (conn[c].stage = "201" <=> conn[c].request \in stored)

ServerInv ==
    /\ ServerTypeOK
    /\ RequestsAreDistinct
    /\ StageIsTrue
    /\ AnswersAreTruthful

(* A new request has a number of its own.                                  *)
LEMMA AcceptKeepsInv ==
    ASSUME ServerInv, NEW c \in Connections, Accept(c)
    PROVE  ServerInv'
  <1>1. /\ requested' = requested + 1
        /\ conn' = [conn EXCEPT ![c] = [stage |-> "accepted", request |-> requested + 1]]
        /\ UNCHANGED <<stored, answers>>
    BY DEF Accept
  <1>2. /\ requested \in Nat
        /\ stored \subseteq 1 .. requested
        /\ \A a \in answers : a[1] \in 1 .. requested
    BY DEF ServerInv, ServerTypeOK
  <1>3. /\ conn'[c] = [stage |-> "accepted", request |-> requested + 1]
        /\ \A d \in Connections : d # c => conn'[d] = conn[d]
    BY <1>1 DEF ServerInv, ServerTypeOK
  <1>4. ServerTypeOK'
    BY <1>1, <1>2 DEF ServerInv, ServerTypeOK
  <1>5. RequestsAreDistinct'
    BY <1>1, <1>2, <1>3 DEF ServerInv, RequestsAreDistinct, Busy
  <1>6. StageIsTrue'
    BY <1>1, <1>2, <1>3 DEF ServerInv, StageIsTrue, Busy
  <1>7. AnswersAreTruthful'
    BY <1>1 DEF ServerInv, AnswersAreTruthful
  <1>8. QED
    BY <1>4, <1>5, <1>6, <1>7 DEF ServerInv

(* The row is written, or it is not, and the handler knows which.          *)
LEMMA StoreReceiptKeepsInv ==
    ASSUME ServerInv, NEW c \in Connections, StoreReceipt(c)
    PROVE  ServerInv'
  <1>1. /\ UNCHANGED <<requested, answers>>
        /\ conn[c].stage = "accepted" /\ Busy(c)
        /\ \/ /\ stored' = stored \cup {conn[c].request}
              /\ conn' = [conn EXCEPT ![c].stage = "201"]
           \/ /\ stored' = stored
              /\ conn' = [conn EXCEPT ![c].stage = "500"]
    BY DEF StoreReceipt, Busy
  <1>2. conn[c].request \in 1 .. requested /\ conn[c].request \notin stored
    BY <1>1 DEF ServerInv, RequestsAreDistinct, StageIsTrue
  <1>3. /\ conn'[c].request = conn[c].request
        /\ \A d \in Connections : d # c => conn'[d] = conn[d]
        /\ \/ conn'[c].stage = "201" /\ stored' = stored \cup {conn[c].request}
           \/ conn'[c].stage = "500" /\ stored' = stored
        /\ conn' \in [Connections -> [stage : {"free", "accepted", "201", "500"}, request : Nat]]
    BY <1>1 DEF ServerInv, ServerTypeOK
  <1>4. ServerTypeOK'
    BY <1>1, <1>2, <1>3 DEF ServerInv, ServerTypeOK
  <1>5. RequestsAreDistinct'
    BY <1>1, <1>3 DEF ServerInv, RequestsAreDistinct, Busy
  <1>6. StageIsTrue'
    BY <1>1, <1>2, <1>3 DEF ServerInv, RequestsAreDistinct, StageIsTrue, Busy
  <1>7. AnswersAreTruthful'
    BY <1>1, <1>3 DEF ServerInv, RequestsAreDistinct, AnswersAreTruthful
  <1>8. QED
    BY <1>4, <1>5, <1>6, <1>7 DEF ServerInv

(* The answer that is sent is the one the handler had settled on.          *)
LEMMA RespondKeepsInv ==
    ASSUME ServerInv, NEW c \in Connections, Respond(c)
    PROVE  ServerInv'
  <1>1. /\ UNCHANGED <<requested, stored>>
        /\ conn[c].stage \in {"201", "500"} /\ Busy(c)
        /\ answers' = answers \cup {<<conn[c].request, conn[c].stage>>}
        /\ conn' = [conn EXCEPT ![c] = Free]
    BY DEF Respond, Busy
  <1>2. conn[c].request \in 1 .. requested
    BY <1>1 DEF ServerInv, RequestsAreDistinct
  <1>3. /\ conn'[c].stage = "free"
        /\ \A d \in Connections : d # c => conn'[d] = conn[d]
        /\ conn' \in [Connections -> [stage : {"free", "accepted", "201", "500"}, request : Nat]]
    BY <1>1 DEF ServerInv, ServerTypeOK, Free
  <1>4. ServerTypeOK'
    BY <1>1, <1>2, <1>3 DEF ServerInv, ServerTypeOK
  <1>5. RequestsAreDistinct'
    BY <1>1, <1>3 DEF ServerInv, RequestsAreDistinct, Busy
  <1>6. StageIsTrue'
    BY <1>1, <1>3 DEF ServerInv, StageIsTrue, Busy
  <1>7. AnswersAreTruthful'
    BY <1>1 DEF ServerInv, StageIsTrue, AnswersAreTruthful
  <1>8. QED
    BY <1>4, <1>5, <1>6, <1>7 DEF ServerInv

(* The exit of the process drops the requests that are under way.          *)
LEMMA ExitKeepsInv ==
    ASSUME ServerInv, conn' = [c \in Connections |-> Free],
           UNCHANGED <<requested, stored, answers>>
    PROVE  ServerInv'
  <1>1. \A c \in Connections : conn'[c].stage = "free"
    BY DEF Free
  <1>2. ServerTypeOK'
    BY DEF ServerInv, ServerTypeOK, Free
  <1>3. QED
    BY <1>1, <1>2 DEF ServerInv, RequestsAreDistinct, StageIsTrue, AnswersAreTruthful, Busy

(* The inductive invariant of the server process.                          *)
THEOREM ServerInvariant == ServerSpec => []ServerInv
  <1>1. ServerInit => ServerInv
    BY DEF ServerInit, ServerInv, ServerTypeOK, RequestsAreDistinct, StageIsTrue,
           AnswersAreTruthful, Busy, Free
  <1>2. ServerInv /\ [ServerNext]_serverVars => ServerInv'
    <2> SUFFICES ASSUME ServerInv, [ServerNext]_serverVars PROVE ServerInv'
      OBVIOUS
    <2>1. CASE Exit \/ ListenFails
      BY <2>1, ExitKeepsInv DEF Exit, ListenFails
    <2>2. CASE UNCHANGED <<conn, requested, stored, answers>>
      BY <2>2 DEF ServerInv, ServerTypeOK, RequestsAreDistinct, StageIsTrue,
                  AnswersAreTruthful, Busy
    <2>3. CASE \/ Start \/ BatcherTick \/ BuildReturns \/ BatcherDone \/ Cancel
               \/ Shutdown \/ GraceEnds \/ ListenReturns \/ Close \/ UNCHANGED serverVars
      BY <2>2, <2>3 DEF Start, BatcherTick, BuildReturns, BatcherDone, Cancel, Shutdown,
                        GraceEnds, ListenReturns, Close, serverVars
    <2>4. QED
      BY <2>1, <2>3, AcceptKeepsInv, StoreReceiptKeepsInv, RespondKeepsInv DEF ServerNext
  <1>3. QED
    BY <1>1, <1>2, PTL DEF ServerSpec

(* However a shutdown, the closing of the store, a failed listener and a   *)
(* restart interleave with the handlers, a receipt answered with 201 is in *)
(* the table and one answered with 500 is not.                             *)
THEOREM ServerAnswersTruthfully == ServerSpec => []AnswersAreTruthful
  <1>1. ServerInv => AnswersAreTruthful
    BY DEF ServerInv
  <1>2. QED
    BY <1>1, ServerInvariant, PTL

-----------------------------------------------------------------------------
(* The migration command.                                                  *)

MigrateTypeOK ==
    /\ source \in Nat
    /\ dst \in Seq(Nat)
    /\ log \in Seq(Nat)
    /\ pc \in {"read", "insert", "log", "stopped", "done"}
    /\ total \in Nat
    /\ total <= source
    /\ startID \in Nat \ {0}
    /\ queue \in Seq(Nat)
    /\ interrupted \in Nat

\* There is a receipt at hand exactly between the read and the last log entry.
QueueInUse == (pc \in {"insert", "log"}) <=> (queue # <<>>)

\* The row of the receipt at hand is not in the log yet.
RowIsAhead == pc = "log" => Len(log) < Len(dst)

\* From an entry on, the log holds the receipts 1 .. n in order.
Holds(first, n) ==
    /\ first + n <= Len(log)
    /\ \A i \in 1 .. n : log[first + i] = i

(* The run has written the receipts 1 .. n, which are the last n entries   *)
(* of the log, the queue goes on from there, and the next batch goes on    *)
(* from the queue, unless a short batch has brought the run to the end of  *)
(* what it had counted.                                                    *)
InStep(first, n) ==
    /\ Holds(first, n)
    /\ first + n = Len(log)
    /\ \A j \in 1 .. Len(queue) : queue[j] = n + j
    /\ n + Len(queue) = startID - 1 \/ total <= n + Len(queue)

RunIsInOrder ==
    pc # "stopped" =>
        \/ \E first \in Nat : Holds(first, total)
        \/ pc # "done" /\ \E first, n \in Nat : InStep(first, n)

MigrateInv ==
    /\ MigrateTypeOK
    /\ QueueInUse
    /\ RowIsAhead
    /\ RowsFollowLog
    /\ RunIsInOrder

(* What is in the log stays where it is.                                   *)
LEMMA HoldsStays ==
    ASSUME log \in Seq(Nat), NEW e \in Nat, log' = Append(log, e) \/ log' = log,
           NEW first \in Nat, NEW n \in Nat, Holds(first, n)
    PROVE  Holds(first, n)'
  <1>1. /\ Len(log) \in Nat /\ Len(log) <= Len(log') /\ Len(log') \in Nat
        /\ \A i \in 1 .. Len(log) : log'[i] = log[i]
    OBVIOUS
  <1>2. \A i \in 1 .. n : first + i \in 1 .. Len(log)
    BY <1>1 DEF Holds
  <1>3. \A i \in 1 .. n : log'[first + i] = i
    BY <1>1, <1>2 DEF Holds
  <1>4. first + n <= Len(log')
    BY <1>1 DEF Holds
  <1>5. QED
    BY <1>3, <1>4 DEF Holds

(* What a run has copied it has copied.                                    *)
LEMMA DoneStays ==
    ASSUME MigrateInv, log' = log \/ \E e \in Nat : log' = Append(log, e), total' = total,
           NEW first \in Nat, Holds(first, total)
    PROVE  RunIsInOrder'
  <1>1. total \in Nat /\ log \in Seq(Nat)
    BY DEF MigrateInv, MigrateTypeOK
  <1>2. PICK e \in Nat : log' = Append(log, e) \/ log' = log
    OBVIOUS
  <1>3. Holds(first, total)'
    BY <1>1, <1>2, HoldsStays DEF Holds
  <1>4. QED
    BY <1>3 DEF RunIsInOrder

(* A range of row ids, cut at the end of the table.                        *)
LEMMA RangeRead ==
    ASSUME source \in Nat, NEW a \in Nat \ {0}, NEW b \in Nat, a <= b
    PROVE  LET q == GetReceiptsByRange(a, b)
               n == Len(q)
           IN  /\ q \in Seq(Nat)
               /\ \A j \in 1 .. n : q[j] = (a - 1) + j
               /\ n = b - a + 1 \/ (a - 1) + n >= source
               /\ q = <<>> => a > source
  <1> DEFINE end == IF b < source THEN b ELSE source
             n == IF a <= end THEN end - a + 1 ELSE 0
             q == [i \in 1 .. n |-> a + i - 1]
  <1>1. GetReceiptsByRange(a, b) = q
    BY DEF GetReceiptsByRange
  <1>2. n \in Nat /\ (n = b - a + 1 \/ (a - 1) + n >= source) /\ (n = 0 => a > source)
    OBVIOUS
  <1>3. \A i \in 1 .. n : a + i - 1 \in Nat /\ a + i - 1 = (a - 1) + i
    BY <1>2
  <1> HIDE DEF n
  <1>4. q \in Seq(Nat) /\ Len(q) = n
    BY <1>2, <1>3
  <1>5. \A j \in 1 .. n : q[j] = (a - 1) + j
    BY <1>3
  <1>6. q = <<>> => n = 0
    BY <1>4
  <1>7. QED
    BY <1>1, <1>2, <1>4, <1>5, <1>6

(* A run starts from the beginning, wherever the log ends.                 *)
LEMMA StartRunKeepsInv ==
    ASSUME MigrateInv, StartRun
    PROVE  MigrateInv'
  <1>1. MigrateTypeOK' /\ QueueInUse' /\ RowIsAhead' /\ RowsFollowLog'
    BY DEF StartRun, MigrateInv, MigrateTypeOK, QueueInUse, RowIsAhead, RowsFollowLog
  <1>2. Len(log) \in Nat
    BY DEF MigrateInv, MigrateTypeOK
  <1>3. InStep(Len(log), 0)'
    BY <1>2 DEF StartRun, InStep, Holds
  <1>4. RunIsInOrder'
    BY <1>2, <1>3 DEF StartRun, RunIsInOrder
  <1>5. QED
    BY <1>1, <1>4 DEF MigrateInv

(* A batch is read: it goes on where the log ends, or the run has already  *)
(* copied all that it had counted.                                         *)
LEMMA ReadBatchKeepsInv ==
    ASSUME MigrateInv, ReadBatch
    PROVE  MigrateInv'
  <1> USE MigrateAssumption
  <1>1. /\ pc = "read"
        /\ queue' = GetReceiptsByRange(startID, startID + BatchSize - 1)
        /\ UNCHANGED <<source, dst, log, total, interrupted>>
        /\ \/ queue' = <<>> /\ pc' = "done" /\ startID' = startID
           \/ queue' # <<>> /\ pc' = "insert" /\ startID' = startID + BatchSize
    BY DEF ReadBatch, EndID
  <1>2. /\ source \in Nat /\ startID \in Nat \ {0} /\ total \in Nat /\ total <= source
        /\ startID + BatchSize - 1 \in Nat /\ startID <= startID + BatchSize - 1
    BY DEF MigrateInv, MigrateTypeOK
  <1>3. /\ queue' \in Seq(Nat)
        /\ \A j \in 1 .. Len(queue') : queue'[j] = (startID - 1) + j
        /\ Len(queue') = BatchSize \/ (startID - 1) + Len(queue') >= source
        /\ queue' = <<>> => startID > source
    <2>1. (startID + BatchSize - 1) - startID + 1 = BatchSize
      BY <1>2
    <2>2. QED
      BY <1>1, <1>2, <2>1, RangeRead
  <1>4. MigrateTypeOK' /\ QueueInUse' /\ RowIsAhead' /\ RowsFollowLog'
    BY <1>1, <1>2, <1>3 DEF MigrateInv, MigrateTypeOK, QueueInUse, RowIsAhead, RowsFollowLog
  <1>5. ASSUME NEW first \in Nat, Holds(first, total)
        PROVE  RunIsInOrder'
    BY <1>1, <1>5, DoneStays
  <1>6. ASSUME NEW first \in Nat, NEW n \in Nat, InStep(first, n)
        PROVE  RunIsInOrder'
    <2>1. queue = <<>> /\ Len(queue) = 0
      BY <1>1 DEF MigrateInv, QueueInUse
    <2>2. CASE total <= n
      <3>1. Holds(first, total)
        BY <1>2, <1>6, <2>2 DEF InStep, Holds, MigrateInv, MigrateTypeOK
      <3>2. QED
        BY <1>5, <3>1
    <2>3. CASE n = startID - 1
      <3>1. CASE queue' = <<>>
        BY <1>2, <1>3, <2>2, <2>3, <3>1
      <3>2. CASE queue' # <<>>
        <4>1. Holds(first, n)' /\ (first + n = Len(log))'
          BY <1>1, <1>6 DEF InStep, Holds
        <4>2. \A j \in 1 .. Len(queue') : queue'[j] = n + j
          BY <1>3, <2>3
        <4>3. n + Len(queue') = startID' - 1 \/ total' <= n + Len(queue')
          BY <1>1, <1>2, <1>3, <2>3, <3>2
        <4>4. InStep(first, n)'
          BY <4>1, <4>2, <4>3 DEF InStep
        <4>5. QED
          BY <1>1, <3>2, <4>4 DEF RunIsInOrder
      <3>3. QED
        BY <3>1, <3>2
    <2>4. QED
      BY <1>6, <2>1, <2>2, <2>3 DEF InStep
  <1>7. RunIsInOrder'
    BY <1>1, <1>5, <1>6 DEF MigrateInv, RunIsInOrder
  <1>8. QED
    BY <1>4, <1>7 DEF MigrateInv

(* The entry of the receipt at hand is written, right after its            *)
(* predecessor.                                                            *)
LEMMA AppendEntryKeepsInv ==
    ASSUME MigrateInv, AppendEntry
    PROVE  MigrateInv'
  <1>1. /\ pc = "log"
        /\ log' = Append(log, Head(queue))
        /\ queue' = Tail(queue)
        /\ pc' = IF queue' = <<>> THEN "read" ELSE "insert"
        /\ UNCHANGED <<source, dst, total, startID, interrupted>>
    BY DEF AppendEntry
  <1>2. /\ queue \in Seq(Nat) /\ queue # <<>> /\ log \in Seq(Nat)
        /\ Len(log) < Len(dst)
    BY <1>1 DEF MigrateInv, MigrateTypeOK, QueueInUse, RowIsAhead
  <1>3. /\ Head(queue) \in Nat
        /\ Head(queue) = queue[1]
        /\ queue' \in Seq(Nat)
        /\ Len(queue) \in Nat \ {0}
        /\ Len(queue') = Len(queue) - 1
        /\ \A j \in 1 .. Len(queue') : queue'[j] = queue[j + 1]
        /\ queue' # <<>> <=> Len(queue') # 0
    <2>1. /\ Head(queue) \in Nat
          /\ Tail(queue) \in Seq(Nat)
          /\ Len(Tail(queue)) = Len(queue) - 1
          /\ \A j \in 1 .. Len(Tail(queue)) : Tail(queue)[j] = queue[j + 1]
      BY <1>2, HeadTailProperties
    <2>2. Len(queue) \in Nat \ {0} /\ Head(queue) = queue[1]
      BY <1>2
    <2>3. Tail(queue) # <<>> <=> Len(Tail(queue)) # 0
      BY <2>1, EmptySeq
    <2>4. QED
      BY <1>1, <2>1, <2>2, <2>3
  <1>4. /\ log' \in Seq(Nat)
        /\ Len(log') = Len(log) + 1
        /\ \A i \in 1 .. Len(log) : log'[i] = log[i]
        /\ log'[Len(log) + 1] = Head(queue)
    BY <1>1, <1>2, <1>3
  <1>5. MigrateTypeOK' /\ QueueInUse' /\ RowIsAhead'
    BY <1>1, <1>2, <1>3, <1>4 DEF MigrateInv, MigrateTypeOK, QueueInUse, RowIsAhead
  <1>6. RowsFollowLog'
    BY <1>1, <1>2, <1>4 DEF MigrateInv, MigrateTypeOK, RowsFollowLog
  <1>7. ASSUME NEW first \in Nat, Holds(first, total)
        PROVE  RunIsInOrder'
    BY <1>1, <1>3, <1>7, DoneStays
  <1>8. ASSUME NEW first \in Nat, NEW n \in Nat, InStep(first, n)
        PROVE  RunIsInOrder'
    <2>1. Head(queue) = n + 1
      BY <1>3, <1>8 DEF InStep
    <2>2. Holds(first, n + 1)'
      <3>1. first + n = Len(log) /\ \A i \in 1 .. n : log[first + i] = i
        BY <1>8 DEF InStep, Holds
      <3>2. \A i \in 1 .. n : first + i \in 1 .. Len(log)
        BY <3>1
      <3>3. \A i \in 1 .. n : log'[first + i] = i
        BY <1>4, <3>1, <3>2
      <3>4. first + (n + 1) = Len(log')
        BY <1>2, <1>4, <3>1
      <3>5. log'[first + (n + 1)] = n + 1
        BY <1>4, <2>1, <3>4
      <3>6. \A i \in 1 .. (n + 1) : i \in 1 .. n \/ i = n + 1
        OBVIOUS
      <3>7. \A i \in 1 .. (n + 1) : log'[first + i] = i
        BY <3>3, <3>5, <3>6
      <3>8. QED
        BY <1>4, <3>4, <3>7 DEF Holds
    <2>3. (first + (n + 1) = Len(log))'
      BY <1>2, <1>4, <1>8 DEF InStep
    <2>4. \A j \in 1 .. Len(queue') : queue'[j] = (n + 1) + j
      BY <1>3, <1>8 DEF InStep
    <2>5. n + 1 + Len(queue') = startID' - 1 \/ total' <= n + 1 + Len(queue')
      BY <1>1, <1>3, <1>8 DEF InStep
    <2>6. InStep(first, n + 1)'
      BY <2>2, <2>3, <2>4, <2>5 DEF InStep
    <2>7. QED
      BY <1>1, <2>6 DEF RunIsInOrder
  <1>9. QED
    BY <1>1, <1>5, <1>6, <1>7, <1>8 DEF MigrateInv, RunIsInOrder

(* The run stops: its entry may be in the log, its row is in the table.    *)
LEMMA StopRunKeepsInv ==
    ASSUME MigrateInv, StopRun
    PROVE  MigrateInv'
  <1>1. /\ pc' = "stopped" /\ queue' = <<>> /\ interrupted' = interrupted + 1
        /\ UNCHANGED <<source, dst, total, startID>>
        /\ log' = log \/ (pc = "log" /\ log' = Append(log, Head(queue)))
    BY DEF StopRun
  <1>2. /\ pc = "log" => Head(queue) \in Nat /\ Len(log) < Len(dst)
        /\ log \in Seq(Nat) /\ interrupted \in Nat
        /\ Len(dst) \in Nat
    BY HeadTailProperties DEF MigrateInv, MigrateTypeOK, QueueInUse, RowIsAhead
  <1>3. /\ log' \in Seq(Nat)
        /\ Len(log') = Len(log) \/ (pc = "log" /\ Len(log') = Len(log) + 1)
    BY <1>1, <1>2, SMTT(30)
  <1>4. MigrateTypeOK' /\ QueueInUse' /\ RowIsAhead' /\ RunIsInOrder'
    BY <1>1, <1>2, <1>3 DEF MigrateInv, MigrateTypeOK, QueueInUse, RowIsAhead, RunIsInOrder
  <1>5. RowsFollowLog'
    BY <1>1, <1>2, <1>3 DEF MigrateInv, RowsFollowLog
  <1>6. QED
    BY <1>4, <1>5 DEF MigrateInv

(* The row of the receipt at hand is written.                              *)
LEMMA InsertRowKeepsInv ==
    ASSUME MigrateInv, InsertRow
    PROVE  MigrateInv'
  <1>1. /\ pc = "insert" /\ pc' = "log"
        /\ dst' = Append(dst, Head(queue))
        /\ UNCHANGED <<source, log, total, startID, queue, interrupted>>
    BY DEF InsertRow
  <1>2. Head(queue) \in Nat /\ dst \in Seq(Nat) /\ log \in Seq(Nat) /\ interrupted \in Nat
    BY <1>1, HeadTailProperties DEF MigrateInv, MigrateTypeOK, QueueInUse
  <1>3. dst' \in Seq(Nat) /\ Len(dst') = Len(dst) + 1 /\ Len(dst) \in Nat /\ Len(log) \in Nat
    BY <1>1, <1>2
  <1>4. MigrateTypeOK' /\ QueueInUse'
    BY <1>1, <1>3 DEF MigrateInv, MigrateTypeOK, QueueInUse
  <1>5. RowIsAhead' /\ RowsFollowLog'
    BY <1>1, <1>2, <1>3 DEF MigrateInv, RowIsAhead, RowsFollowLog
  <1>6. RunIsInOrder'
    BY <1>1 DEF MigrateInv, RunIsInOrder, InStep, Holds
  <1>7. QED
    BY <1>4, <1>5, <1>6 DEF MigrateInv

(* The source grows under the run, and nothing else changes.               *)
LEMMA SourceGrowsKeepsInv ==
    ASSUME MigrateInv, SourceGrows \/ UNCHANGED migrateVars
    PROVE  MigrateInv'
  <1>1. /\ source' \in Nat /\ source <= source' /\ source \in Nat
        /\ UNCHANGED <<dst, log, pc, total, startID, queue, interrupted>>
    BY DEF SourceGrows, migrateVars, runVars, MigrateInv, MigrateTypeOK
  <1>2. MigrateTypeOK' /\ QueueInUse' /\ RowIsAhead' /\ RowsFollowLog'
    BY <1>1 DEF MigrateInv, MigrateTypeOK, QueueInUse, RowIsAhead, RowsFollowLog
  <1>3. RunIsInOrder'
    BY <1>1 DEF MigrateInv, RunIsInOrder, InStep, Holds
  <1>4. QED
    BY <1>2, <1>3 DEF MigrateInv

(* The inductive invariant of the migration.                               *)
THEOREM MigrateInvariant == MigrateSpec => []MigrateInv
  <1>1. MigrateInit => MigrateInv
    BY DEF MigrateInit, MigrateInv, MigrateTypeOK, QueueInUse, RowIsAhead, RowsFollowLog,
           RunIsInOrder
  <1>2. MigrateInv /\ [MigrateNext]_migrateVars => MigrateInv'
    BY SourceGrowsKeepsInv, StartRunKeepsInv, ReadBatchKeepsInv, InsertRowKeepsInv,
       AppendEntryKeepsInv, StopRunKeepsInv DEF MigrateNext
  <1>3. QED
    BY <1>1, <1>2, PTL DEF MigrateSpec

(* A stretch of the log that holds 1 .. n is that list.                    *)
LEMMA HoldsIsSubSeq ==
    ASSUME log \in Seq(Nat), NEW first \in Nat, NEW n \in Nat, Holds(first, n)
    PROVE  /\ first \in 0 .. Len(log)
           /\ SubSeq(log, first + 1, first + n) = [i \in 1 .. n |-> i]
  <1> DEFINE s == SubSeq(log, first + 1, first + n)
  <1>1. first \in 0 .. Len(log)
    BY DEF Holds
  <1>2. \A i \in (first + 1) .. (first + n) : log[i] \in Nat
    BY DEF Holds
  <1>3. /\ s \in Seq(Nat)
        /\ Len(s) = IF first + 1 <= first + n THEN (first + n) - (first + 1) + 1 ELSE 0
        /\ \A i \in 1 .. (first + n) - (first + 1) + 1 : s[i] = log[first + 1 + i - 1]
    BY <1>2, SubSeqProperties
  <1>4. (first + n) - (first + 1) + 1 = n
    OBVIOUS
  <1>5. Len(s) = n
    BY <1>3
  <1>6. \A i \in 1 .. n : s[i] = i
    <2> TAKE i \in 1 .. n
    <2>1. first + 1 + i - 1 = first + i
      OBVIOUS
    <2>2. QED
      BY <1>3, <1>4, <2>1 DEF Holds
  <1> HIDE DEF s
  <1>7. s = [i \in 1 .. n |-> i]
    BY <1>3, <1>5, <1>6
  <1>8. QED
    BY <1>1, <1>7 DEF s

(* A run that completes has copied what was in the source when it began,   *)
(* in order and without a gap, for any batch size, however the source      *)
(* grows meanwhile and however many runs were interrupted before.          *)
THEOREM MigrationIsComplete == MigrateSpec => []CompleteAndInOrder
  <1>1. MigrateInv => CompleteAndInOrder
    <2> SUFFICES ASSUME MigrateInv, pc = "done"
                 PROVE  \E first \in 0 .. Len(log) :
                           /\ first + total <= Len(log)
                           /\ SubSeq(log, first + 1, first + total) = [i \in 1 .. total |-> i]
      BY DEF CompleteAndInOrder
    <2>1. PICK first \in Nat : Holds(first, total)
      BY DEF MigrateInv, RunIsInOrder
    <2>2. first + total <= Len(log)
      BY <2>1 DEF Holds
    <2>3. QED
      BY <2>1, <2>2, HoldsIsSubSeq DEF MigrateInv, MigrateTypeOK
  <1>2. QED
    BY <1>1, MigrateInvariant, PTL

(* The rows of the destination are ahead of its log by no more than one    *)
(* for each interrupted run, and never behind it.                          *)
THEOREM MigratedRowsFollowLog == MigrateSpec => []RowsFollowLog
  <1>1. MigrateInv => RowsFollowLog
    BY DEF MigrateInv
  <1>2. QED
    BY <1>1, MigrateInvariant, PTL

-----------------------------------------------------------------------------
(* The legacy witness protocol.                                            *)

\* The key of the operator at one of its starts, and a row of the table.
OperatorKeys == {"operator"} \X Nat

LegacyRows ==
    [batch : Nat, issuedUnix : Nat,
     operatorSig : [key : OperatorKeys, payload : [batch : Nat, issuedAt : Nat]]]

LegacyTypeOK ==
    /\ keyGiven \in BOOLEAN
    /\ serverRun \in Nat
    /\ clock \in Nat
    /\ checkpoints \in Seq(LegacyRows)
    /\ builtIn \in Seq(Nat)
    /\ Len(builtIn) = Len(checkpoints)
    /\ cosigner \in [Cosigners -> {NotRunning}
                                     \cup [stage : {"posted"}, id : Nat, witness : WitnessIds]]
    /\ posts \in Nat
    /\ told \subseteq [id : DOMAIN checkpoints, witness : WitnessIds, key : Cosigners]

\* A row, as it is read back, carries the signature of the run that built it.
RowsAreSigned ==
    \A id \in DOMAIN checkpoints :
        GetCheckpoint(id).operatorSig = Sign(OperatorOf(builtIn[id]), GetCheckpoint(id))

\* What a cosign command has posted is its key's signature for that row.
IsCosignature(s) ==
    /\ s.id \in DOMAIN checkpoints
    /\ s.witness \in WitnessIds
    /\ s.from \in Cosigners
    /\ s.sig = Sign(s.from, GetCheckpoint(s.id))

SubmissionsAreGood == \A s \in submissions : IsCosignature(s)

\* The primary key of witness_signatures.
OneRowEach ==
    \A r \in witnessSigs :
        /\ r.witness \in WitnessIds
        /\ \A q \in witnessSigs : q.id = r.id /\ q.witness = r.witness => q = r

\* What a command was told of is in the table, its own unless it is contested.
IsStored(t) ==
    \E r \in witnessSigs :
        /\ r.id = t.id /\ r.witness = t.witness
        /\ <<t.id, t.witness>> \notin contested => r.sig = Sign(t.key, GetCheckpoint(t.id))

ToldIsStored == \A t \in told : IsStored(t)

LegacyInv ==
    /\ LegacyTypeOK
    /\ RowsAreSigned
    /\ SubmissionsAreGood
    /\ OneRowEach
    /\ ToldIsStored

(* The column of whole seconds gives back the truncated time that was      *)
(* signed.                                                                 *)
LEMMA IssuedAtSurvives ==
    ASSUME NEW t \in Nat
    PROVE  /\ Truncate(t) \in Nat
           /\ Unix(Truncate(t)) \in Nat
           /\ Unix(Truncate(t)) * TicksPerSecond = Truncate(t)
  <1>1. TicksPerSecond \in Nat \ {0}
    BY LegacyAssumption
  <1>2. t \div TicksPerSecond \in Nat
    BY <1>1
  <1>3. ((t \div TicksPerSecond) * TicksPerSecond) \div TicksPerSecond = t \div TicksPerSecond
    BY <1>1, <1>2
  <1>4. (t \div TicksPerSecond) * TicksPerSecond \in Nat
    BY <1>1, <1>2
  <1>5. QED
    BY <1>2, <1>3, <1>4 DEF Truncate, Unix

(* A row that is there stays as it is, and so does what it is read as.     *)
LEMMA LegacyRowsStay ==
    ASSUME LegacyInv, NEW row \in LegacyRows, NEW n \in Nat,
           checkpoints' = Append(checkpoints, row), builtIn' = Append(builtIn, n)
    PROVE  /\ checkpoints' \in Seq(LegacyRows)
           /\ builtIn' \in Seq(Nat)
           /\ Len(builtIn') = Len(checkpoints')
           /\ DOMAIN checkpoints' = DOMAIN checkpoints \cup {Len(checkpoints) + 1}
           /\ checkpoints'[Len(checkpoints) + 1] = row
           /\ builtIn'[Len(checkpoints) + 1] = n
           /\ \A id \in DOMAIN checkpoints : /\ checkpoints'[id] = checkpoints[id]
                                             /\ GetCheckpoint(id)' = GetCheckpoint(id)
                                             /\ builtIn'[id] = builtIn[id]
  <1>1. checkpoints \in Seq(LegacyRows) /\ builtIn \in Seq(Nat) /\ Len(builtIn) = Len(checkpoints)
    BY DEF LegacyInv, LegacyTypeOK
  <1>2. /\ checkpoints' \in Seq(LegacyRows)
        /\ builtIn' \in Seq(Nat)
        /\ Len(builtIn') = Len(checkpoints')
        /\ DOMAIN checkpoints' = DOMAIN checkpoints \cup {Len(checkpoints) + 1}
        /\ checkpoints'[Len(checkpoints) + 1] = row
        /\ builtIn'[Len(checkpoints) + 1] = n
    BY <1>1
  <1>3. \A id \in DOMAIN checkpoints : checkpoints'[id] = checkpoints[id]
                                       /\ builtIn'[id] = builtIn[id]
    BY <1>1
  <1>4. \A id \in DOMAIN checkpoints : GetCheckpoint(id)' = GetCheckpoint(id)
    BY <1>3 DEF GetCheckpoint
  <1>5. QED
    BY <1>2, <1>3, <1>4

(* A step that adds no checkpoint keeps the rows signed, what was posted   *)
(* good, and the reading of every row.                                     *)
LEMMA RowsUnchanged ==
    ASSUME LegacyInv, UNCHANGED <<keyGiven, checkpoints, builtIn>>
    PROVE  /\ RowsAreSigned'
           /\ \A s : IsCosignature(s) => IsCosignature(s)'
           /\ \A id : GetCheckpoint(id)' = GetCheckpoint(id)
           /\ \A key, id : Sign(key, GetCheckpoint(id))' = Sign(key, GetCheckpoint(id))
  BY DEF LegacyInv, RowsAreSigned, IsCosignature, GetCheckpoint, OperatorOf, Sign, Payload

(* A step that leaves checkpoints and signatures alone keeps what is told. *)
LEMMA StoredUnchanged ==
    ASSUME LegacyInv,
           UNCHANGED <<keyGiven, checkpoints, builtIn, witnessSigs, told, contested>>
    PROVE  OneRowEach' /\ ToldIsStored'
  <1>1. \A t : IsStored(t) => IsStored(t)'
    BY RowsUnchanged DEF IsStored
  <1>2. QED
    BY <1>1 DEF LegacyInv, OneRowEach, ToldIsStored

(* A checkpoint is built: its signature is over what the row will say.     *)
LEMMA BuildAndSignKeepsInv ==
    ASSUME LegacyInv, NEW batch \in 1 .. MaxCheckpoints, NEW time \in clock .. MaxTicks,
           BuildAndSign(batch, time)
    PROVE  LegacyInv'
  <1> USE LegacyAssumption
  <1> DEFINE now == Truncate(time)
             sig == Sign(OperatorOf(serverRun), [batch |-> batch, issuedAt |-> now])
             row == [batch |-> batch, issuedUnix |-> Unix(now), operatorSig |-> sig]
  <1>0. PICK id \in Nat : id = Len(checkpoints) + 1
    BY DEF LegacyInv, LegacyTypeOK
  <1>1. /\ clock' = time
        /\ checkpoints' = Append(checkpoints, row)
        /\ builtIn' = Append(builtIn, serverRun)
        /\ UNCHANGED <<keyGiven, serverRun, witnessSigs, cosigner, submissions, posts, told,
                       contested>>
    BY DEF BuildAndSign, serverKey
  <1>2. time \in Nat /\ batch \in Nat /\ serverRun \in Nat
    BY DEF LegacyInv, LegacyTypeOK
  <1>3. now \in Nat /\ Unix(now) \in Nat /\ Unix(now) * TicksPerSecond = now
    BY <1>2, IssuedAtSurvives
  <1>4. OperatorOf(serverRun) \in OperatorKeys
    BY <1>2 DEF OperatorOf, OperatorKeys
  <1>5. sig \in [key : OperatorKeys, payload : [batch : Nat, issuedAt : Nat]]
    BY <1>2, <1>3, <1>4 DEF Sign, Payload
  <1>6. row \in LegacyRows
    BY <1>2, <1>3, <1>5 DEF LegacyRows
  <1> HIDE DEF row
  <1>7. /\ checkpoints' \in Seq(LegacyRows)
        /\ builtIn' \in Seq(Nat)
        /\ Len(builtIn') = Len(checkpoints')
        /\ DOMAIN checkpoints' = DOMAIN checkpoints \cup {id}
        /\ checkpoints'[id] = row
        /\ builtIn'[id] = serverRun
        /\ \A i \in DOMAIN checkpoints : /\ checkpoints'[i] = checkpoints[i]
                                         /\ GetCheckpoint(i)' = GetCheckpoint(i)
                                         /\ builtIn'[i] = builtIn[i]
    BY <1>0, <1>1, <1>2, <1>6, LegacyRowsStay
  <1>8. LegacyTypeOK'
    BY <1>1, <1>2, <1>7 DEF LegacyInv, LegacyTypeOK
  <1>9. RowsAreSigned'
    <2>1. GetCheckpoint(id)' = [batch |-> batch, issuedAt |-> now, operatorSig |-> sig]
      BY <1>3, <1>7 DEF GetCheckpoint, row
    <2>2. GetCheckpoint(id)'.operatorSig
             = Sign(OperatorOf(builtIn'[id]), GetCheckpoint(id)')
      BY <1>7, <2>1 DEF Sign, Payload
    <2>3. ASSUME NEW i \in DOMAIN checkpoints'
          PROVE  GetCheckpoint(i)'.operatorSig
                    = Sign(OperatorOf(builtIn'[i]), GetCheckpoint(i)')
      BY <1>7, <2>2 DEF LegacyInv, RowsAreSigned
    <2>4. \A i : Sign(OperatorOf(builtIn'[i]), GetCheckpoint(i)')
                   = Sign(OperatorOf(builtIn[i]), GetCheckpoint(i))'
      BY <1>1 DEF OperatorOf, Sign, Payload
    <2>5. QED
      BY <2>3, <2>4 DEF RowsAreSigned
  <1>10. SubmissionsAreGood'
    BY <1>1, <1>7 DEF LegacyInv, SubmissionsAreGood, IsCosignature, Sign, Payload
  <1>11. OneRowEach'
    BY <1>1 DEF LegacyInv, OneRowEach
  <1>12. ASSUME NEW t \in told PROVE IsStored(t)'
    <2>1. t.id \in DOMAIN checkpoints
      BY DEF LegacyInv, LegacyTypeOK
    <2>2. IsStored(t)
      BY DEF LegacyInv, ToldIsStored
    <2>3. GetCheckpoint(t.id)' = GetCheckpoint(t.id)
      BY <1>7, <2>1
    <2>4. QED
      BY <1>1, <2>2, <2>3 DEF IsStored, Sign, Payload
  <1>13. QED
    BY <1>1, <1>8, <1>9, <1>10, <1>11, <1>12 DEF LegacyInv, ToldIsStored

(* The command signs what it has fetched and verified.                     *)
LEMMA RunCosignKeepsInv ==
    ASSUME LegacyInv, NEW w \in Cosigners, NEW wid \in WitnessIds,
           NEW id \in DOMAIN checkpoints, NEW run \in 1 .. serverRun,
           RunCosign(w, wid, id, run)
    PROVE  LegacyInv'
  <1>1. PICK sig \in CoSign(GetCheckpoint(id), OperatorOf(run), w) :
           submissions' = submissions \cup {[id |-> id, witness |-> wid, sig |-> sig, from |-> w]}
    BY DEF RunCosign
  <1>2. /\ cosigner' = [cosigner EXCEPT ![w] = [stage |-> "posted", id |-> id, witness |-> wid]]
        /\ posts' = posts + 1
        /\ UNCHANGED <<keyGiven, serverRun, clock, checkpoints, builtIn, witnessSigs, told,
                       contested>>
    BY DEF RunCosign, serverKey
  <1>3. sig = Sign(w, GetCheckpoint(id))
    BY <1>1 DEF CoSign
  <1>4. IsCosignature([id |-> id, witness |-> wid, sig |-> sig, from |-> w])
    BY <1>3 DEF IsCosignature
  <1>5. SubmissionsAreGood'
    BY <1>1, <1>2, <1>4, RowsUnchanged DEF LegacyInv, SubmissionsAreGood
  <1>6. id \in Nat
    BY DEF LegacyInv, LegacyTypeOK
  <1>7. LegacyTypeOK'
    BY <1>2, <1>6 DEF LegacyInv, LegacyTypeOK
  <1>8. QED
    BY <1>2, <1>5, <1>7, RowsUnchanged, StoredUnchanged DEF LegacyInv

(* The command gives up, or the server is started again.                   *)
LEMMA LegacyFaultsKeepInv ==
    ASSUME LegacyInv, RestartServer \/ (\E w \in Cosigners : CosignFails(w))
                        \/ UNCHANGED legacyVars
    PROVE  LegacyInv'
  <1>1. /\ submissions' \subseteq submissions
        /\ cosigner' = cosigner
             \/ \E w \in Cosigners : cosigner' = [cosigner EXCEPT ![w] = NotRunning]
        /\ UNCHANGED <<keyGiven, clock, checkpoints, builtIn, witnessSigs, posts, told, contested>>
        /\ serverRun' \in Nat
    BY DEF RestartServer, CosignFails, legacyVars, serverKey, LegacyInv, LegacyTypeOK
  <1>2. LegacyTypeOK'
    BY <1>1 DEF LegacyInv, LegacyTypeOK
  <1>3. SubmissionsAreGood'
    BY <1>1, RowsUnchanged DEF LegacyInv, SubmissionsAreGood
  <1>4. QED
    BY <1>1, <1>2, <1>3, RowsUnchanged, StoredUnchanged DEF LegacyInv

(* What the handler stores takes the place of that witness_id's row for    *)
(* that checkpoint only, and a command that was told keeps its signature   *)
(* unless the new one differs from it.                                     *)
LEMMA HandleWitnessSubmitKeepsRows ==
    ASSUME LegacyInv, NEW id, NEW wid \in WitnessIds, NEW sig,
           HandleWitnessSubmit(id, wid, sig)
    PROVE  /\ OneRowEach'
           /\ \A t \in told : IsStored(t)'
           /\ \E r \in witnessSigs' : r.id = id /\ r.witness = wid /\ r.sig = sig
  <1> DEFINE new == [id |-> id, witness |-> wid, sig |-> sig]
             kept == {r \in witnessSigs : r.id # id \/ r.witness # wid}
  <1>1. /\ witnessSigs' = kept \cup {new}
        /\ UNCHANGED <<keyGiven, serverRun, clock, checkpoints, builtIn>>
        /\ contested \subseteq contested'
        /\ (\E r \in witnessSigs : r.id = id /\ r.witness = wid /\ r.sig # sig)
              => <<id, wid>> \in contested'
    BY DEF HandleWitnessSubmit, AddWitnessSignature, serverKey
  <1>2. new.id = id /\ new.witness = wid /\ new.sig = sig
    OBVIOUS
  <1> HIDE DEF new
  <1>3. OneRowEach'
    BY <1>1, <1>2 DEF LegacyInv, OneRowEach
  <1>4. ASSUME NEW t \in told PROVE IsStored(t)'
    <2>1. PICK r \in witnessSigs :
             /\ r.id = t.id /\ r.witness = t.witness
             /\ <<t.id, t.witness>> \notin contested => r.sig = Sign(t.key, GetCheckpoint(t.id))
      BY DEF LegacyInv, ToldIsStored, IsStored
    <2>2. Sign(t.key, GetCheckpoint(t.id))' = Sign(t.key, GetCheckpoint(t.id))
      BY <1>1, RowsUnchanged
    <2>3. CASE r \in kept
      BY <1>1, <2>1, <2>2, <2>3 DEF IsStored
    <2>4. CASE r \notin kept
      <3>1. r.id = id /\ r.witness = wid /\ t.id = id /\ t.witness = wid
        BY <2>1, <2>4
      <3>2. <<t.id, t.witness>> \notin contested' => sig = Sign(t.key, GetCheckpoint(t.id))
        BY <1>1, <2>1, <3>1
      <3>3. QED
        BY <1>1, <1>2, <2>2, <3>1, <3>2 DEF IsStored
    <2>5. QED
      BY <2>3, <2>4
  <1>5. QED
    BY <1>1, <1>2, <1>3, <1>4

(* A POST of the command arrives.                                          *)
LEMMA SubmitCosignatureKeepsInv ==
    ASSUME LegacyInv, NEW s \in submissions, SubmitCosignature(s)
    PROVE  LegacyInv'
  <1> DEFINE ack == [id |-> s.id, witness |-> s.witness, key |-> s.from]
  <1>1. /\ HandleWitnessSubmit(s.id, s.witness, s.sig)
        /\ submissions' \subseteq submissions
        /\ told' = told \/ told' = told \cup {ack}
        /\ cosigner' = cosigner \/ cosigner' = [cosigner EXCEPT ![s.from] = NotRunning]
        /\ UNCHANGED posts
    BY DEF SubmitCosignature
  <1>2. UNCHANGED <<keyGiven, serverRun, clock, checkpoints, builtIn>>
    BY <1>1 DEF HandleWitnessSubmit, serverKey
  <1>3. /\ s.id \in DOMAIN checkpoints /\ s.witness \in WitnessIds /\ s.from \in Cosigners
        /\ s.sig = Sign(s.from, GetCheckpoint(s.id))
    BY DEF LegacyInv, SubmissionsAreGood, IsCosignature
  <1>4. LegacyTypeOK'
    <2>1. ack \in [id : DOMAIN checkpoints, witness : WitnessIds, key : Cosigners]
      BY <1>3
    <2>2. told' \subseteq [id : DOMAIN checkpoints', witness : WitnessIds, key : Cosigners]
      <3> HIDE DEF ack
      <3>1. QED
        BY <1>1, <1>2, <2>1 DEF LegacyInv, LegacyTypeOK
    <2>3. cosigner' \in [Cosigners -> {NotRunning}
                                       \cup [stage : {"posted"}, id : Nat, witness : WitnessIds]]
      BY <1>1, <1>3 DEF LegacyInv, LegacyTypeOK
    <2>4. QED
      BY <1>1, <1>2, <2>2, <2>3 DEF LegacyInv, LegacyTypeOK
  <1>5. SubmissionsAreGood'
    BY <1>1, <1>2, RowsUnchanged DEF LegacyInv, SubmissionsAreGood
  <1>6. /\ OneRowEach'
        /\ \A t \in told : IsStored(t)'
        /\ \E r \in witnessSigs' : r.id = s.id /\ r.witness = s.witness /\ r.sig = s.sig
    BY <1>1, <1>3, HandleWitnessSubmitKeepsRows
  <1>7. IsStored(ack)'
    <2>1. Sign(s.from, GetCheckpoint(s.id))' = s.sig
      BY <1>2, <1>3, RowsUnchanged
    <2>2. QED
      BY <1>6, <2>1 DEF IsStored
  <1>8. ToldIsStored'
    BY <1>1, <1>6, <1>7 DEF ToldIsStored
  <1>9. QED
    BY <1>2, <1>4, <1>5, <1>6, <1>8, RowsUnchanged DEF LegacyInv

(* Anyone posts anything.                                                  *)
LEMMA SubmitAnythingKeepsInv ==
    ASSUME LegacyInv, NEW id, NEW wid \in WitnessIds, NEW sig, SubmitAnything(id, wid, sig)
    PROVE  LegacyInv'
  <1>1. /\ HandleWitnessSubmit(id, wid, sig)
        /\ posts' = posts + 1
        /\ UNCHANGED <<cosigner, submissions, told>>
    BY DEF SubmitAnything
  <1>2. UNCHANGED <<keyGiven, serverRun, clock, checkpoints, builtIn>>
    BY <1>1 DEF HandleWitnessSubmit, serverKey
  <1>3. LegacyTypeOK'
    BY <1>1, <1>2 DEF LegacyInv, LegacyTypeOK
  <1>4. SubmissionsAreGood'
    BY <1>1, <1>2, RowsUnchanged DEF LegacyInv, SubmissionsAreGood
  <1>5. OneRowEach' /\ ToldIsStored'
    BY <1>1, HandleWitnessSubmitKeepsRows DEF ToldIsStored
  <1>6. QED
    BY <1>2, <1>3, <1>4, <1>5, RowsUnchanged DEF LegacyInv

(* The inductive invariant of the legacy witness protocol: rows carry      *)
(* their run's signature, what cosign has posted is over the same bytes,   *)
(* the table has one row per checkpoint and witness_id, and a command that *)
(* was told of success finds its own signature there unless another was    *)
(* sent in its place.                                                      *)
THEOREM LegacyInvariant == LegacySpec => []LegacyInv
  <1>1. LegacyInit => LegacyInv
    BY DEF LegacyInit, LegacyInv, LegacyTypeOK, RowsAreSigned, SubmissionsAreGood, OneRowEach,
           ToldIsStored
  <1>2. LegacyInv /\ [LegacyNext]_legacyVars => LegacyInv'
    BY BuildAndSignKeepsInv, RunCosignKeepsInv, LegacyFaultsKeepInv,
       SubmitCosignatureKeepsInv, SubmitAnythingKeepsInv DEF LegacyNext
  <1>3. QED
    BY <1>1, <1>2, PTL DEF LegacySpec

(* A row verifies under the key of a run exactly if that run built it, or  *)
(* if every run has the same key.                                          *)
LEMMA OperatorVerifies ==
    ASSUME LegacyInv, NEW id \in DOMAIN checkpoints, NEW run \in Nat
    PROVE  VerifyOperatorSignature(GetCheckpoint(id), OperatorOf(run))
             <=> (keyGiven \/ builtIn[id] = run)
  <1> DEFINE cp == GetCheckpoint(id)
             built == builtIn[id]
  <1>1. cp.operatorSig = [key |-> OperatorOf(built), payload |-> Payload(cp)]
    BY DEF LegacyInv, RowsAreSigned, Sign
  <1>2. VerifyOperatorSignature(cp, OperatorOf(run)) <=> OperatorOf(built) = OperatorOf(run)
    <2> HIDE DEF cp, built
    <2>1. (cp.operatorSig = [key |-> OperatorOf(run), payload |-> Payload(cp)])
             <=> OperatorOf(built) = OperatorOf(run)
      BY <1>1
    <2>2. QED
      BY <2>1 DEF VerifyOperatorSignature, Verify, Sign
  <1>3. keyGiven \in BOOLEAN
    BY DEF LegacyInv, LegacyTypeOK
  <1>4. CASE keyGiven
    BY <1>2, <1>4 DEF OperatorOf
  <1>5. CASE ~keyGiven
    <2>1. OperatorOf(built) = <<"operator", built>> /\ OperatorOf(run) = <<"operator", run>>
      BY <1>5 DEF OperatorOf
    <2>2. <<"operator", built>> = <<"operator", run>> <=> built = run
      OBVIOUS
    <2>3. QED
      BY <1>2, <1>5, <2>1, <2>2
  <1>6. QED
    BY <1>3, <1>4, <1>5

(* The operator's signature is shown as valid, and found valid by a client *)
(* with the key of an earlier run, exactly for the checkpoints of that     *)
(* key: for any restarts and rebuilt batches, any resolution of the clock  *)
(* and whatever is posted as a witness's signature.                        *)
THEOREM EndpointVouches == LegacySpec => []VerifyEndpointVouches
  <1>1. ASSUME LegacyInv PROVE VerifyEndpointVouches
    <2> SUFFICES ASSUME NEW id \in DOMAIN checkpoints
                 PROVE  /\ HandleVerifyCheckpoint(id).operatorValid
                              <=> (keyGiven \/ builtIn[id] = serverRun)
                        /\ \A run \in 1 .. serverRun :
                              RunVerify(id, OperatorOf(run)).operatorSig
                                 <=> (keyGiven \/ builtIn[id] = run)
      BY DEF VerifyEndpointVouches
    <2>1. serverRun \in Nat
      BY <1>1 DEF LegacyInv, LegacyTypeOK
    <2>2. HandleVerifyCheckpoint(id).operatorValid
             <=> VerifyOperatorSignature(GetCheckpoint(id), OperatorOf(serverRun))
      BY DEF HandleVerifyCheckpoint
    <2>3. \A run \in 1 .. serverRun :
             RunVerify(id, OperatorOf(run)).operatorSig
                <=> VerifyOperatorSignature(GetCheckpoint(id), OperatorOf(run))
      BY DEF RunVerify
    <2>4. \A run \in 1 .. serverRun : run \in Nat
      BY <2>1
    <2>5. QED
      BY <1>1, <2>1, <2>2, <2>3, <2>4, OperatorVerifies
  <1>2. QED
    BY <1>1, LegacyInvariant, PTL

(* The rows listed for a checkpoint: each witness_id under which a command *)
(* was told of success has one, and none has two.                          *)
LEMMA WitnessCount ==
    ASSUME LegacyInv, NEW id \in DOMAIN checkpoints
    PROVE  LET listed == {r \in witnessSigs : r.id = id}
           IN  Cardinality(listed)
                  \in Cardinality({t.witness : t \in {u \in told : u.id = id}})
                        .. Cardinality(WitnessIds)
  <1> DEFINE listed == {r \in witnessSigs : r.id = id}
             said == {t.witness : t \in {u \in told : u.id = id}}
             f == [r \in listed |-> r.witness]
             g == [w \in said |-> CHOOSE r \in listed : r.witness = w]
  <1>1. \A r \in listed : r.witness \in WitnessIds
    BY DEF LegacyInv, OneRowEach
  <1>2. \A a, b \in listed : a.witness = b.witness => a = b
    BY DEF LegacyInv, OneRowEach
  <1>3. f \in Injection(listed, WitnessIds)
    BY <1>1, <1>2 DEF Injection, IsInjective
  <1>4. IsFiniteSet(listed) /\ Cardinality(listed) <= Cardinality(WitnessIds)
    BY <1>3, FS_Injection, LegacyAssumption
  <1>5. ASSUME NEW w \in said PROVE \E r \in listed : r.witness = w
    <2>1. PICK t \in told : t.id = id /\ t.witness = w
      OBVIOUS
    <2>2. IsStored(t)
      BY DEF LegacyInv, ToldIsStored
    <2>3. QED
      BY <2>1, <2>2 DEF IsStored
  <1>6. \A w \in said : g[w] \in listed /\ g[w].witness = w
    BY <1>5
  <1> HIDE DEF g, listed, said
  <1>7. DOMAIN g = said
    BY DEF g
  <1>8. g \in [said -> listed]
    BY <1>6, <1>7 DEF g
  <1>9. \A w, v \in said : g[w] = g[v] => w = v
    BY <1>6
  <1>10. g \in Injection(said, listed)
    BY <1>7, <1>8, <1>9 DEF Injection, IsInjective
  <1>11. IsFiniteSet(said) /\ Cardinality(said) <= Cardinality(listed)
    BY <1>4, <1>10, FS_Injection
  <1>12. /\ Cardinality(said) \in Nat
         /\ Cardinality(listed) \in Nat
         /\ Cardinality(WitnessIds) \in Nat
    BY <1>4, <1>11, FS_CardinalityType, LegacyAssumption
  <1>13. QED
    BY <1>4, <1>11, <1>12 DEF listed, said

(* A command that was told of success finds a signature under its          *)
(* witness_id for good, its own as long as no other was sent for the same  *)
(* checkpoint and id, and the number that `verify --legacy` reports counts *)
(* those ids, each once: for any keys, any sharing of ids among them and   *)
(* any POSTs of others.                                                    *)
THEOREM CosignaturesStay == LegacySpec => []AcknowledgedCosignatureKept
  <1>1. ASSUME LegacyInv PROVE AcknowledgedCosignatureKept
    <2>1. \A id : /\ HandleVerifyCheckpoint(id).witnesses = {r \in witnessSigs : r.id = id}
                  /\ RunVerify(id, OperatorOf(serverRun)).witnesses
                       = Cardinality({r \in witnessSigs : r.id = id})
      BY DEF RunVerify, HandleVerifyCheckpoint
    <2>2. \A id \in DOMAIN checkpoints :
             RunVerify(id, OperatorOf(serverRun)).witnesses
                \in Cardinality({t.witness : t \in {u \in told : u.id = id}})
                      .. Cardinality(WitnessIds)
      BY <1>1, <2>1, WitnessCount
    <2>3. ASSUME NEW t \in told
          PROVE  \E r \in HandleVerifyCheckpoint(t.id).witnesses :
                    /\ r.witness = t.witness
                    /\ <<t.id, t.witness>> \notin contested =>
                          VerifyWitness(GetCheckpoint(t.id), t.key, r.sig)
      BY <1>1, <2>1 DEF LegacyInv, ToldIsStored, IsStored, VerifyWitness, Verify
    <2>4. QED
      BY <2>2, <2>3 DEF AcknowledgedCosignatureKept
  <1>2. QED
    BY <1>1, LegacyInvariant, PTL
=============================================================================
