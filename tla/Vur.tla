-------------------------------- MODULE Vur ---------------------------------
(***************************************************************************)
(* The verifiable usage receipt and its signature (pkg/vur) with the       *)
(* signing backends (internal/signing).                                    *)
(*                                                                         *)
(* A signature is the key that made it together with the bytes it is over; *)
(* the canonical bytes are a one-to-one encoding of every field but        *)
(* signature_hex (a field that is omitted is one that is empty).           *)
(* Certificates and Rekor indices are numbers, 0 for none.                 *)
(***************************************************************************)
EXTENDS Integers

NoSignature == [by |-> "nobody"]
NoBundleJSON == 0

CanonicalBytes(r) == [f \in DOMAIN r \ {"signature"} |-> r[f]]

Ed25519Sign(key, bytes) == [by |-> "ed25519", key |-> key, bytes |-> bytes]

-----------------------------------------------------------------------------
(* The Ed25519 functions the server and the verifier command call.         *)

\* The signer type of a receipt that has one stays, and so does its certificate.
SignReceipt(r, key) ==
    LET blank == [r EXCEPT !.signerType = IF @ = "" THEN "ed25519" ELSE @,
                           !.signature = NoSignature]
    IN  [blank EXCEPT !.signature = Ed25519Sign(key, CanonicalBytes(blank))]

VerifyReceipt(r, key) ==
    /\ r.signature # NoSignature
    /\ r.signature = Ed25519Sign(key, CanonicalBytes(r))

-----------------------------------------------------------------------------
(* Signers and verifiers.                                                  *)

Ed25519Signer(key) == [type |-> "ed25519", identity |-> key]
FulcioSigner(rekor) == [type |-> "fulcio", identity |-> "fulcio", rekor |-> rekor]

(* Signer.Sign.  Fulcio signs with a fresh key, certificate n; with a      *)
(* Rekor URL the log's answer is an index.                                 *)
SignerSign(s, bytes, n) ==
    IF s.type = "ed25519"
    THEN [signature |-> Ed25519Sign(s.identity, bytes), certificate |-> 0,
          rekorLogIndex |-> -1, bundleJSON |-> NoBundleJSON]
    ELSE [signature |-> [by |-> "fulcio", key |-> n, bytes |-> bytes], certificate |-> n,
          rekorLogIndex |-> IF s.rekor THEN n ELSE -1, bundleJSON |-> n]

\* Mutant: the certificate of an earlier signature is still there.
PreparedForKeepsCertificate(r, s) ==
    [r EXCEPT !.signerType = s.type, !.signerIdentity = s.identity,
              !.signature = NoSignature]

\* What SignReceiptWithSigner does before the signer is called.
PreparedFor(r, s) ==
    [r EXCEPT !.signerType = s.type, !.signerIdentity = s.identity,
              !.signature = NoSignature, !.certificate = 0, !.rekorLogIndex = 0]

SignReceiptWithSigner(r, s, n) ==
    LET blank  == PreparedFor(r, s)
        bundle == SignerSign(s, CanonicalBytes(blank), n)
    IN  [blank EXCEPT !.signature = bundle.signature,
                      !.certificate = bundle.certificate,
                      !.rekorLogIndex = IF bundle.rekorLogIndex >= 0
                                        THEN bundle.rekorLogIndex ELSE @]

Ed25519Verifier(key) == [type |-> "ed25519", key |-> key]
FulcioVerifier == [type |-> "fulcio"]

\* Verifier.Verify; the trusted root accepts the certificates Fulcio gave out.
VerifierVerify(v, bytes, bundle) ==
    IF v.type = "ed25519"
    THEN bundle.signature = Ed25519Sign(v.key, bytes)
    ELSE /\ bundle.signerType = "fulcio"
         /\ bundle.bundleJSON # NoBundleJSON
         /\ bundle.signature = [by |-> "fulcio", key |-> bundle.certificate, bytes |-> bytes]

\* The bundle is put together from the receipt, which has no bundle JSON.
VerifyReceiptWithVerifier(r, v) ==
    /\ r.signature # NoSignature
    /\ VerifierVerify(v, CanonicalBytes(r),
                      [signature |-> r.signature, certificate |-> r.certificate,
                       rekorLogIndex |-> r.rekorLogIndex, signerIdentity |-> r.signerIdentity,
                       signerType |-> r.signerType, bundleJSON |-> NoBundleJSON])
=============================================================================
