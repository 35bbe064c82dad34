--------------------------- MODULE ReceiptSigning ---------------------------
(***************************************************************************)
(* One receipt signed again and again with pkg/vur: by Ed25519 keys and by *)
(* Fulcio, through SignReceiptWithSigner and through the deprecated        *)
(* SignReceipt, with its usage corrected in between and with signers that  *)
(* fail.  The signing functions work on the receipt in place, and what one *)
(* leaves behind is under the next one's signature.                        *)
(***************************************************************************)
EXTENDS Vur

CONSTANTS
    SigningKeys,  \* Ed25519 keys
    Counts,       \* token counts the receipt may say
    MaxSignings   \* bound: calls of the signing functions

ASSUME SigningAssumption ==
    /\ SigningKeys # {}
    /\ 0 \in Counts
    /\ MaxSignings \in Nat

VARIABLES
    receipt,   \* the receipt
    signings,  \* calls so far; the call's number names what Fulcio issues
    last       \* history: who signed last, and the usage that was signed

signingVars == <<receipt, signings, last>>

Unsigned == [by |-> "nobody"]

Signers == {Ed25519Signer(k) : k \in SigningKeys} \cup {FulcioSigner(b) : b \in BOOLEAN}

-----------------------------------------------------------------------------
\* The holder of the receipt corrects it.
Correct(c) ==
    /\ c # receipt.inputTokens
    /\ receipt' = [receipt EXCEPT !.inputTokens = c]
    /\ UNCHANGED <<signings, last>>

SignWith(s) ==
    /\ signings < MaxSignings
    /\ signings' = signings + 1
    /\ receipt' = SignReceiptWithSigner(receipt, s, signings')
    /\ last' = [by |-> s.type, identity |-> s.identity, tokens |-> receipt.inputTokens]

\* Fulcio or Rekor cannot be reached: the receipt was already made ready.
SignFails(s) ==
    /\ signings < MaxSignings
    /\ s.type = "fulcio"
    /\ signings' = signings + 1
    /\ receipt' = PreparedFor(receipt, s)
    /\ last' = Unsigned

SignLegacy(k) ==
    /\ signings < MaxSignings
    /\ signings' = signings + 1
    /\ receipt' = SignReceipt(receipt, k)
    /\ last' = [by |-> "ed25519", identity |-> k, tokens |-> receipt.inputTokens]

SigningInit ==
    /\ receipt = [inputTokens |-> 0, signerType |-> "", signerIdentity |-> "",
                  certificate |-> 0, rekorLogIndex |-> 0, signature |-> NoSignature]
    /\ signings = 0
    /\ last = Unsigned

SigningNext ==
    \/ \E c \in Counts : Correct(c)
    \/ \E s \in Signers : SignWith(s) \/ SignFails(s)
    \/ \E k \in SigningKeys : SignLegacy(k)

SigningSpec == SigningInit /\ [][SigningNext]_signingVars

-----------------------------------------------------------------------------
(* Whatever was signed before, with which signer and with which outcome,   *)
(* the holder of an Ed25519 key finds the receipt valid exactly when that  *)
(* key signed it last and the usage is what was signed; the two verify     *)
(* functions agree, on receipts of either signing function.                *)
SignedReceiptVerifies ==
    \A k \in SigningKeys :
        /\ VerifyReceiptWithVerifier(receipt, Ed25519Verifier(k)) <=>
              last = [by |-> "ed25519", identity |-> k, tokens |-> receipt.inputTokens]
        /\ VerifyReceipt(receipt, k) <=>
              VerifyReceiptWithVerifier(receipt, Ed25519Verifier(k))

(* CHANGELOG.md:78: "`FulcioVerifier` — verifies Fulcio-signed receipts    *)
(* against a trust root".  A receipt that Fulcio signed last, and that     *)
(* says what was signed, is found valid.  The code does not do this: the   *)
(* bundle FulcioVerifier needs is not kept in a receipt, and the           *)
(* certificate is put in after the bytes were signed.                      *)
FulcioReceiptVerifies ==
    last.by = "fulcio" /\ last.tokens = receipt.inputTokens =>
        VerifyReceiptWithVerifier(receipt, FulcioVerifier)
=============================================================================
