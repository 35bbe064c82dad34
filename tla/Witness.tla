------------------------------ MODULE Witness -------------------------------
(***************************************************************************)
(* C2SP witness cosigning on the SQLite ledger: the endpoints of           *)
(* internal/api/witness.go, the witness command (cmd/witness/main.go) with *)
(* its client (internal/witness/client.go), and a reader who fetches the   *)
(* cosigned checkpoint and verifies it (internal/witness/verify.go).       *)
(*                                                                         *)
(* A note body is the origin, a tree size and a root; a note is a body and *)
(* the signature lines under it, each a signer and the body it signed.     *)
(* Two checkpoints with one root have one size: they are over the same     *)
(* receipts.  The size of a checkpoint is that of its own batch, so the    *)
(* sizes of successive checkpoints go up and down.                         *)
(*                                                                         *)
(* Nobody forges a signature, but anyone may post a note: the server looks *)
(* at the operator's line only, so the lines under it may be what a        *)
(* witness signed for another body, or garbage in a witness's name.        *)
(***************************************************************************)
EXTENDS Naturals, Sequences, FiniteSets

CONSTANTS
    Watchers,        \* processes of `siqlah-witness watch`
    OneShots,        \* repeated runs of `siqlah-witness cosign`
    Operator,        \* the ledger's signer
    MaxSize,         \* bound: receipts in a checkpoint
    MaxCheckpoints,  \* bound: checkpoints ever built
    FaultKinds,      \* which calls may fail, "crash", and "stranger"
    MaxFaults        \* bound: faults in a behaviour

ASSUME WitnessAssumption ==
    /\ Operator \notin Watchers \cup OneShots
    /\ Watchers \cap OneShots = {}
    /\ IsFiniteSet(Watchers) /\ IsFiniteSet(OneShots)
    /\ MaxSize \in Nat
    /\ MaxCheckpoints \in Nat
    /\ MaxFaults \in Nat

Witnesses == Watchers \cup OneShots

VARIABLES
    published,     \* checkpoints: the body of each row, by row id
    cosignatures,  \* cosignatures: its rows
    posts,         \* POST /v1/witness/cosign requests on their way
    pc,            \* where each witness stands in its loop
    note,          \* witness: the note it fetched, then cosigned
    reply,         \* witness: the status its POST was answered with
    lastTreeSize,  \* witness: the size it cosigned last (watch)
    signed,        \* history: the bodies each witness has ever signed
    reader,        \* an outstanding GET /v1/witness/cosigned-checkpoint
    faults         \* the kinds of the faults so far, in order

ledgerVars == <<published, cosignatures>>
witnessVars == <<pc, note, reply, lastTreeSize, signed>>
vars == <<published, cosignatures, posts, pc, note, reply, lastTreeSize, signed,
          reader, faults>>

Body == [size : 1 .. MaxSize, root : 1 .. MaxCheckpoints]
NoNote == [sigs |-> {}]
NoBody == [size |-> 0, root |-> 0]
NoReader == [stage |-> "none"]

Fault(kind) ==
    /\ kind \in FaultKinds
    /\ Len(faults) < MaxFaults
    /\ faults' = Append(faults, kind)

NoFault == UNCHANGED faults

-----------------------------------------------------------------------------
(* Notes: golang.org/x/mod/sumdb/note as the code uses it.                 *)

SignedBy(s, body) == [signer |-> s, body |-> body]

\* SignCheckpoint with the operator's key.
SignCheckpoint(body) == [body |-> body, sigs |-> {SignedBy(Operator, body)}]

KnownSigs(n, verifiers) == {s \in n.sigs : s.signer \in verifiers}

(* The lines note.Open verifies: the first by each known signer; it drops  *)
(* the others.  The order of the lines is left open, so any line by that   *)
(* signer may be the first.                                                *)
FirstSigs(n, verifiers) ==
    {first \in SUBSET KnownSigs(n, verifiers) :
        /\ \A s \in KnownSigs(n, verifiers) : \E f \in first : f.signer = s.signer
        /\ \A f, g \in first : f.signer = g.signer => f = g}

\* note.Open: one known line at least, and none that does not verify.
Opens(n, first) == first # {} /\ \A s \in first : s.body = n.body

\* OpenCheckpoint with the operator's key; no note has two lines by the operator.
OpensForOperator(n) == Opens(n, KnownSigs(n, {Operator}))

\* Mutant: the operator's signature is counted among the witnesses'.
VerifyCountingOperator(n, first, required, threshold) ==
    /\ Opens(n, first)
    /\ Cardinality(first) >= threshold

\* VerifyCosignedCheckpoint, where note.Open looks at these lines.
VerifyCosignedCheckpoint(n, first, required, threshold) ==
    /\ Opens(n, first)
    /\ \E s \in first : s.signer = Operator
    /\ Cardinality({s \in first : s.signer \in required}) >= threshold

-----------------------------------------------------------------------------
(* A builder saves a checkpoint: over new receipts, or over a batch that   *)
(* already has one, which could not be marked or was built twice.          *)
Publish(body) ==
    /\ Len(published) < MaxCheckpoints
    /\ \/ body.root = Len(published) + 1
       \/ \E c \in DOMAIN published : body = published[c]
    /\ published' = Append(published, body)
    /\ UNCHANGED <<cosignatures, posts, witnessVars, reader, faults>>

Latest == published[Len(published)]

-----------------------------------------------------------------------------
(* The witness loop.                                                       *)

Goto(w, from, to) ==
    /\ pc[w] = from
    /\ pc' = [pc EXCEPT ![w] = to]

\* Mutant: the size is recorded as soon as it is seen.
FetchCheckpointRecords(w) ==
    /\ published # <<>>
    /\ Latest.size > lastTreeSize[w]
    /\ Goto(w, "idle", "fetched")
    /\ note' = [note EXCEPT ![w] = SignCheckpoint(Latest)]
    /\ lastTreeSize' = [lastTreeSize EXCEPT ![w] = IF w \in Watchers THEN Latest.size ELSE @]
    /\ NoFault
    /\ UNCHANGED <<ledgerVars, posts, reply, signed, reader>>

(* GET /v1/witness/checkpoint, and the comparison with lastTreeSize (which *)
(* stays 0 for a one-shot run, so that it cosigns whatever is the latest). *)
FetchCheckpoint(w) ==
    /\ published # <<>>
    /\ Latest.size > lastTreeSize[w]
    /\ Goto(w, "idle", "fetched")
    /\ note' = [note EXCEPT ![w] = SignCheckpoint(Latest)]
    /\ NoFault
    /\ UNCHANGED <<ledgerVars, posts, reply, lastTreeSize, signed, reader>>

\* 404, an error, or nothing larger than before: sleep until the next poll.
FetchNothing(w) ==
    /\ pc[w] = "idle"
    /\ UNCHANGED vars

\* VerifyAndCosign, and the POST of the result.
CosignAndSubmit(w) ==
    LET body == note[w].body
        cosigned == [note[w] EXCEPT !.sigs = @ \cup {SignedBy(w, body)}]
    IN  /\ Goto(w, "fetched", "posted")
        /\ OpensForOperator(note[w])
        /\ note' = [note EXCEPT ![w] = cosigned]
        /\ signed' = [signed EXCEPT ![w] = @ \cup {body}]
        /\ posts' = posts \cup {[from |-> w, note |-> cosigned, awaited |-> TRUE]}
        /\ NoFault
        /\ UNCHANGED <<ledgerVars, reply, lastTreeSize, reader>>

Sleep(w) ==
    /\ Goto(w, "posted", "idle")
    /\ note' = [note EXCEPT ![w] = NoNote]
    /\ reply' = [reply EXCEPT ![w] = "none"]

\* 202: watch remembers the size.
Accepted(w) ==
    /\ reply[w] = "202"
    /\ Sleep(w)
    /\ lastTreeSize' =
          [lastTreeSize EXCEPT ![w] = IF w \in Watchers THEN note[w].body.size ELSE @]
    /\ NoFault
    /\ UNCHANGED <<ledgerVars, posts, signed, reader>>

Rejected(w) ==
    /\ reply[w] = "400"
    /\ Sleep(w)
    /\ NoFault
    /\ UNCHANGED <<ledgerVars, posts, lastTreeSize, signed, reader>>

\* What w sent and nobody waits for any more: it may arrive late, or never.
Abandon(w) ==
    \E late \in BOOLEAN :
        posts' = {p \in posts : p.from # w \/ ~p.awaited} \cup
                 {[p EXCEPT !.awaited = FALSE] :
                     p \in {q \in posts : late /\ q.from = w}}

\* The POST fails: no connection or the 30 s timeout, served or not.
SubmitFails(w) ==
    /\ Fault("submit")
    /\ Sleep(w)
    /\ Abandon(w)
    /\ UNCHANGED <<ledgerVars, lastTreeSize, signed, reader>>

\* The witness process is restarted: lastTreeSize is not persisted.
WitnessCrash(w) ==
    /\ Fault("crash")
    /\ pc' = [pc EXCEPT ![w] = "idle"]
    /\ note' = [note EXCEPT ![w] = NoNote]
    /\ reply' = [reply EXCEPT ![w] = "none"]
    /\ lastTreeSize' = [lastTreeSize EXCEPT ![w] = 0]
    /\ Abandon(w)
    /\ UNCHANGED <<ledgerVars, signed, reader>>

-----------------------------------------------------------------------------
(* POST /v1/witness/cosign.                                                *)

\* Mutant: the answer to a POST that was given up on is still taken.
AnswerAlways(p, status) ==
    /\ posts' = posts \ {p}
    /\ reply' = [reply EXCEPT ![p.from] = status]

Answer(p, status) ==
    /\ posts' = posts \ {p}
    /\ reply' = IF p.awaited THEN [reply EXCEPT ![p.from] = status] ELSE reply

\* Mutant: the cosignature is filed under the latest checkpoint.
StoreCosignatureUnderLatest(n) ==
    cosignatures' = cosignatures \cup {[rootHex |-> Latest.root, note |-> n]}

\* INSERT OR IGNORE under the root of the note.
StoreCosignature(n) ==
    cosignatures' = cosignatures \cup {[rootHex |-> n.body.root, note |-> n]}

\* The operator's line is verified; the lines under it are not looked at.
AcceptCosign(n) == OpensForOperator(n) /\ StoreCosignature(n)

HandleCosign(p) ==
    /\ AcceptCosign(p.note)
    /\ Answer(p, "202")
    /\ NoFault
    /\ UNCHANGED <<published, pc, note, lastTreeSize, signed, reader>>

(* The insert fails: a warning is logged and the witness gets its 202 all  *)
(* the same.                                                               *)
HandleCosignUnstored(p) ==
    /\ OpensForOperator(p.note)
    /\ Fault("store")
    /\ Answer(p, "202")
    /\ UNCHANGED <<ledgerVars, pc, note, lastTreeSize, signed, reader>>

(* The body is taken from a single Body.Read, which may return less than   *)
(* all of it: a note cut inside a line does not parse or open; one cut     *)
(* after the operator's line opens, without the witness's.                 *)
HandleCosignShort(p) ==
    /\ Fault("short")
    /\ \/ Answer(p, "400") /\ UNCHANGED cosignatures
       \/ /\ StoreCosignature([p.note EXCEPT !.sigs = KnownSigs(p.note, {Operator})])
          /\ Answer(p, "202")
    /\ UNCHANGED <<published, pc, note, lastTreeSize, signed, reader>>

(* Someone who is no witness posts a note: a body the operator has signed, *)
(* with that line and one in a witness's name, which is one the witness    *)
(* made, for this body or another, or no signature at all.                 *)
HandleCosignOfStranger(body, w, over) ==
    /\ Fault("stranger")
    /\ AcceptCosign([SignCheckpoint(body) EXCEPT !.sigs = @ \cup {SignedBy(w, over)}])
    /\ UNCHANGED <<published, posts, witnessVars, reader>>

-----------------------------------------------------------------------------
(* GET /v1/witness/cosigned-checkpoint.                                    *)

AskCosigned ==
    /\ reader.stage = "none"
    /\ published # <<>>
    /\ reader' = [stage |-> "latest", body |-> Latest]
    /\ UNCHANGED <<ledgerVars, posts, witnessVars, faults>>

GetCosignatures(rootHex) == {row.note : row \in {r \in cosignatures : r.rootHex = rootHex}}

\* The operator's body with every line of every stored note.
MergeCosignatures(n, cosigs) ==
    [n EXCEPT !.sigs = @ \cup UNION {c.sigs : c \in cosigs}]

ServeCosigned ==
    /\ reader.stage = "latest"
    /\ reader' = [stage |-> "served",
                  note |-> MergeCosignatures(SignCheckpoint(reader.body),
                                             GetCosignatures(reader.body.root))]
    /\ UNCHANGED <<ledgerVars, posts, witnessVars, faults>>

\* The reader is done, or the request failed.
ReaderLeaves ==
    /\ reader.stage # "none"
    /\ reader' = NoReader
    /\ UNCHANGED <<ledgerVars, posts, witnessVars, faults>>

-----------------------------------------------------------------------------
Init ==
    /\ published = <<>>
    /\ cosignatures = {}
    /\ posts = {}
    /\ pc = [w \in Witnesses |-> "idle"]
    /\ note = [w \in Witnesses |-> NoNote]
    /\ reply = [w \in Witnesses |-> "none"]
    /\ lastTreeSize = [w \in Witnesses |-> 0]
    /\ signed = [w \in Witnesses |-> {}]
    /\ reader = NoReader
    /\ faults = <<>>

WitnessStep(w) ==
    \/ FetchCheckpoint(w)
    \/ CosignAndSubmit(w)
    \/ Accepted(w)
    \/ Rejected(w)

WitnessFails(w) == SubmitFails(w) \/ WitnessCrash(w)

ServeWitness(w) == \E p \in posts : p.from = w /\ HandleCosign(p)

ServeWitnessBadly == \E p \in posts : HandleCosignUnstored(p) \/ HandleCosignShort(p)

ServeStranger ==
    \E c \in DOMAIN published, w \in Witnesses :
        \E over \in signed[w] \cup {NoBody} : HandleCosignOfStranger(published[c], w, over)

Next ==
    \/ \E body \in Body : Publish(body)
    \/ \E w \in Witnesses :
          WitnessStep(w) \/ FetchNothing(w) \/ WitnessFails(w) \/ ServeWitness(w)
    \/ ServeWitnessBadly
    \/ ServeStranger
    \/ AskCosigned
    \/ ServeCosigned
    \/ ReaderLeaves

(* watch polls while its process runs, and a POST that does not fail is    *)
(* served, each in a goroutine of its own.  Nothing is asked of the        *)
(* builder, one-shot runs or readers.                                      *)
Fairness ==
    \A w \in Watchers : WF_vars(WitnessStep(w)) /\ WF_vars(ServeWitness(w))

Spec == Init /\ [][Next]_vars
FairSpec == Spec /\ Fairness

-----------------------------------------------------------------------------
(* Properties.                                                             *)

Cosigned(w, body) ==
    \E row \in cosignatures :
        row.rootHex = body.root /\ SignedBy(w, body) \in row.note.sigs

\* Someone who is no witness has posted a note.
StrangerPosted == \E i \in DOMAIN faults : faults[i] = "stranger"

\* The line is in a note stored under the root and is not over that note's body.
BadWhenPosted(line, rootHex) ==
    \E n \in GetCosignatures(rootHex) : line \in n.sigs /\ line.body # n.body

(* The combined note the server puts together from separate notes, stored  *)
(* at different times, opens for a reader who knows the operator and every *)
(* witness: putting them together makes no line one over another body than *)
(* its own.  The one thing in the way can be a line that was no good in    *)
(* the note it was posted in, and then not by a witness.                   *)
ServedNoteOpens ==
    reader.stage = "served" =>
        \A first \in FirstSigs(reader.note, Witnesses \cup {Operator}) :
            \/ VerifyCosignedCheckpoint(reader.note, first, Witnesses, 0)
            \/ /\ StrangerPosted
               /\ \E s \in first : BadWhenPosted(s, reader.note.body.root)

(* A k-of-n check means what it says: when VerifyCosignedCheckpoint passes *)
(* with threshold k, at least k witnesses have signed that very body,      *)
(* whoever posted their lines.                                             *)
ThresholdMeansWitnessed ==
    reader.stage = "served" =>
        \A k \in 0 .. Cardinality(Witnesses),
           first \in FirstSigs(reader.note, Witnesses \cup {Operator}) :
            VerifyCosignedCheckpoint(reader.note, first, Witnesses, k) =>
                k <= Cardinality({w \in Witnesses : reader.note.body \in signed[w]})

\* An insert or a read of the body went wrong behind a 202.
FailedUnseen == \E i \in DOMAIN faults : faults[i] \in {"store", "short"}

(* As long as neither an insert nor a read of a body went wrong, a 202 is  *)
(* kept: what the witness is told is accepted can be read back from then   *)
(* on, whatever else is published, posted late or cosigned again.  And     *)
(* watch remembers a size only when its cosignature is with the ledger: a  *)
(* lost answer, one that comes late or a restart makes it cosign again,    *)
(* never skip.                                                             *)
CosignaturesAreKept ==
    FailedUnseen \/
        /\ \A w \in Witnesses : reply[w] = "202" => note[w] # NoNote /\ Cosigned(w, note[w].body)
        /\ \A w \in Watchers : lastTreeSize[w] > 0 =>
              \E c \in DOMAIN published :
                  published[c].size = lastTreeSize[w] /\ Cosigned(w, published[c])

(* A checkpoint that stays the latest and is larger than all before it is  *)
(* cosigned by every watching witness, once the faults have stopped.       *)
LargestEventuallyCosigned ==
    \A w \in Watchers, c \in 1 .. MaxCheckpoints :
        (Len(published) = c /\ \A d \in 1 .. (c - 1) : published[d].size < Latest.size)
            ~> (Len(published) > c \/ FailedUnseen \/ Cosigned(w, Latest))
=============================================================================
