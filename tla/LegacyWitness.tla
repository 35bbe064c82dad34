--------------------------- MODULE LegacyWitness ----------------------------
(***************************************************************************)
(* The legacy witness protocol: `siqlah-witness cosign --legacy --cp ID`   *)
(* fetches a checkpoint by id, verifies the operator's signature, signs    *)
(* the same payload and posts the signature (cmd/witness/main.go,          *)
(* internal/checkpoint/cosign.go and verify.go); the server keeps one      *)
(* signature per checkpoint and witness and lists them at                  *)
(* GET /v1/checkpoints/{id}/verify (internal/api/checkpoint.go).           *)
(*                                                                         *)
(* The signed payload is the checkpoint's range, size, root and previous   *)
(* root, named by a batch number, and the time it was issued at, formatted *)
(* with nanoseconds.  The issued_at column keeps whole seconds.  A batch   *)
(* whose rows could not be marked is checkpointed again, later.  A server  *)
(* that was given no --operator-key makes up a new one at every start.     *)
(*                                                                         *)
(* The server does not know the witnesses' keys and stores what it is      *)
(* sent: anyone may post any signature under any witness_id.  The cosign   *)
(* command posts under the id --witness-id gives, its public key if none   *)
(* is given, so that one key may use several ids and two keys share one.   *)
(***************************************************************************)
EXTENDS Naturals, Sequences, FiniteSets

CONSTANTS
    Cosigners,       \* the witnesses' keys; a key is also its own default witness_id
    WitnessIds,      \* the witness_ids in use
    TicksPerSecond,  \* the clock is finer than a second
    MaxTicks,        \* bound: the last tick of the clock
    MaxCheckpoints,  \* bound: checkpoints ever built
    MaxServerRuns,   \* bound: starts of the server
    MaxPosts         \* bound: signatures ever posted

ASSUME LegacyAssumption ==
    /\ IsFiniteSet(WitnessIds)
    /\ Cosigners \subseteq WitnessIds
    /\ TicksPerSecond \in Nat \ {0}
    /\ MaxTicks \in Nat
    /\ MaxCheckpoints \in Nat
    /\ MaxServerRuns \in Nat \ {0}
    /\ MaxPosts \in Nat

VARIABLES
    keyGiven,      \* --operator-key is on the command line
    serverRun,     \* starts of the server so far
    clock,         \* time.Now() in ticks, when it was last read
    checkpoints,   \* checkpoints: the row with id i is checkpoints[i]
    builtIn,       \* history: the run of the server that built each row
    witnessSigs,   \* witness_signatures: its rows
    cosigner,      \* where each run of cosign stands
    submissions,   \* POSTs on their way to the server
    posts,         \* signatures posted so far, by the cosign command and by anyone
    told,          \* history: checkpoint, witness_id and key of each cosign answered 201
    contested      \* history: <<checkpoint, witness_id>> that two signatures were sent for

legacyVars ==
    <<keyGiven, serverRun, clock, checkpoints, builtIn, witnessSigs, cosigner,
      submissions, posts, told, contested>>

serverKey == <<keyGiven, serverRun>>
NotRunning == [stage |-> "idle"]

-----------------------------------------------------------------------------
(* Signatures over the payload.                                            *)

Payload(cp) == [batch |-> cp.batch, issuedAt |-> cp.issuedAt]

Sign(key, cp) == [key |-> key, payload |-> Payload(cp)]

Verify(key, cp, sig) == sig = Sign(key, cp)

\* A signature, or some other hex string, that no key of the model made.
Garbled == [key |-> <<"nobody", 0>>, payload |-> [batch |-> 0, issuedAt |-> 0]]

\* The operator's key: the one given, or the one generated at the n-th start.
OperatorOf(n) == <<"operator", IF keyGiven THEN 1 ELSE n>>

VerifyOperatorSignature(cp, operator) == Verify(operator, cp, cp.operatorSig)

VerifyWitness(cp, w, sig) == Verify(w, cp, sig)

-----------------------------------------------------------------------------
(* The clock and the issued_at column.                                     *)

\* Mutant: the time is signed as the clock gives it.
NoTruncation(t) == t

\* now.Truncate(time.Second).
Truncate(t) == (t \div TicksPerSecond) * TicksPerSecond

\* SaveCheckpoint keeps IssuedAt.Unix(); scanCheckpoint reads it back.
Unix(t) == t \div TicksPerSecond

GetCheckpoint(id) ==
    [batch       |-> checkpoints[id].batch,
     issuedAt    |-> checkpoints[id].issuedUnix * TicksPerSecond,
     operatorSig |-> checkpoints[id].operatorSig]

\* BuildAndSign over a new batch, or over an earlier one again, at some later time.
BuildAndSign(batch, time) ==
    LET now == Truncate(time)
    IN  /\ Len(checkpoints) < MaxCheckpoints
        /\ \/ batch = Len(checkpoints) + 1
           \/ \E id \in DOMAIN checkpoints : batch = checkpoints[id].batch
        /\ clock' = time
        /\ checkpoints' =
              Append(checkpoints,
                     [batch       |-> batch,
                      issuedUnix  |-> Unix(now),
                      operatorSig |-> Sign(OperatorOf(serverRun),
                                           [batch |-> batch, issuedAt |-> now])])
        /\ builtIn' = Append(builtIn, serverRun)
        /\ UNCHANGED <<serverKey, witnessSigs, cosigner, submissions, posts, told, contested>>

-----------------------------------------------------------------------------
(* siqlah-witness cosign --legacy.                                         *)

\* The witness's signature, if the operator's verifies under the key it was given.
CoSign(cp, operator, w) ==
    IF VerifyOperatorSignature(cp, operator) THEN {Sign(w, cp)} ELSE {}

(* fetchCheckpoint, CoSign and the POST, under the id --witness-id gives.  *)
(* A row of the checkpoints table does not change in the columns that are  *)
(* signed, so that nothing can come between the fetch and the POST.        *)
(* --op-pub is a key the operator has shown at one of its starts; under    *)
(* another one the command fails.                                          *)
RunCosign(w, wid, id, run) ==
    /\ cosigner[w] = NotRunning
    /\ posts < MaxPosts /\ posts' = posts + 1
    /\ cosigner' = [cosigner EXCEPT ![w] = [stage |-> "posted", id |-> id, witness |-> wid]]
    /\ \E sig \in CoSign(GetCheckpoint(id), OperatorOf(run), w) :
          submissions' =
              submissions \cup {[id |-> id, witness |-> wid, sig |-> sig, from |-> w]}
    /\ UNCHANGED <<serverKey, clock, checkpoints, builtIn, witnessSigs, told, contested>>

\* The POST is not answered; it may arrive later or never.
CosignFails(w) ==
    /\ cosigner[w] # NotRunning
    /\ cosigner' = [cosigner EXCEPT ![w] = NotRunning]
    /\ \/ UNCHANGED submissions
       \/ submissions' = {s \in submissions : s.from # w}
    /\ UNCHANGED <<serverKey, clock, checkpoints, builtIn, witnessSigs, posts, told,
                   contested>>

-----------------------------------------------------------------------------
(* POST /v1/checkpoints/{id}/witness.                                      *)

\* Mutant: one signature per checkpoint.
AddWitnessSignatureOnlyOne(id, wid, sig) ==
    witnessSigs' = {r \in witnessSigs : r.id # id}
                       \cup {[id |-> id, witness |-> wid, sig |-> sig]}

\* INSERT ... ON CONFLICT (checkpoint_id, witness_id) DO UPDATE.
AddWitnessSignature(id, wid, sig) ==
    witnessSigs' = {r \in witnessSigs : r.id # id \/ r.witness # wid}
                       \cup {[id |-> id, witness |-> wid, sig |-> sig]}

\* The signature is stored as it comes, for a checkpoint there is.
HandleWitnessSubmit(id, wid, sig) ==
    /\ id \in DOMAIN checkpoints
    /\ AddWitnessSignature(id, wid, sig)
    /\ contested' =
          IF \E r \in witnessSigs : r.id = id /\ r.witness = wid /\ r.sig # sig
          THEN contested \cup {<<id, wid>>} ELSE contested
    /\ UNCHANGED <<serverKey, clock, checkpoints, builtIn>>

(* A POST of the cosign command arrives, and the command is told if it     *)
(* waits.  (Signing is deterministic: a repeated POST is the same POST.)   *)
SubmitCosignature(s) ==
    LET waiting == cosigner[s.from] = [stage |-> "posted", id |-> s.id, witness |-> s.witness]
    IN  /\ HandleWitnessSubmit(s.id, s.witness, s.sig)
        /\ submissions' = submissions \ {s}
        /\ told' = IF waiting
                   THEN told \cup {[id |-> s.id, witness |-> s.witness, key |-> s.from]}
                   ELSE told
        /\ cosigner' = IF waiting THEN [cosigner EXCEPT ![s.from] = NotRunning] ELSE cosigner
        /\ UNCHANGED posts

(* Anyone posts under any witness_id: something that is no signature of    *)
(* this checkpoint, or one the server lists, for another checkpoint or     *)
(* under another id.                                                       *)
SubmitAnything(id, wid, sig) ==
    /\ posts < MaxPosts /\ posts' = posts + 1
    /\ HandleWitnessSubmit(id, wid, sig)
    /\ UNCHANGED <<cosigner, submissions, told>>

-----------------------------------------------------------------------------
(* GET /v1/checkpoints/{id}/verify: the row, which does not change, and    *)
(* then the signatures stored for it.                                      *)
HandleVerifyCheckpoint(id) ==
    [operatorValid |-> VerifyOperatorSignature(GetCheckpoint(id), OperatorOf(serverRun)),
     witnesses     |-> {r \in witnessSigs : r.id = id}]

\* siqlah-witness verify --legacy: the row, under --op-pub, and the endpoint's list.
RunVerify(id, operator) ==
    [operatorSig |-> VerifyOperatorSignature(GetCheckpoint(id), operator),
     witnesses   |-> Cardinality(HandleVerifyCheckpoint(id).witnesses)]

-----------------------------------------------------------------------------
(* The server is started again.  What it had not answered fails at the     *)
(* client; the key changes unless it was given.                            *)
RestartServer ==
    /\ serverRun < MaxServerRuns
    /\ serverRun' = serverRun + 1
    /\ submissions' = {}
    /\ UNCHANGED <<keyGiven, clock, checkpoints, builtIn, witnessSigs, cosigner, posts, told,
                   contested>>

-----------------------------------------------------------------------------
LegacyInit ==
    /\ keyGiven \in BOOLEAN
    /\ serverRun = 1
    /\ clock = 0
    /\ checkpoints = <<>>
    /\ builtIn = <<>>
    /\ witnessSigs = {}
    /\ cosigner = [w \in Cosigners |-> NotRunning]
    /\ submissions = {}
    /\ posts = 0
    /\ told = {}
    /\ contested = {}

LegacyNext ==
    \/ \E batch \in 1 .. MaxCheckpoints, time \in clock .. MaxTicks : BuildAndSign(batch, time)
    \/ \E w \in Cosigners :
          \/ \E wid \in WitnessIds, id \in DOMAIN checkpoints, run \in 1 .. serverRun :
                RunCosign(w, wid, id, run)
          \/ CosignFails(w)
    \/ \E s \in submissions : SubmitCosignature(s)
    \/ \E id \in DOMAIN checkpoints, wid \in WitnessIds,
         sig \in {Garbled} \cup {r.sig : r \in witnessSigs} : SubmitAnything(id, wid, sig)
    \/ RestartServer

LegacySpec == LegacyInit /\ [][LegacyNext]_legacyVars

-----------------------------------------------------------------------------
(* Properties.                                                             *)

(* What the verify endpoint says of the operator holds up.  The signature  *)
(* is shown as valid, on the row as it is read back, exactly for the       *)
(* checkpoints signed with the key of this run: for all of them only if    *)
(* the key was given.  A client of `verify --legacy` that kept the key of  *)
(* an earlier run finds the checkpoints of that run valid, and no other.   *)
VerifyEndpointVouches ==
    \A id \in DOMAIN checkpoints :
        /\ HandleVerifyCheckpoint(id).operatorValid <=> (keyGiven \/ builtIn[id] = serverRun)
        /\ \A run \in 1 .. serverRun :
              RunVerify(id, OperatorOf(run)).operatorSig <=> (keyGiven \/ builtIn[id] = run)

(* What a cosign command that reported success can count on.  Something    *)
(* stays listed for that checkpoint under the witness_id it used, whatever *)
(* anyone submits; and unless another signature was sent for the same      *)
(* checkpoint and witness_id (by another key that shares the id, or by     *)
(* anyone: the server lets it replace the first) it is the witness's own   *)
(* and verifies on the row as it is read back, also after a restart with   *)
(* another operator key and when the batch was checkpointed twice.  The    *)
(* number `verify --legacy` reports counts each of those witness_ids, and  *)
(* none of them twice: it is a number of ids, not of keys.                 *)
AcknowledgedCosignatureKept ==
    /\ \A t \in told :
          \E r \in HandleVerifyCheckpoint(t.id).witnesses :
              /\ r.witness = t.witness
              /\ <<t.id, t.witness>> \notin contested =>
                    VerifyWitness(GetCheckpoint(t.id), t.key, r.sig)
    /\ \A id \in DOMAIN checkpoints :
          RunVerify(id, OperatorOf(serverRun)).witnesses
              \in Cardinality({t.witness : t \in {u \in told : u.id = id}})
                    .. Cardinality(WitnessIds)
=============================================================================
