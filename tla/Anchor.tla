------------------------------- MODULE Anchor -------------------------------
(***************************************************************************)
(* The Rekor anchoring scheduler (internal/anchor/scheduler.go and         *)
(* rekor.go): on every tick the latest checkpoint, if its rekor_log_index  *)
(* is still -1, is signed and posted to the Rekor log, and the index that  *)
(* Rekor answers with is written to its row.                               *)
(*                                                                         *)
(* Rekor is external: a public log that numbers its entries from 0 and     *)
(* that others write to.  A POST that the client has given up on may still *)
(* arrive.  Anchor signs with a fresh ECDSA nonce, so that a second POST   *)
(* for the same checkpoint is a new entry and never a duplicate to Rekor.  *)
(* A checkpoint, its payload and the digest of it are named by its row id. *)
(***************************************************************************)
EXTENDS Integers, Sequences, FiniteSets

CONSTANTS
    MaxCheckpoints,  \* bound: checkpoints ever built
    MaxOthers,       \* bound: Rekor entries of others
    FaultKinds,      \* which calls may fail, and "crash"
    MaxFaults        \* bound: faults in a behaviour

ASSUME AnchorAssumption ==
    /\ MaxCheckpoints \in Nat
    /\ MaxOthers \in Nat
    /\ MaxFaults \in Nat

VARIABLES
    rekorIndex,  \* checkpoints.rekor_log_index, by row id
    entries,     \* Rekor's log: logIndex i is entries[i + 1]
    posts,       \* POSTs on their way to Rekor
    answers,     \* answers of Rekor on their way back
    pc,          \* where AnchorOnce stands
    cp,          \* AnchorOnce: the checkpoint it read
    result,      \* AnchorOnce: the index Rekor answered with
    attempts,    \* POSTs sent so far
    faults       \* faults so far

rekorVars == <<entries, posts, answers>>
schedulerVars == <<pc, cp, result>>
vars == <<rekorIndex, entries, posts, answers, pc, cp, result, attempts, faults>>

NotAnchored == -1

\* An entry of somebody else.
Other == 0

Fault(kind) ==
    /\ kind \in FaultKinds
    /\ faults < MaxFaults
    /\ faults' = faults + 1

NoFault == UNCHANGED faults

-----------------------------------------------------------------------------
\* The builder saves a checkpoint: rekor_log_index takes its default.
Publish ==
    /\ Len(rekorIndex) < MaxCheckpoints
    /\ rekorIndex' = Append(rekorIndex, NotAnchored)
    /\ UNCHANGED <<rekorVars, schedulerVars, attempts, faults>>

-----------------------------------------------------------------------------
(* AnchorOnce.                                                             *)

\* Mutant: an index of 0 is taken for "not anchored".
AlreadyAnchoredPositive(c) == rekorIndex[c] > 0

AlreadyAnchored(c) == rekorIndex[c] >= 0

\* Mutant: the oldest checkpoint instead of the latest.
FirstCheckpoint == 1

LatestCheckpoint == Len(rekorIndex)

\* There is a checkpoint, and the latest one is not anchored.
Due == rekorIndex # <<>> /\ ~AlreadyAnchored(LatestCheckpoint)

\* LatestCheckpoint, and Anchor's POST for it.
Post ==
    /\ pc = "idle"
    /\ Due
    /\ pc' = "posted"
    /\ cp' = LatestCheckpoint
    /\ attempts' = attempts + 1
    /\ posts' = posts \cup {[attempt |-> attempts', cp |-> cp']}
    /\ NoFault
    /\ UNCHANGED <<rekorIndex, entries, answers, result>>

\* Nothing to anchor yet, or already anchored.
Skip ==
    /\ pc = "idle"
    /\ ~Due
    /\ UNCHANGED vars

LatestFails ==
    /\ pc = "idle"
    /\ Fault("latest")
    /\ UNCHANGED <<rekorIndex, rekorVars, schedulerVars, attempts>>

\* 201 with the index of the new entry, within the client's timeout.
Receive ==
    /\ pc = "posted"
    /\ \E a \in answers :
          /\ a.attempt = attempts
          /\ result' = a.index
          /\ answers' = answers \ {a}
    /\ pc' = "answered"
    /\ NoFault
    /\ UNCHANGED <<rekorIndex, entries, posts, cp, attempts>>

Return ==
    /\ pc' = "idle"
    /\ cp' = 0
    /\ result' = NotAnchored

(* The POST fails: no connection, the 30 s timeout, another status than    *)
(* 201, or a body that cannot be decoded.                                  *)
PostFails ==
    /\ pc = "posted"
    /\ Fault("post")
    /\ Return
    /\ UNCHANGED <<rekorIndex, rekorVars, attempts>>

\* Mutant: the index is written to the row that is the latest by now.
UpdateLatestRekorIndex ==
    /\ pc = "answered"
    /\ rekorIndex' = [rekorIndex EXCEPT ![LatestCheckpoint] = result]
    /\ Return
    /\ NoFault
    /\ UNCHANGED <<rekorVars, attempts>>

UpdateCheckpointRekorIndex ==
    /\ pc = "answered"
    /\ rekorIndex' = [rekorIndex EXCEPT ![cp] = result]
    /\ Return
    /\ NoFault
    /\ UNCHANGED <<rekorVars, attempts>>

UpdateFails ==
    /\ pc = "answered"
    /\ Fault("update")
    /\ Return
    /\ UNCHANGED <<rekorIndex, rekorVars, attempts>>

\* The process stops, at any point of AnchorOnce, and is started again.
Crash ==
    /\ Fault("crash")
    /\ Return
    /\ UNCHANGED <<rekorIndex, rekorVars, attempts>>

-----------------------------------------------------------------------------
(* Rekor and the network.                                                  *)

\* A POST arrives, is logged and is answered.
RekorLogs(p) ==
    /\ entries' = Append(entries, p.cp)
    /\ posts' = posts \ {p}
    /\ answers' = answers \cup {[attempt |-> p.attempt, index |-> Len(entries)]}
    /\ NoFault
    /\ UNCHANGED <<rekorIndex, schedulerVars, attempts>>

(* A POST or an answer that nobody waits for any more is lost.  (One that  *)
(* is lost while AnchorOnce waits is a PostFails followed by this.)        *)
Lose ==
    /\ \/ \E p \in posts :
             /\ ~(pc = "posted" /\ p.attempt = attempts)
             /\ posts' = posts \ {p}
             /\ UNCHANGED answers
       \/ \E a \in answers :
             /\ ~(pc = "posted" /\ a.attempt = attempts)
             /\ answers' = answers \ {a}
             /\ UNCHANGED posts
    /\ UNCHANGED <<rekorIndex, entries, schedulerVars, attempts, faults>>

OtherLogs ==
    /\ Cardinality({i \in DOMAIN entries : entries[i] = Other}) < MaxOthers
    /\ entries' = Append(entries, Other)
    /\ UNCHANGED <<rekorIndex, posts, answers, schedulerVars, attempts, faults>>

-----------------------------------------------------------------------------
Init ==
    /\ rekorIndex = <<>>
    /\ entries = <<>>
    /\ posts = {}
    /\ answers = {}
    /\ pc = "idle"
    /\ cp = 0
    /\ result = NotAnchored
    /\ attempts = 0
    /\ faults = 0

AnchorOnce ==
    \/ Post
    \/ Receive
    \/ UpdateCheckpointRekorIndex

AnchorOnceFails ==
    \/ LatestFails
    \/ PostFails
    \/ UpdateFails

RekorStep == \E p \in posts : RekorLogs(p)

Next ==
    \/ Publish
    \/ AnchorOnce
    \/ Skip
    \/ AnchorOnceFails
    \/ Crash
    \/ RekorStep
    \/ Lose
    \/ OtherLogs

(* The scheduler ticks while the process runs.  A POST that does not end   *)
(* in an error is logged and answered.                                     *)
Fairness == WF_vars(AnchorOnce) /\ WF_vars(RekorStep)

Spec == Init /\ [][Next]_vars
FairSpec == Spec /\ Fairness

-----------------------------------------------------------------------------
(* Properties.                                                             *)

IsAnchored(c) == c \in DOMAIN rekorIndex /\ rekorIndex[c] # NotAnchored

EntriesOf(c) == {i \in DOMAIN entries : entries[i] = c}

(* A recorded index points at a Rekor entry over that very checkpoint, so  *)
(* that VerifyAnchor of it succeeds, whatever was published, lost, retried *)
(* or answered late in between.                                            *)
RecordedIndexVerifies ==
    \A c \in DOMAIN rekorIndex :
        rekorIndex[c] # NotAnchored => rekorIndex[c] + 1 \in EntriesOf(c)

(* The anchor of a checkpoint is final: rekor_log_index is written once,   *)
(* also when the index is 0.                                               *)
AnchorIsFinal ==
    [][\A c \in DOMAIN rekorIndex :
          rekorIndex[c] # NotAnchored => rekorIndex'[c] = rekorIndex[c]]_rekorIndex

(* A checkpoint that stays the latest is anchored, once the faults have    *)
(* stopped.                                                                *)
LatestEventuallyAnchored ==
    \A c \in 1 .. MaxCheckpoints :
        (Len(rekorIndex) = c) ~> (Len(rekorIndex) > c \/ IsAnchored(c))
=============================================================================
