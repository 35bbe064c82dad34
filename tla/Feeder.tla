------------------------------- MODULE Feeder -------------------------------
(***************************************************************************)
(* The witness feeder (internal/witness/feeder.go): a checkpoint of the    *)
(* log is pushed to every external tlog-witness in turn, each with the     *)
(* tree size it is thought to have cosigned last.  These sizes are kept in *)
(* memory.                                                                 *)
(*                                                                         *)
(* The witnesses and the HTTP client are external.  A witness cosigns when *)
(* it is told its own size and given the consistency proof from there; it  *)
(* answers 409 with its size when told another, and with an error and no   *)
(* size when the proof is wrong.  What it returns on success may be a full *)
(* note or signature lines only, which ParseCheckpoint does not accept.    *)
(* The feeder has no caller in the repository: the caller is any that      *)
(* feeds the latest checkpoint, whenever it likes, with the proof from     *)
(* some earlier size.  A proof is named by the size it starts from; 0 is   *)
(* the empty proof.                                                        *)
(***************************************************************************)
EXTENDS Naturals, Sequences

CONSTANTS
    ExternalWitnesses,  \* the configured witnesses, in order
    BadURL,             \* the ones whose URL does not parse
    MaxTree,            \* bound: the size of the log
    MaxFeedFaults       \* bound: calls given up on, and restarts

FedWitnesses == {ExternalWitnesses[i] : i \in DOMAIN ExternalWitnesses}

ASSUME FeederAssumption ==
    /\ ExternalWitnesses \in Seq(FedWitnesses)
    /\ BadURL \subseteq FedWitnesses
    /\ MaxTree \in Nat
    /\ MaxFeedFaults \in Nat

VARIABLES
    treeSize,    \* the size of the log's latest checkpoint
    lastSizes,   \* WitnessFeeder.lastSizes; 0 for a name not in the map
    feed,        \* the call of Feed that is under way
    requests,    \* requests on their way to a witness
    cosigned,    \* the tree size each witness cosigned last
    feedFaults   \* faults so far

feederVars == <<treeSize, lastSizes, feed, requests, cosigned, feedFaults>>

NotFeeding == [stage |-> "idle"]

-----------------------------------------------------------------------------
LogGrows ==
    /\ treeSize < MaxTree
    /\ treeSize' = treeSize + 1
    /\ UNCHANGED <<lastSizes, feed, requests, cosigned, feedFaults>>

\* Feed is called with the latest checkpoint and one proof for all witnesses.
Feed(from) ==
    /\ feed = NotFeeding
    /\ from < treeSize
    /\ feed' = [stage |-> "next", todo |-> ExternalWitnesses, size |-> treeSize,
                from |-> from, results |-> [w \in FedWitnesses |-> "none"]]
    /\ UNCHANGED <<treeSize, lastSizes, requests, cosigned, feedFaults>>

\* Feed has called feedOne for every witness and returns the results.
FeedReturns ==
    /\ feed.stage = "next"
    /\ feed.todo = <<>>
    /\ feed' = NotFeeding
    /\ UNCHANGED <<treeSize, lastSizes, requests, cosigned, feedFaults>>

-----------------------------------------------------------------------------
(* feedOne.                                                                *)

\* The request for witness w.
Request(w) ==
    [witness |-> w, old |-> lastSizes[w], size |-> feed.size, from |-> feed.from]

\* feedOne returns a result, and the loop goes on to the next witness.
FeedOneReturns(result) ==
    feed' = [stage |-> "next", todo |-> Tail(feed.todo), size |-> feed.size,
             from |-> feed.from,
             results |-> [feed.results EXCEPT ![Head(feed.todo)] = result]]

InvalidURL ==
    /\ feed.stage = "next"
    /\ feed.todo # <<>>
    /\ Head(feed.todo) \in BadURL
    /\ FeedOneReturns("error")
    /\ UNCHANGED <<treeSize, lastSizes, requests, cosigned, feedFaults>>

\* Mutant: the new size is cached when the request is sent.
UpdateCachesAtOnce ==
    /\ feed.stage = "next"
    /\ feed.todo # <<>>
    /\ LET w == Head(feed.todo)
       IN  /\ w \notin BadURL
           /\ feed' = [feed EXCEPT !.stage = "sent"]
           /\ requests' = requests \cup {Request(w)}
           /\ lastSizes' = [lastSizes EXCEPT ![w] = feed.size]
    /\ UNCHANGED <<treeSize, cosigned, feedFaults>>

\* wc.Update posts the checkpoint.
Update ==
    /\ feed.stage = "next"
    /\ feed.todo # <<>>
    /\ LET w == Head(feed.todo)
       IN  /\ w \notin BadURL
           /\ feed' = [feed EXCEPT !.stage = "sent"]
           /\ requests' = requests \cup {Request(w)}
    /\ UNCHANGED <<treeSize, lastSizes, cosigned, feedFaults>>

\* wc.Update returns the answer of the witness.
Answered ==
    /\ feed.stage = "answered"
    /\ FeedOneReturns(IF feed.answer.ok THEN "cosigned" ELSE "error")
    /\ UNCHANGED <<treeSize, requests, cosigned, feedFaults>>

\* Mutant: the size in a conflict is not cached.
FeedOneForgetsConflict ==
    /\ Answered
    /\ lastSizes' = IF feed.answer.ok /\ feed.answer.size > 0
                    THEN [lastSizes EXCEPT ![Head(feed.todo)] = feed.answer.size]
                    ELSE lastSizes

(* An error with a size is a conflict: the size is cached.  Without an     *)
(* error, the size is cached if the bytes parse as a checkpoint.           *)
FeedOne ==
    /\ Answered
    /\ lastSizes' = IF feed.answer.size > 0
                    THEN [lastSizes EXCEPT ![Head(feed.todo)] = feed.answer.size]
                    ELSE lastSizes

(* No connection or the 30 s timeout: an error without a size.  The        *)
(* request, or the answer to it, may be on its way.                        *)
UpdateTimesOut ==
    /\ feedFaults < MaxFeedFaults
    /\ feedFaults' = feedFaults + 1
    /\ feed.stage \in {"sent", "answered"}
    /\ FeedOneReturns("error")
    /\ UNCHANGED <<treeSize, lastSizes, requests, cosigned>>

\* The process is started again: NewWitnessFeeder.
FeederRestart ==
    /\ feedFaults < MaxFeedFaults
    /\ feedFaults' = feedFaults + 1
    /\ feed' = NotFeeding
    /\ lastSizes' = [w \in FedWitnesses |-> 0]
    /\ UNCHANGED <<treeSize, requests, cosigned>>

-----------------------------------------------------------------------------
(* The witnesses and the network.                                          *)

\* Is the proof the one from old to size?
RightProof(r) ==
    IF r.old \in {0, r.size} THEN r.from = 0 ELSE r.from = r.old

Accepts(r) ==
    /\ r.old = cosigned[r.witness]
    /\ r.old <= r.size
    /\ RightProof(r)

\* The note or signature lines only; 409 with the size; another error.
AnswersTo(r) ==
    IF Accepts(r) THEN {[ok |-> TRUE, size |-> r.size], [ok |-> TRUE, size |-> 0]}
    ELSE IF r.old # cosigned[r.witness]
    THEN {[ok |-> FALSE, size |-> cosigned[r.witness]]}
    ELSE {[ok |-> FALSE, size |-> 0]}

Awaited(r) == feed.stage = "sent" /\ r = Request(Head(feed.todo))

WitnessHandles(r) ==
    /\ requests' = requests \ {r}
    /\ cosigned' = IF Accepts(r) THEN [cosigned EXCEPT ![r.witness] = r.size] ELSE cosigned
    /\ IF Awaited(r)
       THEN \E a \in AnswersTo(r) :
               feed' = [stage |-> "answered", todo |-> feed.todo, size |-> feed.size,
                        from |-> feed.from, results |-> feed.results, answer |-> a]
       ELSE UNCHANGED feed
    /\ UNCHANGED <<treeSize, lastSizes, feedFaults>>

\* A request that nobody waits for any more is lost.
RequestLost(r) ==
    /\ ~Awaited(r)
    /\ requests' = requests \ {r}
    /\ UNCHANGED <<treeSize, lastSizes, feed, cosigned, feedFaults>>

-----------------------------------------------------------------------------
FeederInit ==
    /\ treeSize = 0
    /\ lastSizes = [w \in FedWitnesses |-> 0]
    /\ feed = NotFeeding
    /\ requests = {}
    /\ cosigned = [w \in FedWitnesses |-> 0]
    /\ feedFaults = 0

FeedStep == FeedReturns \/ InvalidURL \/ Update \/ FeedOne

WitnessStep == \E r \in requests : WitnessHandles(r)

FeederNext ==
    \/ LogGrows
    \/ \E from \in 0 .. MaxTree : Feed(from)
    \/ FeedStep
    \/ UpdateTimesOut
    \/ FeederRestart
    \/ WitnessStep
    \/ \E r \in requests : RequestLost(r)

(* A call of Feed that was made runs to its end, and a witness that has    *)
(* the request answers it, or the call is given up on (UpdateTimesOut).    *)
(* Nothing is asked of the caller: Feed may never be called again.         *)
FeederFairness ==
    /\ WF_feederVars(FeedStep)
    /\ WF_feederVars(WitnessStep)

FeederSpec == FeederInit /\ [][FeederNext]_feederVars
FeederFairSpec == FeederSpec /\ FeederFairness

-----------------------------------------------------------------------------
(* Properties.                                                             *)

(* What the feeder says of a witness is so: the cached size is never ahead *)
(* of what the witness cosigned, and a result without an error means that  *)
(* the witness did cosign this checkpoint, after lost answers, late        *)
(* requests and restarts.                                                  *)
FeederKnowsWitness ==
    /\ \A w \in FedWitnesses : lastSizes[w] <= cosigned[w]
    /\ feed # NotFeeding =>
          \A w \in FedWitnesses :
              feed.results[w] = "cosigned" => cosigned[w] >= feed.size

\* Witness w has its turn still to come in a call of Feed for size n, undisturbed.
AwaitsTurn(w, n, faults) ==
    /\ feed.stage = "next"
    /\ feed.size = n
    /\ \E i \in DOMAIN feed.todo : feed.todo[i] = w
    /\ \A r \in requests : r.witness # w
    /\ feedFaults = faults

(* What one call of Feed does for a witness in reach, whatever becomes of  *)
(* the others before it in the list.  If the cached size is the witness's  *)
(* own and the proof starts there, the witness cosigns.  And if it does    *)
(* not cosign, the call leaves the cached size right: after a restart, a   *)
(* lost answer or a note that did not parse, the conflict corrects it for  *)
(* the next call.  A timeout or a restart during the call is excepted.     *)
FeedServesWitness ==
    \A w \in FedWitnesses \ BadURL, n \in 1 .. MaxTree, k \in 0 .. MaxFeedFaults :
        /\ (/\ AwaitsTurn(w, n, k)
            /\ lastSizes[w] = cosigned[w]
            /\ RightProof([old |-> lastSizes[w], size |-> n, from |-> feed.from]))
              ~> (cosigned[w] >= n \/ feedFaults > k)
        /\ AwaitsTurn(w, n, k)
              ~> (cosigned[w] >= n \/ lastSizes[w] = cosigned[w] \/ feedFaults > k)
=============================================================================
