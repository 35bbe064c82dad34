-------------------------- MODULE PublishingProofs --------------------------
(***************************************************************************)
(* What the two ways in which checkpoints leave the ledger promise, proved *)
(* for every number of checkpoints, witnesses, faults and log sizes: the   *)
(* Rekor scheduler (Anchor) and the witness feeder (Feeder).               *)
(***************************************************************************)
EXTENDS Anchor, Feeder, TLAPS

-----------------------------------------------------------------------------
(* The feeder.                                                             *)

FedSizes == [FedWitnesses -> Nat]

FeedResults == [FedWitnesses -> {"none", "error", "cosigned"}]

\* A call of Feed between two witnesses, or waiting for an answer.
FeedsPending ==
    [stage : {"next", "sent"}, todo : Seq(FedWitnesses), size : Nat, from : Nat,
     results : FeedResults]

\* A call of Feed that has got an answer.
FeedsAnswered ==
    [stage : {"answered"}, todo : Seq(FedWitnesses), size : Nat, from : Nat,
     results : FeedResults, answer : [ok : BOOLEAN, size : Nat]]

FeederTypeOK ==
    /\ treeSize \in Nat
    /\ lastSizes \in FedSizes
    /\ cosigned \in FedSizes
    /\ feed \in {NotFeeding} \cup FeedsPending \cup FeedsAnswered
    /\ requests \subseteq [witness : FedWitnesses, old : Nat, size : Nat, from : Nat]

\* feedOne is inside wc.Update for the first witness that is left.
HasWitness == feed.stage \in {"sent", "answered"} => feed.todo # <<>>

\* What the witness answered is so: it has cosigned as much as it says.
AnswerIsTrue ==
    feed.stage = "answered" =>
        /\ feed.answer.size <= cosigned[Head(feed.todo)]
        /\ feed.answer.ok => feed.size <= cosigned[Head(feed.todo)]

FeederInv ==
    /\ FeederTypeOK
    /\ HasWitness
    /\ AnswerIsTrue
    /\ FeederKnowsWitness

(* The fields of the call that is under way.                               *)
LEMMA FeedFields ==
    ASSUME FeederInv, feed.stage # "idle"
    PROVE  /\ feed # NotFeeding
           /\ feed.todo \in Seq(FedWitnesses)
           /\ feed.size \in Nat
           /\ feed.from \in Nat
           /\ feed.results \in FeedResults
           /\ feed.stage = "answered" => feed.answer \in [ok : BOOLEAN, size : Nat]
           /\ feed.stage # "answered" => feed \in FeedsPending
           /\ feed.todo # <<>> => /\ Head(feed.todo) \in FedWitnesses
                                  /\ Tail(feed.todo) \in Seq(FedWitnesses)
  <1>1. feed # NotFeeding
    BY DEF NotFeeding
  <1>2. feed \in FeedsPending \/ feed \in FeedsAnswered
    BY <1>1 DEF FeederInv, FeederTypeOK
  <1>3. feed.todo \in Seq(FedWitnesses)
    BY <1>2 DEF FeedsPending, FeedsAnswered
  <1>4. QED
    BY <1>1, <1>2, <1>3 DEF FeedsPending, FeedsAnswered

(* feedOne returns: the witness that was first is done, and its result is  *)
(* "cosigned" only if the caller shows that it did cosign.                 *)
LEMMA FeedOneReturnsKeepsInv ==
    ASSUME FeederInv, feed.stage # "idle", feed.todo # <<>>,
           NEW res \in {"error", "cosigned"}, FeedOneReturns(res),
           res = "cosigned" => feed.size <= cosigned[Head(feed.todo)],
           UNCHANGED <<treeSize, requests, cosigned>>,
           lastSizes' \in FedSizes,
           \A w \in FedWitnesses : lastSizes'[w] <= cosigned[w]
    PROVE  FeederInv'
  <1>1. feed' \in FeedsPending /\ feed'.stage = "next"
    BY FeedFields DEF FeedOneReturns, FeedsPending, FeedResults
  <1>2. FeederTypeOK'
    BY <1>1 DEF FeederInv, FeederTypeOK
  <1>3. HasWitness' /\ AnswerIsTrue'
    BY <1>1 DEF HasWitness, AnswerIsTrue
  <1>4. ASSUME NEW w \in FedWitnesses, feed'.results[w] = "cosigned"
        PROVE  cosigned'[w] >= feed'.size
    <2>1. feed'.size = feed.size
      BY DEF FeedOneReturns
    <2>2. feed'.results[w] = IF w = Head(feed.todo) THEN res ELSE feed.results[w]
      BY FeedFields DEF FeedOneReturns, FeedResults
    <2>3. CASE w = Head(feed.todo)
      BY <1>4, <2>1, <2>2, <2>3, FeedFields DEF FeederInv, FeederTypeOK, FedSizes
    <2>4. CASE w # Head(feed.todo)
      BY <1>4, <2>1, <2>2, <2>4, FeedFields DEF FeederInv, FeederKnowsWitness
    <2>5. QED
      BY <2>3, <2>4
  <1>5. FeederKnowsWitness'
    BY <1>4 DEF FeederKnowsWitness
  <1>6. QED
    BY <1>2, <1>3, <1>5 DEF FeederInv

(* A call begins with no results, and a call ends.                         *)
LEMMA FeedCallKeepsInv ==
    ASSUME FeederInv,
           FeedReturns \/ LogGrows \/ FeederRestart
             \/ \E from \in 0 .. MaxTree : Feed(from)
    PROVE  FeederInv'
  <1> USE FeederAssumption
  <1>1. CASE LogGrows
    BY <1>1 DEF LogGrows, FeederInv, FeederTypeOK, HasWitness, AnswerIsTrue,
                FeederKnowsWitness
  <1>2. CASE FeedReturns
    BY <1>2 DEF FeedReturns, FeederInv, FeederTypeOK, HasWitness, AnswerIsTrue,
                FeederKnowsWitness, NotFeeding
  <1>3. CASE FeederRestart
    <2>1. lastSizes' \in FedSizes /\ \A w \in FedWitnesses : lastSizes'[w] <= cosigned'[w]
      BY <1>3 DEF FeederRestart, FeederInv, FeederTypeOK, FedSizes
    <2>2. QED
      BY <1>3, <2>1 DEF FeederRestart, FeederInv, FeederTypeOK, HasWitness, AnswerIsTrue,
                        FeederKnowsWitness, NotFeeding
  <1>4. ASSUME NEW from \in 0 .. MaxTree, Feed(from)
        PROVE  FeederInv'
    <2>1. feed' \in FeedsPending /\ feed'.stage = "next"
      BY <1>4 DEF Feed, FeedsPending, FeedResults, FeederInv, FeederTypeOK
    <2>2. \A w \in FedWitnesses : feed'.results[w] = "none"
      BY <1>4 DEF Feed
    <2>3. QED
      BY <1>4, <2>1, <2>2 DEF Feed, FeederInv, FeederTypeOK, HasWitness, AnswerIsTrue,
                              FeederKnowsWitness
  <1>5. QED
    BY <1>1, <1>2, <1>3, <1>4

(* A request is sent: the results and the sizes stay.                      *)
LEMMA UpdateKeepsInv ==
    ASSUME FeederInv, Update
    PROVE  FeederInv'
  <1> DEFINE w == Head(feed.todo)
  <1>1. feed \in FeedsPending /\ w \in FedWitnesses
    BY FeedFields DEF Update
  <1>2. feed' = [feed EXCEPT !.stage = "sent"]
    BY DEF Update
  <1>3. /\ feed' \in FeedsPending
        /\ feed'.stage = "sent"
        /\ feed'.todo = feed.todo
        /\ feed'.size = feed.size
        /\ feed'.results = feed.results
    BY <1>1, <1>2 DEF FeedsPending
  <1>4. Request(w) \in [witness : FedWitnesses, old : Nat, size : Nat, from : Nat]
    BY <1>1 DEF Request, FeederInv, FeederTypeOK, FedSizes, FeedsPending
  <1>5. requests' \subseteq [witness : FedWitnesses, old : Nat, size : Nat, from : Nat]
    BY <1>4 DEF Update, FeederInv, FeederTypeOK
  <1>6. FeederTypeOK'
    BY <1>3, <1>5 DEF Update, FeederInv, FeederTypeOK
  <1>7. HasWitness' /\ AnswerIsTrue'
    BY <1>3 DEF Update, HasWitness, AnswerIsTrue
  <1>8. FeederKnowsWitness'
    BY <1>3, FeedFields DEF Update, FeederInv, FeederKnowsWitness
  <1>9. QED
    BY <1>6, <1>7, <1>8 DEF FeederInv

(* feedOne returns with an error or with the answer of the witness.        *)
LEMMA FeedOneKeepsInv ==
    ASSUME FeederInv, InvalidURL \/ FeedOne \/ UpdateTimesOut
    PROVE  FeederInv'
  <1>1. CASE InvalidURL \/ UpdateTimesOut
    <2>1. feed.stage # "idle" /\ feed.todo # <<>>
      BY <1>1 DEF InvalidURL, UpdateTimesOut, FeederInv, HasWitness
    <2>2. FeedOneReturns("error") /\ UNCHANGED <<treeSize, lastSizes, requests, cosigned>>
      BY <1>1 DEF InvalidURL, UpdateTimesOut
    <2>3. QED
      BY <2>1, <2>2, FeedOneReturnsKeepsInv DEF FeederInv, FeederTypeOK, FeederKnowsWitness
  <1>2. CASE FeedOne
    <2> DEFINE w == Head(feed.todo)
               res == IF feed.answer.ok THEN "cosigned" ELSE "error"
    <2>1. feed.stage = "answered" /\ feed.todo # <<>>
      BY <1>2 DEF FeedOne, Answered, FeederInv, HasWitness
    <2>2. w \in FedWitnesses /\ feed.answer.size \in Nat /\ feed.answer.ok \in BOOLEAN
      BY <2>1, FeedFields
    <2>3. feed.answer.size <= cosigned[w] /\ (feed.answer.ok => feed.size <= cosigned[w])
      BY <2>1 DEF FeederInv, AnswerIsTrue
    <2>4. FeedOneReturns(res) /\ UNCHANGED <<treeSize, requests, cosigned>>
      BY <1>2 DEF FeedOne, Answered
    <2>5. lastSizes' \in FedSizes
      BY <1>2, <2>2 DEF FeedOne, FeederInv, FeederTypeOK, FedSizes
    <2>6. \A v \in FedWitnesses : lastSizes'[v] <= cosigned[v]
      BY <1>2, <2>2, <2>3 DEF FeedOne, FeederInv, FeederTypeOK, FedSizes, FeederKnowsWitness
    <2>7. res \in {"error", "cosigned"} /\ (res = "cosigned" => feed.size <= cosigned[w])
      BY <2>2, <2>3
    <2> HIDE DEF res
    <2>8. QED
      BY <2>1, <2>4, <2>5, <2>6, <2>7, FeedOneReturnsKeepsInv
  <1>3. QED
    BY <1>1, <1>2

(* The answers of a witness are such records.                              *)
LEMMA AnswerRecords ==
    /\ 0 \in Nat
    /\ \A n \in Nat, b \in BOOLEAN : [ok |-> b, size |-> n] \in [ok : BOOLEAN, size : Nat]
  OBVIOUS

(* A witness never goes back, and an answer that is awaited is true.       *)
LEMMA WitnessHandlesKeepsInv ==
    ASSUME FeederInv, NEW r \in requests, WitnessHandles(r)
    PROVE  FeederInv'
  <1>1. r \in [witness : FedWitnesses, old : Nat, size : Nat, from : Nat]
    BY DEF FeederInv, FeederTypeOK
  <1>2. /\ cosigned' \in FedSizes
        /\ \A w \in FedWitnesses : /\ cosigned[w] \in Nat
                                    /\ cosigned'[w] \in Nat
                                    /\ cosigned[w] <= cosigned'[w]
    BY <1>1 DEF WitnessHandles, Accepts, FeederInv, FeederTypeOK, FedSizes
  <1>3. Accepts(r) => cosigned'[r.witness] = r.size
    BY <1>1 DEF WitnessHandles, FeederInv, FeederTypeOK, FedSizes
  <1>4. requests' \subseteq [witness : FedWitnesses, old : Nat, size : Nat, from : Nat]
    BY DEF WitnessHandles, FeederInv, FeederTypeOK
  <1>5. \A w \in FedWitnesses : lastSizes'[w] <= cosigned'[w]
    BY <1>2 DEF WitnessHandles, FeederInv, FeederTypeOK, FedSizes, FeederKnowsWitness
  <1>6. CASE Awaited(r)
    <2> DEFINE h == Head(feed.todo)
    <2>1. feed.stage = "sent" /\ r = Request(h) /\ feed.todo # <<>>
      BY <1>6 DEF Awaited, FeederInv, HasWitness
    <2>2. r.witness = h /\ r.size = feed.size /\ h \in FedWitnesses
      BY <2>1, FeedFields DEF Request
    <2>3. PICK a \in AnswersTo(r) :
             feed' = [stage |-> "answered", todo |-> feed.todo, size |-> feed.size,
                      from |-> feed.from, results |-> feed.results, answer |-> a]
      BY <1>6 DEF WitnessHandles
    <2>4. /\ a \in [ok : BOOLEAN, size : Nat]
          /\ a.size <= cosigned'[h]
          /\ a.ok => r.size <= cosigned'[h]
      <3>1. r.size \in Nat /\ cosigned[h] \in Nat /\ cosigned'[h] \in Nat
        BY <1>1, <1>2, <2>2
      <3>2. CASE Accepts(r)
        <4>1. a = [ok |-> TRUE, size |-> r.size] \/ a = [ok |-> TRUE, size |-> 0]
          BY <2>3, <3>2 DEF AnswersTo
        <4>2. a \in [ok : BOOLEAN, size : Nat]
          BY <3>1, <4>1, AnswerRecords, Zenon
        <4>3. a.size <= cosigned'[h] /\ r.size <= cosigned'[h]
          BY <1>3, <2>2, <3>1, <3>2, <4>1
        <4>4. QED
          BY <4>2, <4>3
      <3>3. CASE ~Accepts(r)
        <4>1. a = [ok |-> FALSE, size |-> cosigned[h]] \/ a = [ok |-> FALSE, size |-> 0]
          BY <2>2, <2>3, <3>3 DEF AnswersTo
        <4>2. a \in [ok : BOOLEAN, size : Nat]
          BY <3>1, <4>1, AnswerRecords, Zenon
        <4>3. a.size <= cosigned'[h] /\ ~a.ok
          BY <1>2, <2>2, <3>1, <4>1
        <4>4. QED
          BY <4>2, <4>3
      <3>4. QED
        BY <3>2, <3>3
    <2>6. feed' \in FeedsAnswered /\ feed'.stage = "answered"
      BY <2>1, <2>3, <2>4, FeedFields DEF FeedsAnswered
    <2>7. FeederTypeOK'
      BY <1>2, <1>4, <2>6 DEF WitnessHandles, FeederInv, FeederTypeOK
    <2>8. HasWitness' /\ AnswerIsTrue'
      BY <2>1, <2>2, <2>3, <2>4, <2>6 DEF HasWitness, AnswerIsTrue
    <2>9. ASSUME NEW w \in FedWitnesses, feed'.results[w] = "cosigned"
          PROVE  cosigned'[w] >= feed'.size
      <3>1. feed'.size = feed.size /\ feed.results[w] = "cosigned"
        BY <2>3, <2>9
      <3>2. feed # NotFeeding /\ feed.size \in Nat
        BY <2>1, FeedFields
      <3>3. QED
        BY <1>2, <3>1, <3>2 DEF FeederInv, FeederKnowsWitness
    <2>10. QED
      BY <1>5, <2>7, <2>8, <2>9 DEF FeederInv, FeederKnowsWitness
  <1>7. CASE ~Awaited(r)
    <2>1. feed' = feed
      BY <1>7 DEF WitnessHandles
    <2>2. FeederTypeOK'
      BY <1>2, <1>4, <2>1 DEF WitnessHandles, FeederInv, FeederTypeOK
    <2>3. HasWitness'
      BY <2>1 DEF FeederInv, HasWitness
    <2>4. AnswerIsTrue'
      <3> SUFFICES ASSUME feed.stage = "answered"
                   PROVE  AnswerIsTrue'
        BY <2>1 DEF AnswerIsTrue
      <3>1. Head(feed.todo) \in FedWitnesses /\ feed.answer.size \in Nat /\ feed.size \in Nat
        BY FeedFields DEF FeederInv, HasWitness
      <3>2. QED
        BY <1>2, <2>1, <3>1 DEF FeederInv, AnswerIsTrue
    <2>5. ASSUME NEW w \in FedWitnesses, feed # NotFeeding, feed.results[w] = "cosigned"
          PROVE  cosigned'[w] >= feed.size
      <3>1. feed \in FeedsPending \/ feed \in FeedsAnswered
        BY <2>5 DEF FeederInv, FeederTypeOK
      <3>2. feed.size \in Nat
        BY <3>1 DEF FeedsPending, FeedsAnswered
      <3>3. QED
        BY <1>2, <2>5, <3>2 DEF FeederInv, FeederTypeOK, FedSizes, FeederKnowsWitness
    <2>6. QED
      BY <1>5, <2>1, <2>2, <2>3, <2>4, <2>5 DEF FeederInv, FeederKnowsWitness
  <1>8. QED
    BY <1>6, <1>7

(* The inductive invariant of the feeder: what it remembers, what it was   *)
(* answered and what it reports never run ahead of the witness.            *)
THEOREM FeederInvariant == FeederSpec => []FeederInv
  <1>1. FeederInit => FeederInv
    BY DEF FeederInit, FeederInv, FeederTypeOK, HasWitness, AnswerIsTrue,
           FeederKnowsWitness, NotFeeding, FedSizes
  <1>2. FeederInv /\ [FeederNext]_feederVars => FeederInv'
    <2> SUFFICES ASSUME FeederInv, [FeederNext]_feederVars PROVE FeederInv'
      OBVIOUS
    <2>1. ASSUME NEW r \in requests, RequestLost(r) PROVE FeederInv'
      BY <2>1 DEF RequestLost, FeederInv, FeederTypeOK, HasWitness, AnswerIsTrue,
                  FeederKnowsWitness
    <2>2. CASE UNCHANGED feederVars
      BY <2>2 DEF feederVars, FeederInv, FeederTypeOK, HasWitness, AnswerIsTrue,
                  FeederKnowsWitness
    <2>3. QED
      BY <2>1, <2>2, FeedCallKeepsInv, UpdateKeepsInv, FeedOneKeepsInv,
         WitnessHandlesKeepsInv DEF FeederNext, FeedStep, WitnessStep
  <1>3. QED
    BY <1>1, <1>2, PTL DEF FeederSpec

(* The size that the feeder caches for a witness is never ahead of what    *)
(* the witness cosigned, and a result without an error means that it did   *)
(* cosign: for any witnesses, lost answers, late requests and restarts.    *)
THEOREM FeederNeverAhead == FeederSpec => []FeederKnowsWitness
  <1>1. FeederInv => FeederKnowsWitness
    BY DEF FeederInv
  <1>2. QED
    BY <1>1, FeederInvariant, PTL

-----------------------------------------------------------------------------
(* The Rekor scheduler.                                                    *)

Indices == Nat \cup {NotAnchored}

AnchorTypeOK ==
    /\ rekorIndex \in Seq(Indices)
    /\ entries \in Seq(Nat)
    /\ posts \subseteq [attempt : Nat, cp : Nat]
    /\ answers \subseteq [attempt : Nat, index : Nat]
    /\ pc \in {"idle", "posted", "answered"}
    /\ cp \in Nat
    /\ result \in Indices
    /\ attempts \in Nat

\* Attempts are numbered as they are made, and only the last one is awaited.
AttemptsAreNumbered ==
    /\ \A p \in posts : p.attempt <= attempts
    /\ \A a \in answers : a.attempt <= attempts

\* The row that AnchorOnce is about to write is there and has no index.
RowIsOpen ==
    pc # "idle" => cp \in DOMAIN rekorIndex /\ rekorIndex[cp] = NotAnchored

\* What is on its way for the awaited attempt is about the checkpoint read.
AwaitedIsOfCp ==
    pc = "posted" =>
        /\ \A p \in posts : p.attempt = attempts => p.cp = cp
        /\ \A a \in answers : a.attempt = attempts => a.index + 1 \in EntriesOf(cp)

ResultIsOfCp == pc = "answered" => result + 1 \in EntriesOf(cp)

AnchorInv ==
    /\ AnchorTypeOK
    /\ AttemptsAreNumbered
    /\ RowIsOpen
    /\ AwaitedIsOfCp
    /\ ResultIsOfCp
    /\ RecordedIndexVerifies

(* Rekor's log only grows: an index that points at an entry keeps doing so.*)
LEMMA EntriesStay ==
    ASSUME AnchorTypeOK, NEW e \in Nat, entries' = Append(entries, e)
    PROVE  /\ entries' \in Seq(Nat)
           /\ \A c : EntriesOf(c) \subseteq EntriesOf(c)'
           /\ Len(entries) \in Nat
           /\ Len(entries) + 1 \in EntriesOf(e)'
  BY DEF AnchorTypeOK, EntriesOf

(* A step that leaves Rekor's log and the table alone, or lets the log     *)
(* grow, keeps every recorded index verifiable.                            *)
LEMMA RecordsStay ==
    ASSUME AnchorInv, UNCHANGED rekorIndex,
           \A c : EntriesOf(c) \subseteq EntriesOf(c)'
    PROVE  RecordedIndexVerifies'
  BY DEF AnchorInv, RecordedIndexVerifies

(* The builder saves a checkpoint while AnchorOnce is at work.             *)
LEMMA PublishKeepsInv ==
    ASSUME AnchorInv, Publish
    PROVE  AnchorInv'
  <1>1. /\ rekorIndex' = Append(rekorIndex, NotAnchored)
        /\ UNCHANGED <<entries, posts, answers, pc, cp, result, attempts>>
    BY DEF Publish, rekorVars, schedulerVars
  <1>2. /\ rekorIndex' \in Seq(Indices)
        /\ DOMAIN rekorIndex \subseteq DOMAIN rekorIndex'
        /\ \A c \in DOMAIN rekorIndex : rekorIndex'[c] = rekorIndex[c]
        /\ \A c \in DOMAIN rekorIndex' \ DOMAIN rekorIndex : rekorIndex'[c] = NotAnchored
    BY <1>1 DEF AnchorInv, AnchorTypeOK, Indices
  <1>3. AnchorTypeOK' /\ AttemptsAreNumbered' /\ AwaitedIsOfCp' /\ ResultIsOfCp'
    BY <1>1, <1>2 DEF AnchorInv, AnchorTypeOK, AttemptsAreNumbered, AwaitedIsOfCp,
                      ResultIsOfCp, EntriesOf
  <1>4. RowIsOpen'
    BY <1>1, <1>2 DEF AnchorInv, RowIsOpen
  <1>5. RecordedIndexVerifies'
    BY <1>1, <1>2 DEF AnchorInv, RecordedIndexVerifies, EntriesOf
  <1>6. QED
    BY <1>3, <1>4, <1>5 DEF AnchorInv

(* AnchorOnce reads the latest checkpoint, which has no index, and posts.  *)
LEMMA PostKeepsInv ==
    ASSUME AnchorInv, Post
    PROVE  AnchorInv'
  <1> DEFINE p == [attempt |-> attempts + 1, cp |-> Len(rekorIndex)]
  <1>1. /\ pc' = "posted"
        /\ cp' = Len(rekorIndex)
        /\ attempts' = attempts + 1
        /\ posts' = posts \cup {p}
        /\ UNCHANGED <<rekorIndex, entries, answers, result>>
    BY DEF Post, LatestCheckpoint
  <1>2. /\ Len(rekorIndex) \in DOMAIN rekorIndex
        /\ rekorIndex[Len(rekorIndex)] = NotAnchored
    BY DEF Post, Due, AlreadyAnchored, LatestCheckpoint, AnchorInv, AnchorTypeOK, Indices,
           NotAnchored
  <1>3. attempts \in Nat /\ Len(rekorIndex) \in Nat /\ p \in [attempt : Nat, cp : Nat]
    BY DEF AnchorInv, AnchorTypeOK
  <1>4. AnchorTypeOK'
    BY <1>1, <1>3 DEF AnchorInv, AnchorTypeOK
  <1>5. AttemptsAreNumbered'
    BY <1>1, <1>3 DEF AnchorInv, AnchorTypeOK, AttemptsAreNumbered
  <1>6. RowIsOpen' /\ ResultIsOfCp'
    BY <1>1, <1>2 DEF RowIsOpen, ResultIsOfCp
  <1>7. AwaitedIsOfCp'
    <2>1. \A q \in posts : q.attempt # attempts + 1
      BY <1>3 DEF AnchorInv, AnchorTypeOK, AttemptsAreNumbered
    <2>2. \A a \in answers : a.attempt # attempts + 1
      BY <1>3 DEF AnchorInv, AnchorTypeOK, AttemptsAreNumbered
    <2>3. QED
      BY <1>1, <2>1, <2>2 DEF AwaitedIsOfCp
  <1>8. RecordedIndexVerifies'
    BY <1>1, RecordsStay DEF EntriesOf
  <1>9. QED
    BY <1>4, <1>5, <1>6, <1>7, <1>8 DEF AnchorInv

(* The answer to the awaited attempt is taken up.                          *)
LEMMA ReceiveKeepsInv ==
    ASSUME AnchorInv, Receive
    PROVE  AnchorInv'
  <1>1. PICK a \in answers : /\ a.attempt = attempts
                             /\ result' = a.index
                             /\ answers' = answers \ {a}
    BY DEF Receive
  <1>2. /\ pc = "posted" /\ pc' = "answered"
        /\ UNCHANGED <<rekorIndex, entries, posts, cp, attempts>>
    BY DEF Receive
  <1>3. a.index \in Nat /\ a.index + 1 \in EntriesOf(cp)
    BY <1>1, <1>2 DEF AnchorInv, AnchorTypeOK, AwaitedIsOfCp
  <1>4. AnchorTypeOK' /\ AttemptsAreNumbered'
    BY <1>1, <1>2, <1>3 DEF AnchorInv, AnchorTypeOK, AttemptsAreNumbered, Indices
  <1>5. RowIsOpen' /\ AwaitedIsOfCp' /\ ResultIsOfCp'
    BY <1>1, <1>2, <1>3 DEF AnchorInv, RowIsOpen, AwaitedIsOfCp, ResultIsOfCp, EntriesOf
  <1>6. RecordedIndexVerifies'
    BY <1>2, RecordsStay DEF EntriesOf
  <1>7. QED
    BY <1>4, <1>5, <1>6 DEF AnchorInv

(* AnchorOnce returns without having written: an error, or a crash.        *)
LEMMA ReturnKeepsInv ==
    ASSUME AnchorInv, Return, UNCHANGED <<rekorIndex, rekorVars, attempts>>
    PROVE  AnchorInv'
  <1>1. /\ pc' = "idle" /\ cp' = 0 /\ result' = NotAnchored
        /\ UNCHANGED <<rekorIndex, entries, posts, answers, attempts>>
    BY DEF Return, rekorVars
  <1>2. AnchorTypeOK' /\ AttemptsAreNumbered'
    BY <1>1 DEF AnchorInv, AnchorTypeOK, AttemptsAreNumbered, Indices
  <1>3. RowIsOpen' /\ AwaitedIsOfCp' /\ ResultIsOfCp'
    BY <1>1 DEF RowIsOpen, AwaitedIsOfCp, ResultIsOfCp
  <1>4. RecordedIndexVerifies'
    BY <1>1, RecordsStay DEF EntriesOf
  <1>5. QED
    BY <1>2, <1>3, <1>4 DEF AnchorInv

(* The index is written to the row that was read, which had none.          *)
LEMMA WriteKeepsInv ==
    ASSUME AnchorInv, UpdateCheckpointRekorIndex
    PROVE  /\ AnchorInv'
           /\ \A c \in DOMAIN rekorIndex :
                 rekorIndex[c] # NotAnchored => rekorIndex'[c] = rekorIndex[c]
  <1>1. /\ pc = "answered" /\ pc' = "idle" /\ cp' = 0 /\ result' = NotAnchored
        /\ rekorIndex' = [rekorIndex EXCEPT ![cp] = result]
        /\ UNCHANGED <<entries, posts, answers, attempts>>
    BY DEF UpdateCheckpointRekorIndex, Return, rekorVars
  <1>2. /\ cp \in DOMAIN rekorIndex
        /\ rekorIndex[cp] = NotAnchored
        /\ result + 1 \in EntriesOf(cp)
    BY <1>1 DEF AnchorInv, RowIsOpen, ResultIsOfCp
  <1>3. /\ rekorIndex' \in Seq(Indices)
        /\ DOMAIN rekorIndex' = DOMAIN rekorIndex
        /\ \A c \in DOMAIN rekorIndex :
              rekorIndex'[c] = IF c = cp THEN result ELSE rekorIndex[c]
    BY <1>1, <1>2 DEF AnchorInv, AnchorTypeOK
  <1>4. AnchorTypeOK' /\ AttemptsAreNumbered'
    BY <1>1, <1>3 DEF AnchorInv, AnchorTypeOK, AttemptsAreNumbered, Indices
  <1>5. RowIsOpen' /\ AwaitedIsOfCp' /\ ResultIsOfCp'
    BY <1>1 DEF RowIsOpen, AwaitedIsOfCp, ResultIsOfCp
  <1>6. RecordedIndexVerifies'
    BY <1>1, <1>2, <1>3 DEF AnchorInv, RecordedIndexVerifies, EntriesOf
  <1>7. QED
    BY <1>2, <1>3, <1>4, <1>5, <1>6 DEF AnchorInv

(* A POST arrives, perhaps long after the scheduler has given it up.       *)
LEMMA RekorLogsKeepsInv ==
    ASSUME AnchorInv, NEW p \in posts, RekorLogs(p)
    PROVE  AnchorInv'
  <1> DEFINE a == [attempt |-> p.attempt, index |-> Len(entries)]
  <1>1. p.attempt \in Nat /\ p.cp \in Nat /\ p.attempt <= attempts
    BY DEF AnchorInv, AnchorTypeOK, AttemptsAreNumbered
  <1>2. /\ entries' = Append(entries, p.cp)
        /\ posts' = posts \ {p}
        /\ answers' = answers \cup {a}
        /\ UNCHANGED <<rekorIndex, pc, cp, result, attempts>>
    BY DEF RekorLogs, schedulerVars
  <1>3. /\ entries' \in Seq(Nat)
        /\ \A c : EntriesOf(c) \subseteq EntriesOf(c)'
        /\ Len(entries) \in Nat
        /\ Len(entries) + 1 \in EntriesOf(p.cp)'
    BY <1>1, <1>2, EntriesStay DEF AnchorInv
  <1>4. AnchorTypeOK' /\ AttemptsAreNumbered'
    BY <1>1, <1>2, <1>3 DEF AnchorInv, AnchorTypeOK, AttemptsAreNumbered
  <1>5. RowIsOpen' /\ ResultIsOfCp'
    BY <1>2, <1>3 DEF AnchorInv, RowIsOpen, ResultIsOfCp
  <1>6. AwaitedIsOfCp'
    BY <1>2, <1>3 DEF AnchorInv, AwaitedIsOfCp
  <1>7. RecordedIndexVerifies'
    BY <1>2, <1>3, RecordsStay
  <1>8. QED
    BY <1>4, <1>5, <1>6, <1>7 DEF AnchorInv

(* The other steps of Rekor and of the network.                            *)
LEMMA NetworkKeepsInv ==
    ASSUME AnchorInv, Lose \/ OtherLogs
    PROVE  AnchorInv'
  <1>1. CASE Lose
    <2>1. /\ posts' \subseteq posts
          /\ answers' \subseteq answers
          /\ UNCHANGED <<rekorIndex, entries, pc, cp, result, attempts>>
      BY <1>1 DEF Lose, schedulerVars
    <2>2. AnchorTypeOK' /\ AttemptsAreNumbered'
      BY <2>1 DEF AnchorInv, AnchorTypeOK, AttemptsAreNumbered
    <2>3. RowIsOpen' /\ AwaitedIsOfCp' /\ ResultIsOfCp'
      BY <2>1 DEF AnchorInv, RowIsOpen, AwaitedIsOfCp, ResultIsOfCp, EntriesOf
    <2>4. QED
      BY <2>1, <2>2, <2>3, RecordsStay DEF AnchorInv, EntriesOf
  <1>2. CASE OtherLogs
    <2>1. /\ entries' = Append(entries, Other)
          /\ UNCHANGED <<rekorIndex, posts, answers, pc, cp, result, attempts>>
      BY <1>2 DEF OtherLogs, schedulerVars
    <2>2. entries' \in Seq(Nat) /\ \A c : EntriesOf(c) \subseteq EntriesOf(c)'
      BY <2>1, EntriesStay DEF AnchorInv, Other
    <2>3. AnchorTypeOK' /\ AttemptsAreNumbered'
      BY <2>1, <2>2 DEF AnchorInv, AnchorTypeOK, AttemptsAreNumbered
    <2>4. RowIsOpen' /\ AwaitedIsOfCp' /\ ResultIsOfCp'
      BY <2>1, <2>2 DEF AnchorInv, RowIsOpen, AwaitedIsOfCp, ResultIsOfCp
    <2>5. QED
      BY <2>1, <2>2, <2>3, <2>4, RecordsStay DEF AnchorInv
  <1>3. QED
    BY <1>1, <1>2

(* Every step but the write of an index keeps the recorded ones.           *)
LEMMA AnchorStep ==
    ASSUME AnchorInv, [Next]_vars
    PROVE  /\ AnchorInv'
           /\ \A c \in DOMAIN rekorIndex :
                 rekorIndex[c] # NotAnchored => rekorIndex'[c] = rekorIndex[c]
  <1> DEFINE Kept == \A c \in DOMAIN rekorIndex :
                        rekorIndex[c] # NotAnchored => rekorIndex'[c] = rekorIndex[c]
  <1>1. CASE Publish
    <2>1. Kept
      BY <1>1 DEF Publish, AnchorInv, AnchorTypeOK
    <2>2. QED
      BY <1>1, <2>1, PublishKeepsInv
  <1>2. CASE Post
    BY <1>2, PostKeepsInv DEF Post
  <1>3. CASE Receive
    BY <1>3, ReceiveKeepsInv DEF Receive
  <1>4. CASE UpdateCheckpointRekorIndex
    BY <1>4, WriteKeepsInv
  <1>5. CASE PostFails \/ UpdateFails \/ Crash
    BY <1>5, ReturnKeepsInv DEF PostFails, UpdateFails, Crash
  <1>6. CASE LatestFails \/ Skip \/ UNCHANGED vars
    <2>1. UNCHANGED <<rekorIndex, entries, posts, answers, pc, cp, result, attempts>>
      BY <1>6 DEF LatestFails, Skip, vars, rekorVars, schedulerVars
    <2>2. QED
      BY <2>1 DEF AnchorInv, AnchorTypeOK, AttemptsAreNumbered, RowIsOpen, AwaitedIsOfCp,
                  ResultIsOfCp, RecordedIndexVerifies, EntriesOf
  <1>7. ASSUME NEW p \in posts, RekorLogs(p)
        PROVE  AnchorInv' /\ Kept
    BY <1>7, RekorLogsKeepsInv DEF RekorLogs
  <1>8. CASE Lose \/ OtherLogs
    BY <1>8, NetworkKeepsInv DEF Lose, OtherLogs
  <1>9. QED
    BY <1>1, <1>2, <1>3, <1>4, <1>5, <1>6, <1>7, <1>8
       DEF Next, AnchorOnce, AnchorOnceFails, RekorStep

(* The inductive invariant of the scheduler: only the answer to the last   *)
(* attempt is taken up, what is on its way for that attempt is about the   *)
(* checkpoint that AnchorOnce read, and the row of it is still open.       *)
THEOREM AnchorInvariant == Spec => []AnchorInv
  <1>1. Init => AnchorInv
    BY DEF Init, AnchorInv, AnchorTypeOK, AttemptsAreNumbered, RowIsOpen, AwaitedIsOfCp,
           ResultIsOfCp, RecordedIndexVerifies, Indices
  <1>2. AnchorInv /\ [Next]_vars => AnchorInv'
    BY AnchorStep
  <1>3. QED
    BY <1>1, <1>2, PTL DEF Spec

(* A recorded index points at a Rekor entry over that very checkpoint, for *)
(* any number of checkpoints, lost and late POSTs, crashes and retries.    *)
THEOREM RecordedIndicesVerify == Spec => []RecordedIndexVerifies
  <1>1. AnchorInv => RecordedIndexVerifies
    BY DEF AnchorInv
  <1>2. QED
    BY <1>1, AnchorInvariant, PTL

(* rekor_log_index is written once: no retry, late answer or restart       *)
(* changes the index of a checkpoint that has one.                         *)
THEOREM AnchorsAreFinal == Spec => AnchorIsFinal
  <1>1. AnchorInv /\ [Next]_vars =>
           [\A c \in DOMAIN rekorIndex :
               rekorIndex[c] # NotAnchored => rekorIndex'[c] = rekorIndex[c]]_rekorIndex
    BY AnchorStep
  <1>2. QED
    BY <1>1, AnchorInvariant, PTL DEF Spec, AnchorIsFinal
=============================================================================
