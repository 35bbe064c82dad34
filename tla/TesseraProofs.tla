--------------------------- MODULE TesseraProofs ----------------------------
(***************************************************************************)
(* Proofs about the ledger in its Tessera mode (TesseraLedger), for any    *)
(* concurrent requests, batch sizes and faults.                            *)
(***************************************************************************)
EXTENDS TesseraLedger, MerkleProofs, FiniteSetTheorems

CheckpointRow ==
    [batchStart : Nat, batchEnd : Nat, treeSize : Nat, root : Seq(Nat), prev : Seq(Nat)]

TesseraTypeOK ==
    /\ rows \in Nat
    /\ log \in Seq(1 .. rows)
    /\ logSize \in 0 .. Len(log)
    /\ checkpoints \in Seq(CheckpointRow)
    /\ batch \in [Handlers -> Seq(1 .. rows)]
    /\ added \in [Handlers -> Nat]
    /\ pc \in {"idle", "read", "signed"}
    /\ size \in Nat
    /\ prevRoot \in Seq(Nat)

\* No receipt is in the log twice.
LoggedOnce == IsInjective(log)

\* No receipt is in two requests, or in one of them twice.
BatchesAreApart ==
    \A h, g \in Handlers : \A i \in DOMAIN batch[h], j \in DOMAIN batch[g] :
        batch[h][i] = batch[g][j] => h = g /\ i = j

\* Of the receipts of a request, the log has those that were added, and no other.
AddedAreLogged ==
    \A h \in Handlers :
        /\ added[h] <= Len(batch[h])
        /\ \A i \in DOMAIN batch[h] : batch[h][i] \in Range(log) <=> i <= added[h]

AcceptedAreLogged == accepted \subseteq Range(log)

LogInv ==
    LoggedOnce /\ BatchesAreApart /\ AddedAreLogged /\ AcceptedAreLogged

\* A saved checkpoint is over a prefix of the log that Tessera has signed, none over
\* less than an earlier one; and the one being built is over no less than all of them.
CheckpointInv ==
    /\ \A c \in DOMAIN checkpoints :
          /\ 0 < checkpoints[c].treeSize
          /\ checkpoints[c].treeSize <= logSize
          /\ checkpoints[c].root = SubSeq(log, 1, checkpoints[c].treeSize)
    /\ \A c, d \in DOMAIN checkpoints :
          c <= d => checkpoints[c].treeSize <= checkpoints[d].treeSize
    /\ pc # "idle" =>
          /\ 0 < size
          /\ size <= logSize
          /\ \A c \in DOMAIN checkpoints : checkpoints[c].treeSize <= size

TesseraInv == TesseraTypeOK /\ LogInv /\ CheckpointInv

-----------------------------------------------------------------------------
(* The sequences of the model.                                             *)

(* A sequence over a set is one over any larger set.                       *)
LEMMA SeqMonotone ==
    ASSUME NEW S, NEW T, S \subseteq T, NEW s \in Seq(S)
    PROVE  s \in Seq(T)
  OBVIOUS

(* An append to the log gives a log (log.Append).                          *)
LEMMA AppendOne ==
    ASSUME NEW S, NEW s \in Seq(S), NEW e \in S
    PROVE  /\ Append(s, e) \in Seq(S)
           /\ Len(Append(s, e)) = Len(s) + 1
           /\ \A i \in 1 .. Len(s) : Append(s, e)[i] = s[i]
           /\ Append(s, e)[Len(s) + 1] = e
  OBVIOUS

(* What is appended to a log (log.Append) leaves its prefixes alone.       *)
LEMMA PrefixKept ==
    ASSUME NEW S, NEW s \in Seq(S), NEW u \in Seq(S), NEW n \in 0 .. Len(s)
    PROVE  SubSeq(s \o u, 1, n) = SubSeq(s, 1, n)
  OBVIOUS

(* The same for a single entry.                                            *)
LEMMA PrefixKeptByAppend ==
    ASSUME NEW S, NEW s \in Seq(S), NEW e \in S, NEW n \in 0 .. Len(s)
    PROVE  SubSeq(Append(s, e), 1, n) = SubSeq(s, 1, n)
  OBVIOUS

(* Of two prefixes of the log the shorter is a prefix of the longer.       *)
LEMMA PrefixesAreNested ==
    ASSUME NEW S, NEW s \in Seq(S), NEW m \in 0 .. Len(s), NEW n \in m .. Len(s)
    PROVE  /\ IsPrefix(SubSeq(s, 1, m), SubSeq(s, 1, n))
           /\ Len(SubSeq(s, 1, m)) = m
<1>1. Len(SubSeq(s, 1, m)) = m /\ Len(SubSeq(s, 1, n)) = n
  OBVIOUS
<1>2. SubSeq(SubSeq(s, 1, m), 1, m) = SubSeq(SubSeq(s, 1, n), 1, m)
  OBVIOUS
<1> QED
  BY <1>1, <1>2 DEF IsPrefix

(* The entries a crash may leave in the log, in any order: some of those   *)
(* being added, each once.                                                 *)
LEMMA LateEntries ==
    ASSUME NEW S, IsFiniteSet(S), NEW late \in SetToAllKPermutations(S)
    PROVE  /\ late \in Seq(S)
           /\ IsInjective(late)
           /\ Range(late) \subseteq S
<1>1. PICK T \in SUBSET S : late \in SetToSeqs(T)
  BY DEF SetToAllKPermutations
<1>2. Cardinality(T) \in Nat
  BY FS_Subset, FS_CardinalityType
<1> QED
  BY <1>1, <1>2 DEF SetToSeqs, IsInjective, Range

(* Each request is adding one receipt at most.                             *)
LEMMA BeingAddedIsFinite ==
    IsFiniteSet(BeingAdded)
<1> DEFINE H == {g \in Handlers : added[g] < Len(batch[g])}
<1>1. IsFiniteSet(H)
  BY FS_Subset, TesseraAssumption
<1> DEFINE f == [h \in H |-> batch[h][added[h] + 1]]
<1>2. f \in Surjection(H, BeingAdded)
  BY DEF Surjection, BeingAdded
<1> HIDE DEF H, f
<1> QED
  BY <1>1, <1>2, FS_Surjection

-----------------------------------------------------------------------------
(* Type correctness.                                                       *)

(* The log and the requests stay well typed as rows are added (INSERT).    *)
LEMMA RowsGrow ==
    ASSUME TesseraTypeOK, NEW n \in Nat, n >= rows
    PROVE  /\ log \in Seq(1 .. n)
           /\ batch \in [Handlers -> Seq(1 .. n)]
<1>1. 1 .. rows \subseteq 1 .. n
  BY DEF TesseraTypeOK
<1>2. \A s : s \in Seq(1 .. rows) => s \in Seq(1 .. n)
  BY <1>1, SeqMonotone
<1> QED
  BY <1>2, Zenon DEF TesseraTypeOK

(* The tables and the log start out empty.                                 *)
LEMMA TesseraTypeInit == Init => TesseraTypeOK
  BY DEF Init, TesseraTypeOK

(* Every step of the handlers, of Tessera and of the builder keeps the     *)
(* types.                                                                  *)
LEMMA TesseraTypeNext == TesseraInv /\ [Next]_vars => TesseraTypeOK'
<1> SUFFICES ASSUME TesseraTypeOK, CheckpointInv, [Next]_vars
             PROVE  TesseraTypeOK'
  BY DEF TesseraInv
<1>1. ASSUME NEW h \in Handlers, NEW n \in 1 .. MaxItems, Insert(h, n)
      PROVE  TesseraTypeOK'
  <2>1. rows' \in Nat /\ rows' = rows + n /\ n \in Nat
    BY <1>1, TesseraAssumption DEF Insert, TesseraTypeOK
  <2>2. log' \in Seq(1 .. rows') /\ batch \in [Handlers -> Seq(1 .. rows')]
    BY <1>1, <2>1, RowsGrow DEF Insert, TesseraTypeOK
  <2>3. [i \in 1 .. n |-> rows + i] \in Seq(1 .. rows')
    BY <2>1 DEF TesseraTypeOK
  <2>4. batch' \in [Handlers -> Seq(1 .. rows')] /\ added' \in [Handlers -> Nat]
    BY <1>1, <2>2, <2>3 DEF Insert, TesseraTypeOK
  <2> QED
    BY <1>1, <2>1, <2>2, <2>4 DEF Insert, TesseraTypeOK, builderVars
<1>2. ASSUME NEW h \in Handlers, LogAppend(h)
      PROVE  TesseraTypeOK'
  <2>1. batch[h][added[h] + 1] \in 1 .. rows
    BY <1>2 DEF LogAppend, TesseraTypeOK
  <2>2. log' \in Seq(1 .. rows) /\ Len(log') = Len(log) + 1
    BY <1>2, <2>1, AppendOne DEF LogAppend, TesseraTypeOK
  <2>3. added' \in [Handlers -> Nat] /\ logSize' \in 0 .. Len(log')
    BY <1>2, <2>2, SMTT(30) DEF LogAppend, TesseraTypeOK
  <2> QED
    BY <1>2, <2>2, <2>3 DEF LogAppend, TesseraTypeOK, builderVars
<1>3. ASSUME NEW h \in Handlers, Respond(h)
      PROVE  TesseraTypeOK'
  BY <1>3 DEF Respond, Return, TesseraTypeOK, builderVars
<1>4. ASSUME NEW h \in Handlers, LogAppendFails(h)
      PROVE  TesseraTypeOK'
  <2>1. batch[h][added[h] + 1] \in 1 .. rows
    BY <1>4 DEF LogAppendFails, TesseraTypeOK
  <2>2. log' = log \/ log' = Append(log, batch[h][added[h] + 1])
    BY <1>4 DEF LogAppendFails
  <2>3. log' \in Seq(1 .. rows) /\ Len(log') >= Len(log)
    <3>1. log \in Seq(1 .. rows) /\ Len(log) \in Nat
      BY DEF TesseraTypeOK
    <3>2. CASE log' = log
      BY <3>1, <3>2
    <3>3. CASE log' = Append(log, batch[h][added[h] + 1])
      BY <2>1, <3>1, <3>3, AppendOne
    <3> QED
      BY <2>2, <3>2, <3>3
  <2> QED
    BY <1>4, <2>3 DEF LogAppendFails, Return, TesseraTypeOK, builderVars
<1>5. ASSUME NEW n \in 1 .. Len(log), TesseraPublishes(n)
      PROVE  TesseraTypeOK'
  BY <1>5 DEF TesseraPublishes, TesseraTypeOK, builderVars, handlerVars
<1>6. CASE GetLogCheckpoint
  BY <1>6 DEF GetLogCheckpoint, TesseraTypeOK, handlerVars
<1>7. CASE ReadPrevious
  <2>1. prevRoot' \in Seq(Nat)
    <3>1. CASE checkpoints = <<>>
      BY <1>7, <3>1 DEF ReadPrevious
    <3>2. CASE checkpoints # <<>>
      <4>1. checkpoints[Len(checkpoints)] \in CheckpointRow
        BY <3>2 DEF TesseraTypeOK
      <4> QED
        BY <1>7, <3>2, <4>1 DEF ReadPrevious, CheckpointRow
    <3> QED
      BY <3>1, <3>2
  <2> QED
    BY <1>7, <2>1 DEF ReadPrevious, TesseraTypeOK, handlerVars
<1>8. CASE ReadPreviousFails
  BY <1>8 DEF ReadPreviousFails, TesseraTypeOK, handlerVars
<1>9. CASE SaveCheckpoint
  <2>1. size \in Nat \ {0} /\ size <= Len(log)
    BY <1>9 DEF SaveCheckpoint, CheckpointInv, TesseraTypeOK
  <2>2. log \in Seq(Nat)
    BY DEF TesseraTypeOK
  <2>3. SubSeq(log, 1, size) \in Seq(Nat)
    BY <2>1, <2>2
  <2>4. NewCheckpoint \in CheckpointRow
    BY <2>1, <2>3 DEF NewCheckpoint, CheckpointRow, TesseraTypeOK
  <2>5. checkpoints' \in Seq(CheckpointRow)
    BY <1>9, <2>4 DEF SaveCheckpoint, TesseraTypeOK
  <2> QED
    BY <1>9, <2>5 DEF SaveCheckpoint, BuildReturns, TesseraTypeOK, handlerVars
<1>10. CASE SaveCheckpointFails
  BY <1>10 DEF SaveCheckpointFails, BuildReturns, TesseraTypeOK, handlerVars
<1>11. CASE Crash
  <2>1. PICK late \in SetToAllKPermutations(BeingAdded) : log' = log \o late
    BY <1>11 DEF Crash
  <2>2. late \in Seq(BeingAdded)
    BY BeingAddedIsFinite, LateEntries
  <2>3. BeingAdded \subseteq 1 .. rows
    BY DEF BeingAdded, TesseraTypeOK
  <2>4. late \in Seq(1 .. rows)
    BY <2>2, <2>3, SeqMonotone
  <2>5. log' \in Seq(1 .. rows) /\ Len(log') >= Len(log)
    BY <2>1, <2>4 DEF TesseraTypeOK
  <2> QED
    BY <1>11, <2>5 DEF Crash, BuildReturns, TesseraTypeOK
<1>12. CASE LookUp
  BY <1>12 DEF LookUp, ProveInclusion, ProveConsistency, AnswerLookup, LookupDone,
               TesseraTypeOK, handlerVars, builderVars
<1>13. CASE BuildNothing \/ UNCHANGED vars
  BY <1>13 DEF BuildNothing, vars, TesseraTypeOK
<1> QED
  BY <1>1, <1>2, <1>3, <1>4, <1>5, <1>6, <1>7, <1>8, <1>9, <1>10, <1>11,
     <1>12, <1>13
  DEF Next, LedgerNext, Ingest, Build, BuildFails

-----------------------------------------------------------------------------
(* The log and the requests.                                               *)

(* What the log has after one more entry (log.Append).                     *)
LEMMA LoggedByAppend ==
    ASSUME NEW S, NEW s \in Seq(S), NEW e \in S
    PROVE  /\ Range(Append(s, e)) = Range(s) \cup {e}
           /\ IsInjective(s) /\ e \notin Range(s) => IsInjective(Append(s, e))
<1> DEFINE t == Append(s, e)
<1>1. /\ DOMAIN t = 1 .. Len(s) + 1
      /\ DOMAIN s = 1 .. Len(s)
      /\ Len(s) \in Nat
      /\ \A i \in 1 .. Len(s) : t[i] = s[i]
      /\ t[Len(s) + 1] = e
  BY AppendOne
<1> HIDE DEF t
<1>2. Range(t) = Range(s) \cup {e}
  BY <1>1 DEF Range
<1>3. ASSUME IsInjective(s), e \notin Range(s)
      PROVE  IsInjective(t)
  <2> SUFFICES ASSUME NEW i \in DOMAIN t, NEW j \in DOMAIN t, t[i] = t[j]
               PROVE  i = j
    BY DEF IsInjective
  <2>1. \A k \in 1 .. Len(s) : t[k] \in Range(s)
    BY <1>1 DEF Range
  <2>2. CASE i = Len(s) + 1 \/ j = Len(s) + 1
    BY <1>1, <1>3, <2>1, <2>2
  <2>3. CASE i \in 1 .. Len(s) /\ j \in 1 .. Len(s)
    BY <1>1, <1>3, <2>3 DEF IsInjective
  <2> QED
    BY <1>1, <2>2, <2>3
<1> QED
  BY <1>2, <1>3 DEF t

(* What the log has after the entries a crash leaves.                      *)
LEMMA LoggedByConcat ==
    ASSUME NEW S, NEW s \in Seq(S), NEW u \in Seq(S)
    PROVE  /\ Range(s \o u) = Range(s) \cup Range(u)
           /\ IsInjective(s) /\ IsInjective(u) /\ Range(s) \cap Range(u) = {}
                => IsInjective(s \o u)
<1> DEFINE t == s \o u
<1>1. /\ DOMAIN t = 1 .. Len(s) + Len(u)
      /\ DOMAIN s = 1 .. Len(s)
      /\ DOMAIN u = 1 .. Len(u)
      /\ Len(s) \in Nat
      /\ Len(u) \in Nat
      /\ \A i \in 1 .. Len(s) : t[i] = s[i]
      /\ \A i \in 1 .. Len(u) : t[Len(s) + i] = u[i]
  OBVIOUS
<1> HIDE DEF t
<1>3. \A i \in DOMAIN t :
          i \notin 1 .. Len(s) => t[i] = u[i - Len(s)] /\ i - Len(s) \in 1 .. Len(u)
  BY <1>1
<1>4. Range(t) = Range(s) \cup Range(u)
  <2>1. \A i \in DOMAIN t : t[i] \in Range(s) \cup Range(u)
    BY <1>1, <1>3 DEF Range
  <2>2. \A i \in DOMAIN s : s[i] \in Range(t)
    BY <1>1 DEF Range
  <2>3. \A i \in DOMAIN u : u[i] \in Range(t)
    <3> TAKE i \in DOMAIN u
    <3>1. Len(s) + i \in DOMAIN t /\ t[Len(s) + i] = u[i]
      BY <1>1
    <3> QED
      BY <3>1 DEF Range
  <2> QED
    BY <2>1, <2>2, <2>3 DEF Range
<1>5. ASSUME IsInjective(s), IsInjective(u), Range(s) \cap Range(u) = {}
      PROVE  IsInjective(t)
  <2> SUFFICES ASSUME NEW i \in DOMAIN t, NEW j \in DOMAIN t, t[i] = t[j]
               PROVE  i = j
    BY DEF IsInjective
  <2>1. CASE i \in 1 .. Len(s) /\ j \in 1 .. Len(s)
    BY <1>1, <1>5, <2>1 DEF IsInjective
  <2>2. CASE i \notin 1 .. Len(s) /\ j \notin 1 .. Len(s)
    <3>1. i - Len(s) = j - Len(s)
      BY <1>1, <1>3, <1>5, <2>2 DEF IsInjective
    <3> QED
      BY <1>1, <3>1
  <2>3. \A k \in DOMAIN t : /\ k \in 1 .. Len(s) => t[k] \in Range(s)
                            /\ k \notin 1 .. Len(s) => t[k] \in Range(u)
    BY <1>1, <1>3 DEF Range
  <2> QED
    BY <1>5, <2>1, <2>2, <2>3
<1> QED
  BY <1>4, <1>5 DEF t

(* Nothing is logged, requested or accepted at the start.                  *)
LEMMA LogInit == Init => LogInv
  BY DEF Init, LogInv, LoggedOnce, BatchesAreApart, AddedAreLogged, AcceptedAreLogged,
         IsInjective, Range

(* The request returns: it has no receipts left to add.                    *)
LEMMA ReturnKeeps ==
    ASSUME TesseraTypeOK, BatchesAreApart, NEW h \in Handlers, Return(h)
    PROVE  /\ BatchesAreApart'
           /\ batch'[h] = <<>> /\ added'[h] = 0
           /\ \A g \in Handlers \ {h} : batch'[g] = batch[g] /\ added'[g] = added[g]
<1>1. /\ batch'[h] = <<>> /\ added'[h] = 0
      /\ \A g \in Handlers \ {h} : batch'[g] = batch[g] /\ added'[g] = added[g]
  BY DEF Return, TesseraTypeOK
<1>2. \A g \in Handlers : \A i \in DOMAIN batch'[g] :
         g # h /\ batch'[g] = batch[g]
  BY <1>1
<1>3. BatchesAreApart'
  BY <1>2 DEF BatchesAreApart
<1> QED
  BY <1>1, <1>3

(* The requests, the failing appends and the crashes keep the log right;   *)
(* no other step touches it.                                               *)
LEMMA LogNext == TesseraInv /\ [Next]_vars => LogInv'
<1> SUFFICES ASSUME TesseraTypeOK, LogInv, [Next]_vars
             PROVE  LogInv'
  BY DEF TesseraInv
<1> USE DEF LogInv
<1>0. /\ \A h \in Handlers : DOMAIN batch[h] = 1 .. Len(batch[h]) /\ Len(batch[h]) \in Nat
      /\ \A h \in Handlers : \A i \in DOMAIN batch[h] : batch[h][i] \in 1 .. rows
      /\ Range(log) \subseteq 1 .. rows
  BY DEF TesseraTypeOK, Range
<1>1. ASSUME NEW h \in Handlers, NEW n \in 1 .. MaxItems, Insert(h, n)
      PROVE  LogInv'
  <2>1. n \in Nat /\ log' = log /\ accepted' = accepted
    BY <1>1, TesseraAssumption DEF Insert
  <2>2. /\ batch'[h] = [i \in 1 .. n |-> rows + i]
        /\ added'[h] = 0
        /\ \A g \in Handlers \ {h} : batch'[g] = batch[g] /\ added'[g] = added[g]
    BY <1>1 DEF Insert, TesseraTypeOK
  <2>3. /\ DOMAIN batch'[h] = 1 .. n
        /\ Len(batch'[h]) = n
        /\ \A i \in 1 .. n : batch'[h][i] = rows + i /\ rows + i \notin 1 .. rows
    BY <2>1, <2>2 DEF TesseraTypeOK
  <2>4. BatchesAreApart'
    <3> SUFFICES ASSUME NEW f \in Handlers, NEW g \in Handlers,
                        NEW i \in DOMAIN batch'[f], NEW j \in DOMAIN batch'[g],
                        batch'[f][i] = batch'[g][j]
                 PROVE  f = g /\ i = j
      BY DEF BatchesAreApart
    <3>1. CASE f = h /\ g = h
      BY <2>1, <2>3, <3>1 DEF TesseraTypeOK
    <3>2. CASE f # h /\ g # h
      BY <2>2, <3>2 DEF BatchesAreApart
    <3>3. CASE f = h /\ g # h
      BY <1>0, <2>2, <2>3, <3>3
    <3>4. CASE f # h /\ g = h
      BY <1>0, <2>2, <2>3, <3>4
    <3> QED
      BY <3>1, <3>2, <3>3, <3>4
  <2>5. AddedAreLogged'
    <3> SUFFICES ASSUME NEW g \in Handlers
                 PROVE  /\ added'[g] <= Len(batch'[g])
                        /\ \A i \in DOMAIN batch'[g] :
                              batch'[g][i] \in Range(log') <=> i <= added'[g]
      BY DEF AddedAreLogged
    <3>1. CASE g = h
      BY <1>0, <2>1, <2>2, <2>3, <3>1
    <3>2. CASE g # h
      BY <2>1, <2>2, <3>2 DEF AddedAreLogged
    <3> QED
      BY <3>1, <3>2
  <2> QED
    BY <2>1, <2>4, <2>5 DEF LoggedOnce, AcceptedAreLogged
<1>2. ASSUME NEW h \in Handlers, LogAppend(h)
      PROVE  LogInv'
  <2> DEFINE k == added[h] + 1
  <2>1. /\ k \in DOMAIN batch[h]
        /\ added[h] \in Nat
        /\ batch' = batch
        /\ accepted' = accepted
        /\ log' = Append(log, batch[h][k])
        /\ added'[h] = k
        /\ \A g \in Handlers \ {h} : added'[g] = added[g]
    BY <1>2 DEF LogAppend, TesseraTypeOK
  <2> HIDE DEF k
  <2>2. batch[h][k] \in 1 .. rows /\ batch[h][k] \notin Range(log)
    BY <1>0, <2>1 DEF AddedAreLogged, k
  <2>3. Range(log') = Range(log) \cup {batch[h][k]} /\ LoggedOnce'
    BY <2>1, <2>2, LoggedByAppend DEF LoggedOnce, TesseraTypeOK
  <2>4. AddedAreLogged'
    <3> SUFFICES ASSUME NEW g \in Handlers
                 PROVE  /\ added'[g] <= Len(batch[g])
                        /\ \A i \in DOMAIN batch[g] :
                              batch[g][i] \in Range(log') <=> i <= added'[g]
      BY <2>1 DEF AddedAreLogged
    <3>1. \A i \in DOMAIN batch[g] : batch[g][i] = batch[h][k] <=> g = h /\ i = k
      BY <2>1 DEF BatchesAreApart
    <3>2. CASE g = h
      BY <1>0, <2>1, <2>3, <3>1, <3>2 DEF AddedAreLogged, k
    <3>3. CASE g # h
      BY <2>1, <2>3, <3>1, <3>3 DEF AddedAreLogged
    <3> QED
      BY <3>2, <3>3
  <2> QED
    BY <2>1, <2>3, <2>4 DEF BatchesAreApart, AcceptedAreLogged
<1>3. ASSUME NEW h \in Handlers, Respond(h)
      PROVE  LogInv'
  <2>1. log' = log /\ Return(h) /\ accepted' = accepted \cup RowsOf(h)
    BY <1>3 DEF Respond
  <2>2. RowsOf(h) \subseteq Range(log)
    BY <1>0, <1>3 DEF Respond, RowsOf, AddedAreLogged
  <2>3. AddedAreLogged'
    BY <2>1, ReturnKeeps DEF AddedAreLogged
  <2> QED
    BY <2>1, <2>2, <2>3, ReturnKeeps DEF LoggedOnce, AcceptedAreLogged
<1>4. ASSUME NEW h \in Handlers, LogAppendFails(h)
      PROVE  LogInv'
  <2> DEFINE k == added[h] + 1
  <2>1. /\ k \in DOMAIN batch[h]
        /\ added[h] \in Nat
        /\ accepted' = accepted
        /\ Return(h)
        /\ log' = log \/ log' = Append(log, batch[h][k])
    BY <1>4 DEF LogAppendFails, TesseraTypeOK
  <2> HIDE DEF k
  <2>2. batch[h][k] \in 1 .. rows /\ batch[h][k] \notin Range(log)
    BY <1>0, <2>1 DEF AddedAreLogged, k
  <2>3. /\ Range(log') = Range(log) \/ Range(log') = Range(log) \cup {batch[h][k]}
        /\ LoggedOnce'
    <3>1. CASE log' = log
      BY <3>1 DEF LoggedOnce
    <3>2. CASE log' = Append(log, batch[h][k])
      BY <2>2, <3>2, LoggedByAppend DEF LoggedOnce, TesseraTypeOK
    <3> QED
      BY <2>1, <3>1, <3>2
  <2>4. AddedAreLogged'
    <3> SUFFICES ASSUME NEW g \in Handlers \ {h}
                 PROVE  /\ added[g] <= Len(batch[g])
                        /\ \A i \in DOMAIN batch[g] :
                              batch[g][i] \in Range(log') <=> i <= added[g]
      BY <2>1, ReturnKeeps DEF AddedAreLogged
    <3>1. \A i \in DOMAIN batch[g] : batch[g][i] # batch[h][k]
      BY <2>1 DEF BatchesAreApart
    <3> QED
      BY <2>3, <3>1 DEF AddedAreLogged
  <2> QED
    BY <2>1, <2>3, <2>4, ReturnKeeps DEF AcceptedAreLogged
<1>5. CASE Crash
  <2>1. PICK late \in SetToAllKPermutations(BeingAdded) : log' = log \o late
    BY <1>5 DEF Crash
  <2>2. late \in Seq(BeingAdded) /\ IsInjective(late) /\ Range(late) \subseteq BeingAdded
    BY BeingAddedIsFinite, LateEntries
  <2>3. BeingAdded \subseteq 1 .. rows /\ BeingAdded \cap Range(log) = {}
    BY <1>0, SMTT(30) DEF BeingAdded, AddedAreLogged, TesseraTypeOK
  <2>4. late \in Seq(1 .. rows)
    BY <2>2, <2>3, SeqMonotone
  <2>5. Range(log) \subseteq Range(log') /\ LoggedOnce'
    BY <2>1, <2>2, <2>3, <2>4, LoggedByConcat DEF LoggedOnce, TesseraTypeOK
  <2>6. \A g \in Handlers : batch'[g] = <<>> /\ added'[g] = 0
    BY <1>5 DEF Crash
  <2>7. BatchesAreApart' /\ AddedAreLogged'
    BY <2>6 DEF BatchesAreApart, AddedAreLogged
  <2> QED
    BY <1>5, <2>5, <2>7 DEF Crash, AcceptedAreLogged
<1>6. CASE UNCHANGED <<log, accepted, batch, added>>
  BY <1>6 DEF LoggedOnce, BatchesAreApart, AddedAreLogged, AcceptedAreLogged
<1>7. CASE LookUp
  BY <1>6, <1>7 DEF LookUp, ProveInclusion, ProveConsistency, AnswerLookup, LookupDone,
                    handlerVars
<1>8. CASE \/ \E n \in 1 .. Len(log) : TesseraPublishes(n)
           \/ Build \/ BuildNothing \/ BuildFails \/ UNCHANGED vars
  BY <1>6, <1>8
  DEF TesseraPublishes, Build, BuildNothing, BuildFails, GetLogCheckpoint, ReadPrevious,
      SaveCheckpoint, ReadPreviousFails, SaveCheckpointFails, handlerVars, vars
<1> QED
  BY <1>1, <1>2, <1>3, <1>4, <1>5, <1>7, <1>8 DEF Next, LedgerNext, Ingest

-----------------------------------------------------------------------------
(* The checkpoints.                                                        *)

(* No step changes or removes an entry of the log.                         *)
LEMMA LogGrows ==
    TesseraTypeOK /\ [Next]_vars =>
        /\ Len(log') >= Len(log)
        /\ \A n \in 0 .. Len(log) : SubSeq(log', 1, n) = SubSeq(log, 1, n)
<1> SUFFICES ASSUME TesseraTypeOK, [Next]_vars
             PROVE  /\ Len(log') >= Len(log)
                    /\ \A n \in 0 .. Len(log) : SubSeq(log', 1, n) = SubSeq(log, 1, n)
  OBVIOUS
<1>0. log \in Seq(1 .. rows) /\ Len(log) \in Nat
  BY DEF TesseraTypeOK
<1>1. CASE log' = log
  BY <1>0, <1>1
<1>2. ASSUME NEW h \in Handlers, added[h] < Len(batch[h]),
             log' = Append(log, batch[h][added[h] + 1])
      PROVE  /\ Len(log') >= Len(log)
             /\ \A n \in 0 .. Len(log) : SubSeq(log', 1, n) = SubSeq(log, 1, n)
  <2>1. batch[h][added[h] + 1] \in 1 .. rows
    BY <1>2 DEF TesseraTypeOK
  <2> QED
    BY <1>0, <1>2, <2>1, AppendOne, PrefixKeptByAppend
<1>3. CASE Crash
  <2>1. PICK late \in SetToAllKPermutations(BeingAdded) : log' = log \o late
    BY <1>3 DEF Crash
  <2>2. late \in Seq(BeingAdded)
    BY BeingAddedIsFinite, LateEntries
  <2>3. BeingAdded \subseteq 1 .. rows
    BY DEF BeingAdded, TesseraTypeOK
  <2>4. late \in Seq(1 .. rows)
    BY <2>2, <2>3, SeqMonotone
  <2>5. Len(log') >= Len(log)
    BY <1>0, <2>1, <2>4
  <2> QED
    BY <1>0, <2>1, <2>4, <2>5, PrefixKept
<1>4. CASE \E h \in Handlers : Ingest(h)
  <2> PICK h \in Handlers : Ingest(h)
    BY <1>4
  <2>1. \/ log' = log
        \/ added[h] < Len(batch[h]) /\ log' = Append(log, batch[h][added[h] + 1])
    BY DEF Ingest, Insert, LogAppend, Respond, LogAppendFails
  <2> QED
    BY <1>1, <1>2, <2>1
<1>5. CASE LookUp
  BY <1>1, <1>5 DEF LookUp, ProveInclusion, ProveConsistency, AnswerLookup, LookupDone
<1>6. CASE \/ \E n \in 1 .. Len(log) : TesseraPublishes(n)
           \/ Build \/ BuildNothing \/ BuildFails \/ UNCHANGED vars
  BY <1>1, <1>6
  DEF TesseraPublishes, Build, BuildNothing, BuildFails, GetLogCheckpoint, ReadPrevious,
      SaveCheckpoint, ReadPreviousFails, SaveCheckpointFails, vars
<1> QED
  BY <1>3, <1>4, <1>5, <1>6 DEF Next, LedgerNext

(* The saved checkpoints are a sequence, each with a size.                 *)
LEMMA CheckpointSizes ==
    ASSUME TesseraTypeOK
    PROVE  /\ DOMAIN checkpoints = 1 .. Len(checkpoints) /\ Len(checkpoints) \in Nat
           /\ \A c \in DOMAIN checkpoints : checkpoints[c].treeSize \in Nat
<1>1. \A c \in DOMAIN checkpoints : checkpoints[c] \in CheckpointRow
  BY DEF TesseraTypeOK
<1>2. DOMAIN checkpoints = 1 .. Len(checkpoints) /\ Len(checkpoints) \in Nat
  BY DEF TesseraTypeOK
<1> QED
  BY <1>1, <1>2 DEF CheckpointRow

(* There is no checkpoint at the start.                                    *)
LEMMA CheckpointInit == Init => CheckpointInv
  BY DEF Init, CheckpointInv

(* A checkpoint that is saved is over what was read, which is no less than *)
(* all earlier ones; the log grows under it.                               *)
LEMMA CheckpointNext == TesseraInv /\ [Next]_vars => CheckpointInv'
<1> SUFFICES ASSUME TesseraTypeOK, CheckpointInv, [Next]_vars
             PROVE  CheckpointInv'
  BY DEF TesseraInv
<1>0. /\ \A n \in 0 .. Len(log) : SubSeq(log', 1, n) = SubSeq(log, 1, n)
      /\ logSize \in Nat /\ Len(log) \in Nat /\ logSize <= Len(log)
      /\ DOMAIN checkpoints = 1 .. Len(checkpoints) /\ Len(checkpoints) \in Nat
      /\ \A c \in DOMAIN checkpoints : checkpoints[c].treeSize \in Nat
  <2>1. \A n \in 0 .. Len(log) : SubSeq(log', 1, n) = SubSeq(log, 1, n)
    BY LogGrows
  <2>2. logSize \in Nat /\ Len(log) \in Nat /\ logSize <= Len(log)
    BY DEF TesseraTypeOK
  <2> QED
    BY <2>1, <2>2, CheckpointSizes
\* The checkpoints stay, Tessera's own size does not shrink, and what is built stays.
<1>1. ASSUME checkpoints' = checkpoints, logSize' \in Nat, logSize' >= logSize,
             \/ pc' = "idle"
             \/ pc # "idle" /\ size' = size
      PROVE  CheckpointInv'
  <2>1. \A c \in DOMAIN checkpoints :
           /\ checkpoints[c].treeSize <= logSize'
           /\ checkpoints[c].root = SubSeq(log', 1, checkpoints[c].treeSize)
    BY <1>0, <1>1 DEF CheckpointInv
  <2>2. pc' # "idle" =>
           /\ 0 < size'
           /\ size' <= logSize'
           /\ \A c \in DOMAIN checkpoints : checkpoints[c].treeSize <= size'
    BY <1>0, <1>1 DEF CheckpointInv, TesseraTypeOK
  <2> QED
    BY <1>1, <2>1, <2>2 DEF CheckpointInv
<1>2. CASE \E h \in Handlers : Ingest(h)
  <2>1. UNCHANGED <<checkpoints, logSize, pc, size>>
    BY <1>2 DEF Ingest, Insert, LogAppend, Respond, LogAppendFails, builderVars
  <2> QED
    BY <1>0, <1>1, <2>1
<1>3. ASSUME NEW n \in 1 .. Len(log), TesseraPublishes(n)
      PROVE  CheckpointInv'
  BY <1>0, <1>1, <1>3 DEF TesseraPublishes, builderVars
<1>4. CASE GetLogCheckpoint
  <2>1. /\ checkpoints' = checkpoints
        /\ logSize' = logSize /\ size' = logSize /\ 0 < logSize
    BY <1>0, <1>4 DEF GetLogCheckpoint
  <2>2. \A c \in DOMAIN checkpoints :
           checkpoints[c].root = SubSeq(log', 1, checkpoints[c].treeSize)
    BY <1>0 DEF CheckpointInv
  <2> QED
    BY <1>0, <2>1, <2>2 DEF CheckpointInv
<1>5. CASE ReadPrevious \/ ReadPreviousFails
  BY <1>0, <1>1, <1>5 DEF ReadPrevious, ReadPreviousFails
<1>6. CASE SaveCheckpoint
  <2> DEFINE last == Len(checkpoints) + 1
  <2>1. /\ pc' = "idle" /\ log' = log /\ logSize' = logSize
        /\ checkpoints' = Append(checkpoints, NewCheckpoint)
        /\ 0 < size /\ size <= logSize /\ size \in Nat
        /\ \A c \in DOMAIN checkpoints : checkpoints[c].treeSize <= size
    BY <1>6 DEF SaveCheckpoint, BuildReturns, CheckpointInv, TesseraTypeOK
  <2>2. NewCheckpoint.treeSize = size /\ NewCheckpoint.root = SubSeq(log, 1, size)
    BY DEF NewCheckpoint
  <2>3. NewCheckpoint \in CheckpointRow
    <3>1. log \in Seq(Nat)
      BY SeqMonotone DEF TesseraTypeOK
    <3>2. SubSeq(log, 1, size) \in Seq(Nat)
      BY <1>0, <2>1, <3>1
    <3> QED
      BY <2>1, <3>2 DEF NewCheckpoint, CheckpointRow, TesseraTypeOK
  <2>4. /\ DOMAIN checkpoints' = 1 .. last
        /\ \A c \in 1 .. Len(checkpoints) : checkpoints'[c] = checkpoints[c]
        /\ checkpoints'[last] = NewCheckpoint
    BY <2>1, <2>3, AppendOne DEF TesseraTypeOK
  <2>5. \A c \in 1 .. last : c \in DOMAIN checkpoints \/ c = last
    BY <1>0
  <2> HIDE DEF last
  <2>6. \A c \in DOMAIN checkpoints' :
           /\ 0 < checkpoints'[c].treeSize
           /\ checkpoints'[c].treeSize <= logSize
           /\ checkpoints'[c].root = SubSeq(log, 1, checkpoints'[c].treeSize)
    BY <1>0, <2>1, <2>2, <2>4, <2>5 DEF CheckpointInv
  <2>7. \A c, d \in DOMAIN checkpoints' :
           c <= d => checkpoints'[c].treeSize <= checkpoints'[d].treeSize
    <3> SUFFICES ASSUME NEW c \in DOMAIN checkpoints', NEW d \in DOMAIN checkpoints', c <= d
                 PROVE  checkpoints'[c].treeSize <= checkpoints'[d].treeSize
      OBVIOUS
    <3>1. CASE d = last
      BY <1>0, <2>1, <2>2, <2>4, <2>5, <3>1
    <3>2. CASE d # last
      <4>1. c \in DOMAIN checkpoints /\ d \in DOMAIN checkpoints
        BY <1>0, <2>4, <2>5, <3>2 DEF last
      <4> QED
        BY <1>0, <2>4, <4>1 DEF CheckpointInv
    <3> QED
      BY <3>1, <3>2
  <2> QED
    BY <2>1, <2>6, <2>7 DEF CheckpointInv
<1>7. CASE SaveCheckpointFails \/ Crash
  BY <1>0, <1>1, <1>7 DEF SaveCheckpointFails, Crash, BuildReturns
<1>8. CASE LookUp
  <2>1. UNCHANGED <<checkpoints, logSize, pc, size>>
    BY <1>8 DEF LookUp, ProveInclusion, ProveConsistency, AnswerLookup, LookupDone, builderVars
  <2> QED
    BY <1>0, <1>1, <2>1
<1>9. CASE BuildNothing \/ UNCHANGED vars
  BY <1>0, <1>1, <1>9 DEF BuildNothing, vars
<1> QED
  BY <1>2, <1>3, <1>4, <1>5, <1>6, <1>7, <1>8, <1>9
  DEF Next, LedgerNext, Build, BuildFails

-----------------------------------------------------------------------------
(* Theorems.                                                               *)

(* The inductive invariant of the Tessera mode (TesseraStore.AppendReceipt *)
(* and TesseraBuilder.BuildAndSign): the log has no receipt twice, it has  *)
(* of every request what was added and of every accepted row, and the      *)
(* checkpoints are over growing prefixes of it.                            *)
THEOREM TesseraInvariant == Spec => []TesseraInv
<1>1. Init => TesseraInv
  BY TesseraTypeInit, LogInit, CheckpointInit DEF TesseraInv
<1>2. TesseraInv /\ [Next]_vars => TesseraInv'
  BY TesseraTypeNext, LogNext, CheckpointNext DEF TesseraInv
<1> QED
  BY <1>1, <1>2, PTL DEF Spec

(* A 201 of the ingest handlers is only sent for receipts that the Tessera *)
(* log has, each once, for any number of requests, however they interleave *)
(* with one another, with failing appends and with crashes.                *)
THEOREM AcceptedOnce == Spec => []AcceptedIsLoggedOnce
<1>1. TesseraInv => AcceptedIsLoggedOnce
  <2> SUFFICES ASSUME TesseraInv, NEW r \in accepted
               PROVE  Cardinality({i \in DOMAIN log : log[i] = r}) = 1
    BY DEF AcceptedIsLoggedOnce
  <2>1. PICK k \in DOMAIN log : log[k] = r
    BY DEF TesseraInv, LogInv, AcceptedAreLogged, Range
  <2>2. {i \in DOMAIN log : log[i] = r} = {k}
    BY <2>1 DEF TesseraInv, LogInv, LoggedOnce, IsInjective
  <2> QED
    BY <2>2, FS_Singleton
<1> QED
  BY <1>1, TesseraInvariant, PTL

(* The saved checkpoints of TesseraBuilder.BuildAndSign are consistent     *)
(* with one another: each is over a prefix of every later one, has the     *)
(* size of its root, and is over no more than Tessera itself has signed.   *)
THEOREM CheckpointsStayConsistent == Spec => []CheckpointsAreConsistent
<1>1. TesseraInv => CheckpointsAreConsistent
  <2> SUFFICES ASSUME TesseraInv, NEW c \in DOMAIN checkpoints, NEW d \in DOMAIN checkpoints,
                      c <= d
               PROVE  /\ IsPrefix(checkpoints[c].root, checkpoints[d].root)
                      /\ Len(checkpoints[c].root) = checkpoints[c].treeSize
                      /\ checkpoints[c].treeSize <= logSize
    BY DEF CheckpointsAreConsistent
  <2> DEFINE m == checkpoints[c].treeSize
             n == checkpoints[d].treeSize
  <2>1. log \in Seq(1 .. rows) /\ m \in 0 .. Len(log) /\ n \in m .. Len(log)
    <3>1. log \in Seq(1 .. rows) /\ logSize \in 0 .. Len(log)
      BY DEF TesseraInv, TesseraTypeOK
    <3>2. m \in Nat /\ n \in Nat
      BY CheckpointSizes DEF TesseraInv
    <3>3. m <= n /\ n <= logSize
      BY DEF TesseraInv, CheckpointInv
    <3> QED
      BY <3>1, <3>2, <3>3
  <2>2. /\ checkpoints[c].root = SubSeq(log, 1, m)
        /\ checkpoints[d].root = SubSeq(log, 1, n)
        /\ m <= logSize
    BY DEF TesseraInv, CheckpointInv
  <2> HIDE DEF m, n
  <2>3. IsPrefix(SubSeq(log, 1, m), SubSeq(log, 1, n)) /\ Len(SubSeq(log, 1, m)) = m
    BY <2>1, PrefixesAreNested
  <2> QED
    BY <2>2, <2>3 DEF m
<1> QED
  BY <1>1, TesseraInvariant, PTL

-----------------------------------------------------------------------------
(* The proofs of the log.                                                  *)

\* A proof that was asked for: its sizes exist, and it is computed from the entries.
AskIsGood(ask, entries, latest) ==
    LET leaves == LeavesOf(SubSeq(entries, 1, ask.size))
    IN  /\ ask.stage \in {"inclusion", "consistency"}
        /\ ask.size \in 1 .. latest
        /\ ask.stage = "inclusion" =>
              /\ ask.index \in 0 .. (ask.size - 1)
              /\ ask.path = InclusionProof(leaves, ask.index)
        /\ ask.stage = "consistency" =>
              /\ ask.old \in 1 .. ask.size
              /\ ask.path = ConsistencyProof(ask.old, ask.size, leaves)

LookupIsGood ==
    \/ lookup = NoLookup
    \/ AskIsGood(lookup, log, logSize)
    \/ lookup.stage = "answered" /\ AskIsGood(lookup.for, log, logSize)

(* A proof that was asked for stays good while the log grows under it.     *)
LEMMA AskStays ==
    ASSUME TesseraInv, [Next]_vars, NEW ask, AskIsGood(ask, log, logSize)
    PROVE  AskIsGood(ask, log', logSize')
<1>1. /\ ask.size \in 1 .. logSize
      /\ logSize \in Nat /\ logSize <= Len(log) /\ Len(log) \in Nat
  BY DEF AskIsGood, TesseraInv, TesseraTypeOK
<1>2. SubSeq(log', 1, ask.size) = SubSeq(log, 1, ask.size)
  BY <1>1, LogGrows DEF TesseraInv
<1>3. logSize' \in Nat /\ logSize' >= logSize
  <2>1. \/ logSize' = logSize
        \/ \E n \in 1 .. Len(log) : TesseraPublishes(n)
    BY DEF Next, LedgerNext, Ingest, Insert, LogAppend, Respond, LogAppendFails, Build,
           BuildNothing, BuildFails, GetLogCheckpoint, ReadPrevious, SaveCheckpoint,
           ReadPreviousFails, SaveCheckpointFails, Crash, LookUp, ProveInclusion,
           ProveConsistency, AnswerLookup, LookupDone, vars
  <2> QED
    BY <1>1, <2>1 DEF TesseraPublishes
<1>4. ask.size \in 1 .. logSize'
  BY <1>1, <1>3
<1> QED
  BY <1>2, <1>4 DEF AskIsGood

(* The calls of GetLogInclusionProof and GetLogConsistencyProof keep to    *)
(* the entries; a crash ends them.                                         *)
LEMMA LookupNext == TesseraInv /\ LookupIsGood /\ [Next]_vars => LookupIsGood'
<1> SUFFICES ASSUME TesseraInv, LookupIsGood, [Next]_vars
             PROVE  LookupIsGood'
  OBVIOUS
<1>1. CASE UNCHANGED lookup
  BY <1>1, AskStays DEF LookupIsGood
<1>2. CASE lookup' = NoLookup
  BY <1>2 DEF LookupIsGood
<1>3. logSize \in Nat
  BY DEF TesseraInv, TesseraTypeOK
<1>4. ASSUME NEW n \in 1 .. logSize, NEW index \in 0 .. n - 1, ProveInclusion(index, n)
      PROVE  LookupIsGood'
  BY <1>3, <1>4 DEF ProveInclusion, LookupIsGood, AskIsGood, LogInclusionProof, LogLeaves
<1>5. ASSUME NEW n \in 1 .. logSize, NEW old \in 1 .. n, ProveConsistency(old, n)
      PROVE  LookupIsGood'
  BY <1>3, <1>5 DEF ProveConsistency, LookupIsGood, AskIsGood, LogConsistencyProof, LogLeaves
<1>6. CASE AnswerLookup
  <2>1. AskIsGood(lookup, log, logSize)
    BY <1>6 DEF AnswerLookup, LookupIsGood, NoLookup
  <2>2. lookup'.stage = "answered" /\ lookup'.for = lookup /\ log' = log /\ logSize' = logSize
    BY <1>6 DEF AnswerLookup
  <2> QED
    BY <2>1, <2>2 DEF LookupIsGood
<1>7. CASE LedgerNext
  BY <1>1, <1>2, <1>7
  DEF LedgerNext, Ingest, Insert, LogAppend, Respond, LogAppendFails, TesseraPublishes, Build,
      BuildNothing, BuildFails, GetLogCheckpoint, ReadPrevious, SaveCheckpoint,
      ReadPreviousFails, SaveCheckpointFails, Crash, vars
<1>8. CASE UNCHANGED vars
  BY <1>1, <1>8 DEF vars
<1> QED
  BY <1>2, <1>4, <1>5, <1>6, <1>7, <1>8 DEF Next, LookUp, LookupDone

(* The leaf hashes of the log are those of the theorems about              *)
(* internal/merkle.                                                        *)
LEMMA LeavesAreHashes ==
    ASSUME NEW s
    PROVE  LeavesOf(s) = HashesOf(s)
  BY DEF LeavesOf, HashesOf

(* A proof leads to one root: what VerifyInclusion accepts for a proof and *)
(* one root, it accepts for no other root.                                 *)
LEMMA InclusionHasOneRoot ==
    ASSUME NEW leaf, NEW root, NEW other, NEW index, NEW n, NEW path,
           VerifyInclusion(leaf, root, index, n, path)
    PROVE  VerifyInclusion(leaf, other, index, n, path) <=> other = root
  BY DEF VerifyInclusion

(* The same for VerifyConsistency and an old root.                         *)
LEMMA ConsistencyHasOneRoot ==
    ASSUME NEW old, NEW root, NEW other, NEW m, NEW n, NEW path,
           VerifyConsistency(old, root, m, n, path)
    PROVE  VerifyConsistency(old, other, m, n, path) <=> other = root
  BY DEF VerifyConsistency

(* The answer of a log proof call (TesseraStore.GetLogInclusionProof,      *)
(* GetLogConsistencyProof) verifies exactly when its root is that of the   *)
(* size asked for, though the root is read after the proof and from a log  *)
(* that moves on.                                                          *)
THEOREM LogProofsFitTheirRoot == Spec => []LogProofIsOfItsRoot
<1>1. ASSUME TesseraInv, LookupIsGood, lookup.stage = "answered"
      PROVE  LET ask   == lookup.for
                 right == lookup.root = BuildRoot(LogLeaves(ask.size))
             IN  /\ ask.stage = "inclusion" =>
                       (right <=> VerifyInclusion(HashLeaf(log[ask.index + 1]), lookup.root,
                                                  ask.index, ask.size, ask.path))
                 /\ ask.stage = "consistency" =>
                       (right <=> VerifyConsistency(BuildRoot(LogLeaves(ask.old)), lookup.root,
                                                    ask.old, ask.size, ask.path))
  <2>1. PICK ask, s, n : ask = lookup.for /\ n = ask.size /\ s = SubSeq(log, 1, n)
    OBVIOUS
  <2>2. AskIsGood(ask, log, logSize)
    BY <1>1, <2>1 DEF LookupIsGood, AskIsGood, NoLookup
  <2>3. n \in 1 .. Len(log) /\ n \in Nat /\ Len(log) \in Nat
    BY <1>1, <2>1, <2>2, SMTT(30) DEF AskIsGood, TesseraInv, TesseraTypeOK
  <2>4. log \in Seq(Nat)
    BY <1>1, SeqMonotone DEF TesseraInv, TesseraTypeOK
  <2>5. s \in Seq(Nat) /\ Len(s) = n /\ \A i \in 1 .. n : s[i] = log[i]
    BY <2>1, <2>3, <2>4, SMTT(30)
  <2>6. BuildRoot(LogLeaves(n)) = BuildRoot(LeavesOf(s))
    BY <2>1 DEF LogLeaves
  <2>7. ASSUME ask.stage = "inclusion"
        PROVE  lookup.root = BuildRoot(LogLeaves(n)) <=>
                 VerifyInclusion(HashLeaf(log[ask.index + 1]), lookup.root,
                                 ask.index, n, ask.path)
    <3>1. /\ ask.index \in 0 .. (n - 1)
          /\ ask.path = InclusionProof(LeavesOf(s), ask.index)
      BY <2>1, <2>2, <2>7 DEF AskIsGood
    <3>2. s[ask.index + 1] = log[ask.index + 1]
      BY <2>3, <2>5, <3>1
    <3>3. VerifyInclusion(HashLeaf(log[ask.index + 1]), BuildRoot(LeavesOf(s)),
                          ask.index, n, ask.path)
      BY <2>5, <3>1, <3>2, InclusionOfElement, LeavesAreHashes
    <3> QED
      BY <2>6, <3>3, InclusionHasOneRoot
  <2>8. ASSUME ask.stage = "consistency"
        PROVE  lookup.root = BuildRoot(LogLeaves(n)) <=>
                 VerifyConsistency(BuildRoot(LogLeaves(ask.old)), lookup.root,
                                   ask.old, n, ask.path)
    <3>1. /\ ask.old \in 1 .. n
          /\ ask.path = ConsistencyProof(ask.old, n, LeavesOf(s))
      BY <2>1, <2>2, <2>8 DEF AskIsGood
    <3>2. CASE ask.old = n
      BY <3>1, <3>2 DEF ConsistencyProof, VerifyConsistency
    <3>3. CASE ask.old # n
      <4>1. ask.old \in 1 .. (Len(s) - 1) /\ ask.old \in 0 .. n
        BY <2>3, <2>5, <3>1, <3>3
      <4>2. SubSeq(s, 1, ask.old) = SubSeq(log, 1, ask.old)
        BY <2>1, <2>3, <2>4, <4>1, SMTT(30)
      <4>3. VerifyConsistency(BuildRoot(LogLeaves(ask.old)), BuildRoot(LeavesOf(s)),
                              ask.old, n, ask.path)
        BY <2>5, <3>1, <4>1, <4>2, ConsistencyOfPrefix, LeavesAreHashes
        DEF LogLeaves
      <4> QED
        BY <2>6, <4>3, ConsistencyHasOneRoot
    <3> QED
      BY <3>2, <3>3
  <2> QED
    BY <2>1, <2>7, <2>8
<1>2. TesseraInv /\ LookupIsGood => LogProofIsOfItsRoot
  BY <1>1 DEF LogProofIsOfItsRoot
<1>3. Init => LookupIsGood
  BY DEF Init, LookupIsGood
<1> QED
  BY <1>2, <1>3, LookupNext, TesseraInvariant, PTL DEF Spec

-----------------------------------------------------------------------------
(* What the roots of the saved checkpoints commit the log to.              *)

LEMMA SavedRoot ==
    ASSUME TesseraInv, NEW c \in DOMAIN checkpoints
    PROVE  LET n == checkpoints[c].treeSize
           IN  /\ n \in Nat /\ 0 < n /\ n <= Len(log) /\ Len(log) \in Nat
               /\ checkpoints[c].root \in Seq(Nat)
               /\ Len(checkpoints[c].root) = n
               /\ checkpoints[c].root = SubSeq(log, 1, n)
               /\ log \in Seq(Nat)
<1> DEFINE n == checkpoints[c].treeSize
<1>1. log \in Seq(Nat) /\ logSize \in 0 .. Len(log)
  BY SeqMonotone DEF TesseraInv, TesseraTypeOK
<1>2. n \in Nat
  BY CheckpointSizes DEF TesseraInv
<1>3. 0 < n /\ n <= logSize /\ checkpoints[c].root = SubSeq(log, 1, n)
  BY DEF TesseraInv, CheckpointInv
<1> HIDE DEF n
<1>4. n <= Len(log) /\ Len(log) \in Nat
  BY <1>1, <1>2, <1>3
<1>5. SubSeq(log, 1, n) \in Seq(Nat) /\ Len(SubSeq(log, 1, n)) = n
  BY <1>1, <1>2, <1>3, <1>4
<1> QED
  BY <1>1, <1>2, <1>3, <1>4, <1>5 DEF n

SavedRootHash(c) == BuildRoot(LeavesOf(checkpoints[c].root))

\* The consistency proof the log computes leads from a checkpoint to any later one.
CheckpointsAreLinked ==
    \A c, d \in DOMAIN checkpoints :
        c <= d => VerifyConsistency(SavedRootHash(c), SavedRootHash(d),
                                    checkpoints[c].treeSize, checkpoints[d].treeSize,
                                    LogConsistencyProof(checkpoints[c].treeSize,
                                                        checkpoints[d].treeSize))

(* A client that holds any saved checkpoint can be taken to any later one: *)
(* the proof computed from the log of the moment (GetLogConsistencyProof   *)
(* of TesseraStore, on the RFC 6962 tree that Tessera keeps) verifies      *)
(* between their roots and sizes, whatever failed, was appended or was     *)
(* restarted in between.                                                   *)
THEOREM SavedCheckpointsAreLinked == Spec => []CheckpointsAreLinked
<1>1. ASSUME TesseraInv, NEW c \in DOMAIN checkpoints, NEW d \in DOMAIN checkpoints, c <= d
      PROVE  VerifyConsistency(SavedRootHash(c), SavedRootHash(d),
                               checkpoints[c].treeSize, checkpoints[d].treeSize,
                               LogConsistencyProof(checkpoints[c].treeSize,
                                                   checkpoints[d].treeSize))
  <2> DEFINE m == checkpoints[c].treeSize
             n == checkpoints[d].treeSize
             old == checkpoints[c].root
             s == checkpoints[d].root
  <2>1. m \in Nat /\ 0 < m /\ old = SubSeq(log, 1, m) /\ log \in Seq(Nat)
    BY <1>1, SavedRoot
  <2>2. /\ n \in Nat /\ n <= Len(log) /\ s \in Seq(Nat) /\ Len(s) = n
        /\ s = SubSeq(log, 1, n)
    BY <1>1, SavedRoot
  <2>3. m <= n
    BY <1>1 DEF TesseraInv, CheckpointInv
  <2>4. LogConsistencyProof(m, n) = ConsistencyProof(m, n, HashesOf(s))
    BY <2>2, LeavesAreHashes DEF LogConsistencyProof, LogLeaves
  <2>5. /\ SavedRootHash(c) = BuildRoot(HashesOf(old))
        /\ SavedRootHash(d) = BuildRoot(HashesOf(s))
    BY LeavesAreHashes DEF SavedRootHash
  <2> HIDE DEF m, n, old, s
  <2>6. SubSeq(s, 1, m) = old
    BY <2>1, <2>2, <2>3
  <2>7. VerifyConsistency(BuildRoot(HashesOf(SubSeq(s, 1, m))), BuildRoot(HashesOf(s)),
                          m, Len(s), ConsistencyProof(m, Len(s), HashesOf(s)))
    <3>1. m \in 1 .. Len(s)
      BY <2>1, <2>2, <2>3
    <3> QED
      BY <2>2, <3>1, ConsistencyOfPrefix
  <2> QED
    BY <2>2, <2>4, <2>5, <2>6, <2>7 DEF m, n
<1>2. TesseraInv => CheckpointsAreLinked
  BY <1>1 DEF CheckpointsAreLinked
<1> QED
  BY <1>2, TesseraInvariant, PTL

\* Whatever verifies at an index of a saved checkpoint is the log's entry there.
SavedRootsAreBinding ==
    \A c \in DOMAIN checkpoints : \A S, receipt, index : \A proof \in Seq(S) :
        VerifyInclusion(HashLeaf(receipt), SavedRootHash(c), index,
                        checkpoints[c].treeSize, proof)
        => index \in Nat /\ index + 1 \in DOMAIN log /\ log[index + 1] = receipt

(* A saved checkpoint of the Tessera mode commits the log to its entries:  *)
(* whoever made the proof, a receipt that verifies under its root and size *)
(* (internal/merkle/proof.go) is the log's entry at that index.            *)
THEOREM SavedCheckpointsAreBinding == Spec => []SavedRootsAreBinding
<1>1. ASSUME TesseraInv, NEW c \in DOMAIN checkpoints, NEW S, NEW receipt, NEW index,
             NEW proof \in Seq(S),
             VerifyInclusion(HashLeaf(receipt), SavedRootHash(c), index,
                             checkpoints[c].treeSize, proof)
      PROVE  index \in Nat /\ index + 1 \in DOMAIN log /\ log[index + 1] = receipt
  <2> DEFINE n == checkpoints[c].treeSize
             s == checkpoints[c].root
  <2>1. /\ n \in Nat /\ 0 < n /\ n <= Len(log) /\ Len(log) \in Nat
        /\ s \in Seq(Nat) /\ Len(s) = n /\ s = SubSeq(log, 1, n)
        /\ log \in Seq(Nat)
    BY <1>1, SavedRoot
  <2>2. VerifyInclusion(HashLeaf(receipt), BuildRoot(HashesOf(s)), index, Len(s), proof)
    BY <1>1, <2>1, LeavesAreHashes DEF SavedRootHash
  <2> HIDE DEF n, s
  <2>3. index \in 0 .. (Len(s) - 1) /\ s[index + 1] = receipt
    <3>1. s # <<>>
      <4>1. Len(s) # 0
        BY <2>1
      <4> QED
        BY <4>1
    <3> QED
      BY <2>1, <2>2, <3>1, ElementOfInclusion
  <2>4. index \in Nat /\ index + 1 \in 1 .. n
    BY <2>1, <2>3
  <2> QED
    BY <2>1, <2>3, <2>4
<1>2. TesseraInv => SavedRootsAreBinding
  BY <1>1 DEF SavedRootsAreBinding
<1> QED
  BY <1>2, TesseraInvariant, PTL

-----------------------------------------------------------------------------
(* The abstract log.                                                       *)

\* What the saved checkpoints publish: each the entries from the first one on.
PublishedPrefixes ==
    [c \in DOMAIN checkpoints |-> [first |-> 1, last |-> checkpoints[c].treeSize]]

\* The entries of the Tessera log are the log, a saved checkpoint is a published range.
EntryLog == INSTANCE CheckpointLog WITH
    size <- Len(log),
    published <- PublishedPrefixes

(* A saved checkpoint is one more published range over entries that exist. *)
LEMMA SavePublishesPrefix ==
    ASSUME TesseraInv, SaveCheckpoint
    PROVE  \E first, last \in 1 .. Len(log) : EntryLog!Publish(first, last)
<1> DEFINE n == Len(checkpoints)
           span == [first |-> 1, last |-> size]
           Spans == [first : Nat, last : Nat]
<1>1. /\ checkpoints' = Append(checkpoints, NewCheckpoint)
      /\ log' = log
      /\ size \in 1 .. Len(log) /\ 1 \in 1 .. Len(log)
  BY DEF SaveCheckpoint, TesseraInv, TesseraTypeOK, CheckpointInv
<1>2. /\ n \in Nat /\ DOMAIN checkpoints = 1 .. n
      /\ \A c \in 1 .. n : checkpoints[c].treeSize \in Nat
  BY CheckpointSizes DEF TesseraInv
<1>3. /\ DOMAIN checkpoints' = 1 .. (n + 1)
      /\ \A c \in 1 .. n : checkpoints'[c] = checkpoints[c]
      /\ checkpoints'[n + 1] = NewCheckpoint
  BY <1>1 DEF TesseraInv, TesseraTypeOK
<1>4. NewCheckpoint.treeSize = size
  BY DEF NewCheckpoint
<1> HIDE DEF n
<1>5. PublishedPrefixes \in Seq(Spans) /\ Len(PublishedPrefixes) = n
  <2>1. PublishedPrefixes =
          [c \in 1 .. n |-> [first |-> 1, last |-> checkpoints[c].treeSize]]
    BY <1>2 DEF PublishedPrefixes
  <2>2. \A c \in 1 .. n : [first |-> 1, last |-> checkpoints[c].treeSize] \in Spans
    BY <1>2
  <2> HIDE DEF Spans
  <2> QED
    BY <1>2, <2>1, <2>2
<1>6. Append(PublishedPrefixes, span)
        = [c \in 1 .. (n + 1) |-> IF c = n + 1 THEN span ELSE PublishedPrefixes[c]]
  BY <1>2, <1>5
<1>7. PublishedPrefixes' =
        [c \in 1 .. (n + 1) |-> [first |-> 1, last |-> checkpoints'[c].treeSize]]
  BY <1>3 DEF PublishedPrefixes
<1>8. \A c \in 1 .. (n + 1) : c # n + 1 => c \in 1 .. n
  BY <1>2
<1>9. \A c \in 1 .. n :
         PublishedPrefixes[c] = [first |-> 1, last |-> checkpoints[c].treeSize]
  BY <1>2 DEF PublishedPrefixes
<1>10. PublishedPrefixes' = Append(PublishedPrefixes, span)
  BY <1>3, <1>4, <1>6, <1>7, <1>8, <1>9
<1>11. EntryLog!Publish(1, size)
  BY <1>1, <1>10 DEF EntryLog!Publish, EntryLog!Reached
<1> QED
  BY <1>1, <1>11

(* The Tessera mode implements the same abstract log as the SQLite mode    *)
(* (CheckpointLog): entries are only added, checkpoints only accumulate    *)
(* and publish ranges of entries that exist and leave none out.            *)
THEOREM TesseraRefinesCheckpointLog == Spec => EntryLog!LogSpec
<1>1. Init => EntryLog!LogInit
  BY DEF Init, EntryLog!LogInit, PublishedPrefixes
<1>2. TesseraInv /\ [Next]_vars => [EntryLog!LogNext]_(EntryLog!logVars)
  <2> SUFFICES ASSUME TesseraInv, [Next]_vars
               PROVE  [EntryLog!LogNext]_(EntryLog!logVars)
    OBVIOUS
  <2>1. CASE SaveCheckpoint
    BY <2>1, SavePublishesPrefix DEF EntryLog!LogNext
  <2>2. CASE UNCHANGED checkpoints
    <3>1. PublishedPrefixes' = PublishedPrefixes
      BY <2>2 DEF PublishedPrefixes
    <3>2. Len(log) \in Nat /\ Len(log') \in Nat /\ Len(log') >= Len(log)
      BY LogGrows, TesseraTypeNext DEF TesseraInv, TesseraTypeOK
    <3>3. CASE Len(log') = Len(log)
      BY <3>1, <3>3 DEF EntryLog!logVars
    <3>4. CASE Len(log') > Len(log)
      BY <3>1, <3>2, <3>4 DEF EntryLog!LogNext, EntryLog!Grow
    <3> QED
      BY <3>2, <3>3, <3>4
  <2>3. SaveCheckpoint \/ UNCHANGED checkpoints
    BY DEF Next, LedgerNext, Ingest, Insert, LogAppend, Respond, LogAppendFails, Build,
           BuildNothing, BuildFails, GetLogCheckpoint, ReadPrevious, TesseraPublishes,
           ReadPreviousFails, SaveCheckpointFails, Crash, LookUp, ProveInclusion,
           ProveConsistency, AnswerLookup, LookupDone, vars
  <2> QED
    BY <2>1, <2>2, <2>3
<1> QED
  BY <1>1, <1>2, TesseraInvariant, PTL DEF Spec, EntryLog!LogSpec
=============================================================================
