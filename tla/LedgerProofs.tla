---------------------------- MODULE LedgerProofs ----------------------------
(***************************************************************************)
(* Proofs about Ledger, for every set of builders, every batch size and    *)
(* every number of receipts and faults, and about the parts that read a    *)
(* running ledger one store call or one HTTP request at a time: the        *)
(* discrepancy monitor (Monitor) and the proof endpoints (ProofServer).    *)
(***************************************************************************)
EXTENDS Monitor, ProofServer, MerkleProofs, FiniteSetTheorems

-----------------------------------------------------------------------------
(* What Batch is: a list of row ids, of the length of its range.           *)
LEMMA BatchProperties ==
    ASSUME NEW s \in Nat, NEW e \in Nat, s <= e + 1
    PROVE  /\ Batch(s, e) \in Seq(Nat)
           /\ Len(Batch(s, e)) = e - s + 1
           /\ \A i \in 1 .. (e - s + 1) : Batch(s, e)[i] = s + i - 1
  <1> DEFINE n == e - s + 1
  <1>1. n \in Nat
    OBVIOUS
  <1>2. Batch(s, e) = [i \in 1 .. n |-> s + i - 1]
    BY DEF Batch
  <1>3. \A i \in 1 .. n : s + i - 1 \in Nat
    OBVIOUS
  <1> HIDE DEF n
  <1>4. Batch(s, e) \in Seq(Nat) /\ Len(Batch(s, e)) = n
    BY <1>1, <1>2, <1>3
  <1>5. QED
    BY <1>2, <1>4 DEF n

(* Reading an interval of ids in ascending order gives the batch.          *)
LEMMA AscendingInterval ==
    ASSUME NEW s \in Nat, NEW e \in Nat, s <= e + 1
    PROVE  Ascending(s .. e) = Batch(s, e)
  <1>1. Cardinality(s .. e) = e - s + 1
    BY FS_Interval
  <1>2. ASSUME NEW i \in 1 .. (e - s + 1)
        PROVE  (CHOOSE x \in s .. e : Cardinality({y \in s .. e : y < x}) = i - 1)
                 = s + i - 1
    <2>1. \A x \in s .. e : Cardinality({y \in s .. e : y < x}) = x - s
      <3> TAKE x \in s .. e
      <3>1. {y \in s .. e : y < x} = s .. (x - 1)
        OBVIOUS
      <3>2. Cardinality(s .. (x - 1)) = x - s
        <4>1. s \in Int /\ x - 1 \in Int /\ s <= x
          OBVIOUS
        <4>2. Cardinality(s .. (x - 1))
                = IF s > x - 1 THEN 0 ELSE (x - 1) - s + 1
          BY <4>1, FS_Interval
        <4> QED
          BY <4>1, <4>2
      <3> QED
        BY <3>1, <3>2
    <2>2. s + i - 1 \in s .. e
      OBVIOUS
    <2>3. \A x \in s .. e :
             Cardinality({y \in s .. e : y < x}) = i - 1 <=> x = s + i - 1
      BY <2>1
    <2> QED
      BY <2>2, <2>3
  <1>3. QED
    BY <1>1, <1>2 DEF Ascending, Batch

(* FetchUnbatched returns nothing, or the run of rows that starts right    *)
(* after the marked prefix, cut at the batch size.                         *)
LEMMA FetchShape ==
    ASSUME TypeOK, BatchedIsPrefix, FetchUnbatched(MaxBatch) # <<>>
    PROVE  \E s, e \in 1 .. rows :
              /\ s <= e
              /\ FetchUnbatched(MaxBatch) = Batch(s, e)
              /\ 1 .. (s - 1) \subseteq batched
  <1> USE LedgerAssumption
  <1>1. PICK p \in 0 .. rows : batched = 1 .. p
    BY DEF BatchedIsPrefix
  <1>2. rows \in Nat /\ p \in Nat /\ p <= rows
    BY <1>1 DEF TypeOK
  <1>3. Unbatched = (p + 1) .. rows
    BY <1>1, <1>2 DEF Unbatched
  <1>4. Ascending(Unbatched) = Batch(p + 1, rows)
    BY <1>2, <1>3, AscendingInterval
  <1> DEFINE k == IF MaxBatch < rows - p THEN MaxBatch ELSE rows - p
  <1>5. k \in Nat /\ k <= rows - p
    BY <1>2
  <1>6. /\ Len(Batch(p + 1, rows)) = rows - p
        /\ \A i \in 1 .. (rows - p) : Batch(p + 1, rows)[i] = p + i
    <2>1. p + 1 \in Nat /\ rows \in Nat /\ p + 1 <= rows + 1
      BY <1>2
    <2>2. rows - (p + 1) + 1 = rows - p
      BY <1>2
    <2>3. /\ Len(Batch(p + 1, rows)) = rows - (p + 1) + 1
          /\ \A i \in 1 .. (rows - (p + 1) + 1) : Batch(p + 1, rows)[i] = (p + 1) + i - 1
      BY <2>1, BatchProperties
    <2>4. \A i \in 1 .. (rows - p) : (p + 1) + i - 1 = p + i
      BY <1>2
    <2> QED
      BY <2>2, <2>3, <2>4
  <1>7. FetchUnbatched(MaxBatch) = [i \in 1 .. k |-> p + i]
    <2>1. FetchUnbatched(MaxBatch) = [i \in 1 .. k |-> Batch(p + 1, rows)[i]]
      BY <1>4, <1>6 DEF FetchUnbatched, Limit
    <2>2. \A i \in 1 .. k : Batch(p + 1, rows)[i] = p + i
      BY <1>2, <1>5, <1>6
    <2> QED
      BY <2>1, <2>2
  <1>8. k # 0
    <2> SUFFICES ASSUME k = 0 PROVE FALSE
      OBVIOUS
    <2>1. FetchUnbatched(MaxBatch) = [i \in 1 .. 0 |-> p + i]
      BY <1>7
    <2> QED
      BY <2>1
  <1>9. Batch(p + 1, p + k) = [i \in 1 .. k |-> p + i]
    <2>1. (p + k) - (p + 1) + 1 = k
      BY <1>2, <1>5
    <2>2. \A i \in 1 .. k : (p + 1) + i - 1 = p + i
      BY <1>2, <1>5
    <2> QED
      BY <2>1, <2>2 DEF Batch
  <1>10. p + 1 \in 1 .. rows /\ p + k \in 1 .. rows /\ p + 1 <= p + k
    BY <1>2, <1>5, <1>8
  <1>11. 1 .. ((p + 1) - 1) \subseteq batched
    BY <1>1, <1>2
  <1> HIDE DEF k
  <1> QED
    BY <1>7, <1>9, <1>10, <1>11

-----------------------------------------------------------------------------
(* The initial state: nothing ingested, nothing in flight.                 *)
LEMMA IndInvInit == Init => IndInv
  <1> SUFFICES ASSUME Init PROVE IndInv
    OBVIOUS
  <1> USE LedgerAssumption DEF Init
  <1>1. TypeOK
    BY DEF TypeOK, Stages
  <1>2. BatchedIsPrefix
    BY DEF BatchedIsPrefix
  <1>3. DOMAIN checkpoints = {}
    OBVIOUS
  <1>4. QED
    BY <1>1, <1>2, <1>3
       DEF IndInv, BatchedIsCovered, NoGap, PreviousIsEarlier, PrevRootIsPublished

(* Receipts that are only added leave everything said of older rows alone. *)
LEMMA RowsGrow ==
    ASSUME IndInv,
           rows' \in rows .. MaxRows,
           UNCHANGED <<batched, checkpoints, pc, stored, prevRoot>>,
           faults' \in 0 .. MaxFaults
    PROVE  IndInv'
  <1> USE LedgerAssumption
  <1>0. rows \in Nat /\ rows' \in Nat /\ rows <= rows'
    BY DEF IndInv, TypeOK
  <1>1. TypeOK'
    BY <1>0 DEF IndInv, TypeOK
  <1>2. BatchedIsPrefix'
    <2>1. PICK p \in 0 .. rows : batched = 1 .. p
      BY DEF IndInv, BatchedIsPrefix
    <2>2. p \in 0 .. rows' /\ batched' = 1 .. p
      BY <1>0, <2>1
    <2> QED
      BY <2>2 DEF BatchedIsPrefix
  <1>3. ASSUME NEW b \in Builders, pc'[b] # "idle" PROVE InFlight(b)'
    <2>1. InFlight(b)
      BY <1>3 DEF IndInv
    <2>2. \A s \in 1 .. rows : s \in 1 .. rows'
      BY <1>0
    <2> QED
      BY <2>1, <2>2 DEF InFlight
  <1>4. ASSUME NEW c \in DOMAIN checkpoints'
        PROVE  CheckpointIsBatch(checkpoints[c])'
    <2>1. CheckpointIsBatch(checkpoints[c])
      BY DEF IndInv
    <2> QED
      BY <1>0, <2>1 DEF CheckpointIsBatch
  <1>5. (BatchedIsCovered /\ NoGap /\ PreviousIsEarlier)'
    BY DEF IndInv, BatchedIsCovered, NoGap, PreviousIsEarlier, Covered, Covers
  <1>6. \A b \in Builders : PrevRootIsPublished(b)'
    BY DEF IndInv, PrevRootIsPublished
  <1>7. QED
    BY <1>1, <1>2, <1>3, <1>4, <1>5, <1>6 DEF IndInv

(* A step that leaves the store alone only has to keep the types and what  *)
(* is said of the builders.                                                *)
LEMMA StoreUnchanged ==
    ASSUME IndInv, UNCHANGED storeVars, TypeOK',
           \A b \in Builders : pc'[b] # "idle" => InFlight(b)',
           \A b \in Builders : PrevRootIsPublished(b)'
    PROVE  IndInv'
  <1> USE DEF storeVars
  <1>1. BatchedIsPrefix'
    BY DEF IndInv, BatchedIsPrefix
  <1>2. \A c \in DOMAIN checkpoints' : CheckpointIsBatch(checkpoints[c])'
    BY DEF IndInv, CheckpointIsBatch
  <1>3. (BatchedIsCovered /\ NoGap /\ PreviousIsEarlier)'
    BY DEF IndInv, BatchedIsCovered, NoGap, PreviousIsEarlier, Covered, Covers
  <1>4. QED
    BY <1>1, <1>2, <1>3 DEF IndInv

(* The fault counter stays in its range.                                   *)
LEMMA FaultBound ==
    ASSUME TypeOK, NoFault \/ \E kind : Fault(kind)
    PROVE  faults' \in 0 .. MaxFaults
  BY LedgerAssumption DEF TypeOK, NoFault, Fault

(* A build that returns drops its batch; the other builds keep theirs.     *)
LEMMA ReturnKeepsInv ==
    ASSUME IndInv, NEW b \in Builders, NEW from \in Stages, Return(b, from),
           UNCHANGED storeVars, faults' \in 0 .. MaxFaults
    PROVE  IndInv'
  <1> USE LedgerAssumption DEF storeVars, Return, Goto
  <1>1. TypeOK'
    BY DEF IndInv, TypeOK, Stages
  <1>2. ASSUME NEW a \in Builders, pc'[a] # "idle" PROVE InFlight(a)'
    <2>1. a # b /\ pc'[a] = pc[a] /\ stored'[a] = stored[a]
      BY <1>2 DEF IndInv, TypeOK
    <2>2. InFlight(a)
      BY <1>2, <2>1 DEF IndInv
    <2> QED
      BY <2>1, <2>2 DEF InFlight
  <1>3. ASSUME NEW a \in Builders PROVE PrevRootIsPublished(a)'
    <2>1. prevRoot'[a] = prevRoot[a] \/ prevRoot'[a] = <<>>
      BY DEF IndInv, TypeOK
    <2>2. PrevRootIsPublished(a)
      BY DEF IndInv
    <2> QED
      BY <2>1, <2>2 DEF PrevRootIsPublished
  <1>4. QED
    BY <1>1, <1>2, <1>3, StoreUnchanged

(* The batch a builder fetches starts right after the marked prefix.       *)
LEMMA FetchKeepsInv ==
    ASSUME IndInv, NEW b \in Builders, Fetch(b)
    PROVE  IndInv'
  <1> USE LedgerAssumption DEF storeVars, Goto, NoFault
  <1>1. PICK s, e \in 1 .. rows :
           /\ s <= e
           /\ FetchUnbatched(MaxBatch) = Batch(s, e)
           /\ 1 .. (s - 1) \subseteq batched
    BY FetchShape DEF Fetch, IndInv
  <1>2. s \in Nat /\ e \in Nat /\ rows \in Nat
    BY DEF IndInv, TypeOK
  <1>3. Batch(s, e) \in Seq(Nat)
    BY <1>1, <1>2, BatchProperties
  <1>4. /\ stored' = [stored EXCEPT ![b] = Batch(s, e)]
        /\ pc' = [pc EXCEPT ![b] = "fetched"]
        /\ UNCHANGED <<prevRoot, rows, batched, checkpoints, faults>>
    BY <1>1 DEF Fetch
  <1>5. TypeOK'
    BY <1>3, <1>4 DEF IndInv, TypeOK, Stages
  <1>6. ASSUME NEW a \in Builders, pc'[a] # "idle" PROVE InFlight(a)'
    <2>1. CASE a = b
      <3>1. stored'[a] = Batch(s, e) /\ pc'[a] = "fetched"
        BY <1>4, <2>1 DEF IndInv, TypeOK
      <3> QED
        BY <1>1, <1>4, <3>1 DEF InFlight
    <2>2. CASE a # b
      <3>1. pc'[a] = pc[a] /\ stored'[a] = stored[a]
        BY <1>4, <2>2 DEF IndInv, TypeOK
      <3>2. InFlight(a)
        BY <1>6, <3>1 DEF IndInv
      <3> QED
        BY <1>4, <3>1, <3>2 DEF InFlight
    <2> QED
      BY <2>1, <2>2
  <1>7. \A a \in Builders : PrevRootIsPublished(a)'
    BY <1>4 DEF IndInv, PrevRootIsPublished
  <1>8. QED
    BY <1>4, <1>5, <1>6, <1>7, StoreUnchanged

(* Both outcomes of LatestCheckpoint leave "" or a published root.         *)
LEMMA ReadKeepsInv ==
    ASSUME IndInv, NEW b \in Builders, ReadPrevious(b) \/ ReadPreviousFails(b)
    PROVE  IndInv'
  <1> USE LedgerAssumption DEF storeVars, Goto
  <1>1. PICK r : /\ prevRoot' = [prevRoot EXCEPT ![b] = r]
                 /\ r = <<>> \/ r = LatestRoot
    BY DEF ReadPrevious, ReadPreviousFails
  <1>2. /\ pc' = [pc EXCEPT ![b] = "signed"]
        /\ pc[b] = "fetched"
        /\ UNCHANGED <<stored, rows, batched, checkpoints>>
    BY DEF ReadPrevious, ReadPreviousFails
  <1>3. faults' \in 0 .. MaxFaults
    BY FaultBound DEF ReadPrevious, ReadPreviousFails, IndInv
  <1>4. \/ r = <<>>
        \/ \E c \in DOMAIN checkpoints : checkpoints[c].root = r
    <2>1. checkpoints \in Seq(Checkpoint)
      BY DEF IndInv, TypeOK
    <2>2. checkpoints # <<>> => Len(checkpoints) \in DOMAIN checkpoints
      BY <2>1
    <2> QED
      BY <1>1, <2>2 DEF LatestRoot
  <1>5. r \in Seq(Nat)
    <2>1. checkpoints \in Seq(Checkpoint)
      BY DEF IndInv, TypeOK
    <2>2. \A c \in DOMAIN checkpoints : checkpoints[c] \in Checkpoint
      BY <2>1
    <2>3. \A c \in DOMAIN checkpoints : checkpoints[c].root \in Seq(Nat)
      BY <2>2 DEF Checkpoint
    <2>4. <<>> \in Seq(Nat)
      OBVIOUS
    <2>5. CASE r = <<>>
      BY <2>4, <2>5
    <2>6. CASE \E c \in DOMAIN checkpoints : checkpoints[c].root = r
      BY <2>3, <2>6
    <2> QED
      BY <1>4, <2>5, <2>6
  <1>6. TypeOK'
    BY <1>1, <1>2, <1>3, <1>5 DEF IndInv, TypeOK, Stages
  <1>7. ASSUME NEW a \in Builders, pc'[a] # "idle" PROVE InFlight(a)'
    <2>1. pc[a] # "idle" /\ (pc'[a] = "saved" => pc[a] = "saved")
      BY <1>2, <1>7 DEF IndInv, TypeOK
    <2>2. InFlight(a)
      BY <2>1 DEF IndInv
    <2> QED
      BY <1>2, <2>1, <2>2 DEF InFlight
  <1>8. ASSUME NEW a \in Builders PROVE PrevRootIsPublished(a)'
    <2>1. prevRoot'[a] = prevRoot[a] \/ prevRoot'[a] = r
      BY <1>1 DEF IndInv, TypeOK
    <2>2. PrevRootIsPublished(a)
      BY DEF IndInv
    <2> QED
      BY <1>2, <1>4, <2>1, <2>2 DEF PrevRootIsPublished
  <1>9. QED
    BY <1>2, <1>6, <1>7, <1>8, StoreUnchanged

(* A saved checkpoint covers its batch, and everything before the batch    *)
(* was covered already.                                                    *)
LEMMA SaveKeepsInv ==
    ASSUME IndInv, NEW b \in Builders, SaveCheckpoint(b)
    PROVE  IndInv'
  <1> USE LedgerAssumption DEF Goto, NoFault
  <1> DEFINE cp == NewCheckpoint(b)
             n == Len(checkpoints)
  <1>1. /\ pc[b] = "signed"
        /\ pc' = [pc EXCEPT ![b] = "saved"]
        /\ checkpoints' = Append(checkpoints, cp)
        /\ UNCHANGED <<rows, batched, stored, prevRoot, faults>>
    BY DEF SaveCheckpoint
  <1>2. PICK s, e \in 1 .. rows :
           /\ s <= e
           /\ stored[b] = Batch(s, e)
           /\ 1 .. (s - 1) \subseteq batched
    BY <1>1 DEF IndInv, InFlight
  <1>3. s \in Nat /\ e \in Nat /\ rows \in Nat /\ e - s + 1 \in 1 .. (e - s + 1)
    BY <1>2 DEF IndInv, TypeOK
  <1>4. /\ Batch(s, e) \in Seq(Nat)
        /\ Len(Batch(s, e)) = e - s + 1
        /\ Batch(s, e)[1] = s
        /\ Batch(s, e)[e - s + 1] = e
    <2>1. /\ Batch(s, e) \in Seq(Nat)
          /\ Len(Batch(s, e)) = e - s + 1
          /\ \A i \in 1 .. (e - s + 1) : Batch(s, e)[i] = s + i - 1
      BY <1>2, <1>3, BatchProperties
    <2>2. 1 \in 1 .. (e - s + 1) /\ s + 1 - 1 = s /\ s + (e - s + 1) - 1 = e
      BY <1>2, <1>3
    <2> QED
      BY <1>3, <2>1, <2>2
  <1>5. /\ cp.batchStart = s
        /\ cp.batchEnd = e
        /\ cp.treeSize = e - s + 1
        /\ cp.root = Batch(s, e)
        /\ cp.prev = prevRoot[b]
    BY <1>2, <1>4 DEF NewCheckpoint
  <1>6. cp \in Checkpoint
    <2>1. prevRoot[b] \in Seq(Nat) /\ e - s + 1 \in Nat
      BY <1>2, <1>3 DEF IndInv, TypeOK
    <2> QED
      BY <1>2, <1>3, <1>4, <2>1 DEF NewCheckpoint, Checkpoint
  <1>7. /\ checkpoints \in Seq(Checkpoint)
        /\ n \in Nat
        /\ DOMAIN checkpoints = 1 .. n
    BY DEF IndInv, TypeOK
  <1> HIDE DEF cp
  <1>8. /\ checkpoints' \in Seq(Checkpoint)
        /\ DOMAIN checkpoints' = 1 .. (n + 1)
        /\ \A c \in 1 .. n : checkpoints'[c] = checkpoints[c]
        /\ checkpoints'[n + 1] = cp
    BY <1>1, <1>6, <1>7
  <1> HIDE DEF n
  <1>9. TypeOK'
    BY <1>1, <1>8 DEF IndInv, TypeOK, Stages
  <1>10. BatchedIsPrefix'
    BY <1>1 DEF IndInv, BatchedIsPrefix
  <1>11. \A i : Covered(i) => Covered(i)'
    <2> SUFFICES ASSUME NEW i, NEW c \in DOMAIN checkpoints, Covers(checkpoints[c], i)
                 PROVE  Covered(i)'
      BY DEF Covered
    <2>1. c \in DOMAIN checkpoints' /\ checkpoints'[c] = checkpoints[c]
      BY <1>7, <1>8
    <2> QED
      BY <2>1 DEF Covered, Covers
  <1>12. \A i \in s .. e : Covered(i)'
    <2>1. n + 1 \in DOMAIN checkpoints'
      BY <1>7, <1>8
    <2> QED
      BY <1>5, <1>8, <2>1, <1>3 DEF Covered, Covers
  <1>13. BatchedIsCovered'
    BY <1>1, <1>11 DEF IndInv, BatchedIsCovered
  <1>14. ASSUME NEW c \in DOMAIN checkpoints', NEW i \in 1 .. checkpoints'[c].batchEnd
         PROVE  Covered(i)'
    <2>1. CASE c \in 1 .. n
      <3>1. checkpoints'[c] = checkpoints[c] /\ c \in DOMAIN checkpoints
        BY <1>7, <1>8, <2>1
      <3>2. Covered(i)
        BY <1>14, <3>1 DEF IndInv, NoGap
      <3> QED
        BY <3>2, <1>11
    <2>2. CASE c = n + 1
      <3>1. i \in 1 .. e
        BY <1>5, <1>8, <1>14, <2>2
      <3>2. i \in 1 .. (s - 1) \/ i \in s .. e
        BY <1>3, <3>1
      <3>3. CASE i \in 1 .. (s - 1)
        <4>1. Covered(i)
          BY <1>2, <3>3 DEF IndInv, BatchedIsCovered
        <4> QED
          BY <4>1, <1>11
      <3>4. CASE i \in s .. e
        BY <1>12, <3>4
      <3> QED
        BY <3>2, <3>3, <3>4
    <2> QED
      BY <1>7, <1>8, <1>14, <2>1, <2>2
  <1>15. ASSUME NEW c \in DOMAIN checkpoints'
         PROVE  CheckpointIsBatch(checkpoints[c])'
    <2>1. CASE c \in 1 .. n
      <3>1. checkpoints'[c] = checkpoints[c] /\ CheckpointIsBatch(checkpoints[c])
        BY <1>7, <1>8, <2>1 DEF IndInv
      <3> QED
        BY <1>1, <3>1 DEF CheckpointIsBatch
    <2>2. CASE c = n + 1
      BY <1>1, <1>2, <1>3, <1>5, <1>8, <2>2 DEF CheckpointIsBatch
    <2> QED
      BY <1>7, <1>8, <1>15, <2>1, <2>2
  <1>16. ASSUME NEW a \in Builders, pc'[a] # "idle" PROVE InFlight(a)'
    <2>1. CASE a = b
      <3>1. n + 1 \in DOMAIN checkpoints'
        BY <1>7, <1>8
      <3> QED
        BY <1>1, <1>2, <1>5, <1>8, <2>1, <3>1 DEF InFlight
    <2>2. CASE a # b
      <3>1. pc'[a] = pc[a]
        BY <1>1, <2>2 DEF IndInv, TypeOK
      <3>2. PICK x, y \in 1 .. rows :
               /\ x <= y
               /\ stored[a] = Batch(x, y)
               /\ 1 .. (x - 1) \subseteq batched
               /\ pc[a] = "saved" =>
                     \E c \in DOMAIN checkpoints :
                         checkpoints[c].batchStart = x /\ checkpoints[c].batchEnd = y
        BY <1>16, <3>1 DEF IndInv, InFlight
      <3>3. \A c \in DOMAIN checkpoints :
               c \in DOMAIN checkpoints' /\ checkpoints'[c] = checkpoints[c]
        BY <1>7, <1>8
      <3>4. pc'[a] = "saved" =>
               \E c \in DOMAIN checkpoints' :
                   checkpoints'[c].batchStart = x /\ checkpoints'[c].batchEnd = y
        BY <3>1, <3>2, <3>3
      <3> QED
        BY <1>1, <3>2, <3>4 DEF InFlight
    <2> QED
      BY <2>1, <2>2
  <1>17. ASSUME NEW a \in Builders PROVE PrevRootIsPublished(a)'
    <2>1. PrevRootIsPublished(a)
      BY DEF IndInv
    <2>2. \A c \in DOMAIN checkpoints :
             c \in DOMAIN checkpoints' /\ checkpoints'[c] = checkpoints[c]
      BY <1>7, <1>8
    <2> QED
      BY <1>1, <2>1, <2>2 DEF PrevRootIsPublished
  <1>18. ASSUME NEW c \in DOMAIN checkpoints'
         PROVE  \/ checkpoints'[c].prev = <<>>
                \/ \E d \in 1 .. (c - 1) : checkpoints'[d].root = checkpoints'[c].prev
    <2>1. CASE c \in 1 .. n
      <3>1. \/ checkpoints[c].prev = <<>>
            \/ \E d \in 1 .. (c - 1) : checkpoints[d].root = checkpoints[c].prev
        BY <1>7, <2>1 DEF IndInv, PreviousIsEarlier
      <3>2. \A d \in 1 .. (c - 1) : checkpoints'[d] = checkpoints[d]
        BY <1>7, <1>8, <2>1
      <3> QED
        BY <1>8, <2>1, <3>1, <3>2
    <2>2. CASE c = n + 1
      <3>1. PrevRootIsPublished(b) /\ 1 .. (c - 1) = 1 .. n
        BY <1>7, <2>2 DEF IndInv
      <3> QED
        BY <1>5, <1>7, <1>8, <2>2, <3>1 DEF PrevRootIsPublished
    <2> QED
      BY <1>7, <1>8, <1>18, <2>1, <2>2
  <1>19. NoGap' /\ PreviousIsEarlier'
    BY <1>14, <1>18 DEF NoGap, PreviousIsEarlier
  <1>20. QED
    BY <1>9, <1>10, <1>13, <1>15, <1>16, <1>17, <1>19 DEF IndInv

(* Marking a saved batch extends the marked prefix or leaves it alone: the *)
(* batch starts inside it or right after it.                               *)
LEMMA MarkKeepsInv ==
    ASSUME IndInv, NEW b \in Builders, MarkBatched(b)
    PROVE  IndInv'
  <1> USE LedgerAssumption DEF Goto, Return, NoFault
  <1>1. /\ pc[b] = "saved"
        /\ pc' = [pc EXCEPT ![b] = "idle"]
        /\ stored' = [stored EXCEPT ![b] = <<>>]
        /\ prevRoot' = [prevRoot EXCEPT ![b] = <<>>]
        /\ batched' = batched \cup RowIDs(b)
        /\ UNCHANGED <<rows, checkpoints, faults>>
    BY DEF MarkBatched
  <1>2. PICK s, e \in 1 .. rows :
           /\ s <= e
           /\ stored[b] = Batch(s, e)
           /\ 1 .. (s - 1) \subseteq batched
           /\ \E c \in DOMAIN checkpoints :
                 checkpoints[c].batchStart = s /\ checkpoints[c].batchEnd = e
    BY <1>1 DEF IndInv, InFlight
  <1>3. s \in Nat /\ e \in Nat /\ rows \in Nat
    BY <1>2 DEF IndInv, TypeOK
  <1>4. RowIDs(b) = s .. e
    <2>0. s <= e + 1
      BY <1>2, <1>3
    <2>1. /\ Batch(s, e) \in Seq(Nat)
          /\ Len(Batch(s, e)) = e - s + 1
          /\ \A i \in 1 .. (e - s + 1) : Batch(s, e)[i] = s + i - 1
      BY <1>3, <2>0, BatchProperties
    <2>2. RowIDs(b) = {s + i - 1 : i \in 1 .. (e - s + 1)}
      BY <1>2, <2>1 DEF RowIDs
    <2>3. \A x \in s .. e : x - s + 1 \in 1 .. (e - s + 1) /\ x = s + (x - s + 1) - 1
      BY <1>3
    <2>4. \A i \in 1 .. (e - s + 1) : s + i - 1 \in s .. e
      BY <1>3
    <2> QED
      BY <2>2, <2>3, <2>4
  <1>5. PICK p \in 0 .. rows : batched = 1 .. p
    BY DEF IndInv, BatchedIsPrefix
  <1>6. s - 1 <= p
    <2>1. CASE s = 1
      BY <1>3, <1>5, <2>1
    <2>2. CASE s # 1
      <3>1. s - 1 \in 1 .. (s - 1)
        BY <1>2, <1>3, <2>2
      <3> QED
        BY <1>2, <1>3, <1>5, <3>1
    <2> QED
      BY <2>1, <2>2
  <1>7. BatchedIsPrefix'
    <2> DEFINE q == IF e < p THEN p ELSE e
    <2>1. q \in 0 .. rows /\ batched' = 1 .. q
      BY <1>1, <1>2, <1>3, <1>4, <1>5, <1>6
    <2> QED
      BY <1>1, <2>1 DEF BatchedIsPrefix
  <1>8. batched \subseteq batched' /\ batched' \subseteq 1 .. rows
    BY <1>1, <1>2, <1>3, <1>4, <1>5
  <1>9. TypeOK'
    BY <1>1, <1>8 DEF IndInv, TypeOK, Stages
  <1>10. \A i : Covered(i)' <=> Covered(i)
    BY <1>1 DEF Covered, Covers
  <1>11. BatchedIsCovered'
    <2> SUFFICES ASSUME NEW i \in batched' PROVE Covered(i)
      BY <1>10 DEF BatchedIsCovered
    <2>1. CASE i \in batched
      BY <2>1 DEF IndInv, BatchedIsCovered
    <2>2. CASE i \in s .. e
      BY <1>2, <1>3, <2>2 DEF Covered, Covers
    <2> QED
      BY <1>1, <1>4, <2>1, <2>2
  <1>12. NoGap' /\ PreviousIsEarlier'
    BY <1>1, <1>10 DEF IndInv, NoGap, PreviousIsEarlier
  <1>13. \A c \in DOMAIN checkpoints' : CheckpointIsBatch(checkpoints[c])'
    BY <1>1 DEF IndInv, CheckpointIsBatch
  <1>14. ASSUME NEW a \in Builders, pc'[a] # "idle" PROVE InFlight(a)'
    <2>1. a # b /\ pc'[a] = pc[a] /\ stored'[a] = stored[a]
      BY <1>1, <1>14 DEF IndInv, TypeOK
    <2>2. InFlight(a)
      BY <1>14, <2>1 DEF IndInv
    <2> QED
      BY <1>1, <1>8, <2>1, <2>2 DEF InFlight
  <1>15. ASSUME NEW a \in Builders PROVE PrevRootIsPublished(a)'
    <2>1. prevRoot'[a] = prevRoot[a] \/ prevRoot'[a] = <<>>
      BY <1>1 DEF IndInv, TypeOK
    <2>2. PrevRootIsPublished(a)
      BY DEF IndInv
    <2> QED
      BY <1>1, <2>1, <2>2 DEF PrevRootIsPublished
  <1>16. QED
    BY <1>7, <1>9, <1>11, <1>12, <1>13, <1>14, <1>15 DEF IndInv

(* A crash takes every build with it and nothing else.                     *)
LEMMA CrashKeepsInv ==
    ASSUME IndInv, Crash
    PROVE  IndInv'
  <1> USE LedgerAssumption DEF Crash, storeVars
  <1>1. faults' \in 0 .. MaxFaults
    BY FaultBound DEF IndInv
  <1>2. TypeOK'
    BY <1>1 DEF IndInv, TypeOK, Stages
  <1>3. \A b \in Builders : pc'[b] = "idle" /\ prevRoot'[b] = <<>>
    OBVIOUS
  <1>4. \A b \in Builders : PrevRootIsPublished(b)'
    BY <1>3 DEF PrevRootIsPublished
  <1> QED
    BY <1>2, <1>3, <1>4, StoreUnchanged

(* Ingestion only adds rows at the end.                                    *)
LEMMA IngestKeepsInv ==
    ASSUME IndInv, Ingest
    PROVE  IndInv'
  <1> USE LedgerAssumption
  <1>1. rows \in 0 .. MaxRows /\ MaxRows \in Nat
    BY DEF IndInv, TypeOK
  <1>2. faults' \in 0 .. MaxFaults
    BY FaultBound DEF IndInv, Ingest, AppendReceipt, AppendReceiptsBatch, AppendFails
  <1>3. rows' \in rows .. MaxRows
    <2>1. CASE AppendReceipt
      BY <1>1, <2>1 DEF AppendReceipt
    <2>2. ASSUME NEW n \in 1 .. MaxItems, AppendReceiptsBatch(n)
          PROVE  rows' \in rows .. MaxRows
      BY <1>1, <2>2 DEF AppendReceiptsBatch
    <2>3. CASE AppendFails
      BY <1>1, <2>3 DEF AppendFails, storeVars
    <2> QED
      BY <2>1, <2>2, <2>3 DEF Ingest
  <1>4. UNCHANGED <<batched, checkpoints, pc, stored, prevRoot>>
    BY DEF Ingest, AppendReceipt, AppendReceiptsBatch, AppendFails, storeVars, builderVars
  <1> QED
    BY <1>2, <1>3, <1>4, RowsGrow

(* A build step that fails, or finds nothing to do.                        *)
LEMMA FailuresKeepInv ==
    ASSUME IndInv, NEW b \in Builders, FetchNothing(b) \/ BuildFails(b)
    PROVE  IndInv'
  <1> USE LedgerAssumption
  <1>0. rows \in rows .. MaxRows /\ faults \in 0 .. MaxFaults
    BY DEF IndInv, TypeOK
  <1>1. CASE FetchNothing(b)
    <2>1. rows' \in rows .. MaxRows /\ faults' \in 0 .. MaxFaults
      BY <1>0, <1>1 DEF FetchNothing, vars
    <2> QED
      BY <1>1, <2>1, RowsGrow DEF FetchNothing, vars
  <1>2. CASE FetchFails(b)
    <2>1. faults' \in 0 .. MaxFaults
      BY <1>2, FaultBound DEF FetchFails, IndInv
    <2>2. rows' \in rows .. MaxRows
      BY <1>0, <1>2 DEF FetchFails, storeVars
    <2> QED
      BY <1>2, <2>1, <2>2, RowsGrow DEF FetchFails, storeVars, builderVars
  <1>3. CASE ReadPreviousFails(b)
    BY <1>3, ReadKeepsInv
  <1>4. CASE SaveCheckpointFails(b)
    <2>1. faults' \in 0 .. MaxFaults
      BY <1>4, FaultBound DEF SaveCheckpointFails, IndInv
    <2> QED
      BY <1>4, <2>1, ReturnKeepsInv DEF SaveCheckpointFails, Stages
  <1>5. CASE MarkBatchedFails(b)
    <2>1. faults' \in 0 .. MaxFaults
      BY <1>5, FaultBound DEF MarkBatchedFails, IndInv
    <2> QED
      BY <1>5, <2>1, ReturnKeepsInv DEF MarkBatchedFails, Stages
  <1> QED
    BY <1>1, <1>2, <1>3, <1>4, <1>5 DEF BuildFails

(* Every step of ingestion, of a build and of a crash keeps the invariant. *)
LEMMA IndInvStep == IndInv /\ [Next]_vars => IndInv'
  <1> SUFFICES ASSUME IndInv, [Next]_vars PROVE IndInv'
    OBVIOUS
  <1>1. CASE Ingest
    BY <1>1, IngestKeepsInv
  <1>2. ASSUME NEW b \in Builders, Build(b)
        PROVE  IndInv'
    BY <1>2, FetchKeepsInv, ReadKeepsInv, SaveKeepsInv, MarkKeepsInv DEF Build
  <1>3. ASSUME NEW b \in Builders, FetchNothing(b) \/ BuildFails(b)
        PROVE  IndInv'
    BY <1>3, FailuresKeepInv
  <1>4. CASE Crash
    BY <1>4, CrashKeepsInv
  <1>5. CASE UNCHANGED vars
    <2>1. rows' \in rows .. MaxRows /\ faults' \in 0 .. MaxFaults
      BY <1>5, LedgerAssumption DEF vars, IndInv, TypeOK
    <2> QED
      BY <1>5, <2>1, RowsGrow DEF vars
  <1> QED
    BY <1>1, <1>2, <1>3, <1>4, <1>5 DEF Next, Step

-----------------------------------------------------------------------------
(* The inductive invariant holds in every reachable state, for every       *)
(* number of builders, receipts and faults.                                *)
THEOREM LedgerInvariant == Spec => []IndInv
  <1>1. Init => IndInv
    BY IndInvInit
  <1>2. IndInv /\ [Next]_vars => IndInv'
    BY IndInvStep
  <1> QED
    BY <1>1, <1>2, PTL DEF Spec

(* The state of the store and of every build stays well typed.             *)
THEOREM TypeCorrect == Spec => []TypeOK
  <1>1. IndInv => TypeOK
    BY DEF IndInv
  <1> QED
    BY <1>1, LedgerInvariant, PTL

(* A batched row is always in a saved checkpoint: whatever fails and       *)
(* wherever the process dies, BuildAndSign never loses a receipt.          *)
THEOREM NothingIsLost == Spec => []BatchedIsCovered
  <1>1. IndInv => BatchedIsCovered
    BY DEF IndInv
  <1> QED
    BY <1>1, LedgerInvariant, PTL

(* The checkpoints leave no hole behind, whatever builds ran at once.      *)
THEOREM CheckpointsLeaveNoGap == Spec => []NoGap
  <1>1. IndInv => NoGap
    BY DEF IndInv
  <1> QED
    BY <1>1, LedgerInvariant, PTL

(* previous_root_hex is empty or the root of an earlier checkpoint.        *)
THEOREM PreviousRootIsEarlier == Spec => []PreviousIsEarlier
  <1>1. IndInv => PreviousIsEarlier
    BY DEF IndInv
  <1> QED
    BY <1>1, LedgerInvariant, PTL

(* The rows of a checkpoint's range, read back later, are the receipts     *)
(* that were hashed into its root.                                         *)
THEOREM RangeMatchesRoot == Spec => []CheckpointMatchesItsRange
  <1>1. IndInv => CheckpointMatchesItsRange
    <2> SUFFICES ASSUME IndInv, NEW c \in DOMAIN checkpoints
                 PROVE  /\ GetReceiptsByRange(checkpoints[c].batchStart,
                                              checkpoints[c].batchEnd)
                              = checkpoints[c].root
                        /\ Len(checkpoints[c].root) = checkpoints[c].treeSize
      BY DEF CheckpointMatchesItsRange
    <2> DEFINE s == checkpoints[c].batchStart
               e == checkpoints[c].batchEnd
    <2>1. /\ s \in 1 .. rows /\ e \in s .. rows /\ rows \in Nat
          /\ checkpoints[c].root = Batch(s, e)
          /\ checkpoints[c].treeSize = e - s + 1
      BY LedgerAssumption DEF IndInv, TypeOK, CheckpointIsBatch
    <2> HIDE DEF s, e
    <2>2. s \in Nat /\ e \in Nat /\ s <= e + 1
      BY <2>1
    <2>3. {i \in 1 .. rows : s <= i /\ i <= e} = s .. e
      BY <2>1, <2>2
    <2>4. GetReceiptsByRange(s, e) = Batch(s, e)
      BY <2>2, <2>3, AscendingInterval DEF GetReceiptsByRange
    <2>5. /\ Batch(s, e) \in Seq(Nat)
          /\ Len(Batch(s, e)) = e - s + 1
          /\ \A i \in 1 .. (e - s + 1) : Batch(s, e)[i] = s + i - 1
      BY <2>2, BatchProperties
    <2> QED
      BY <2>1, <2>4, <2>5 DEF s, e
  <1> QED
    BY <1>1, LedgerInvariant, PTL

-----------------------------------------------------------------------------
(* Every step but a saved checkpoint leaves the checkpoints as they are,   *)
(* and no step takes a row or a mark away.                                 *)
LEMMA StepShape ==
    ASSUME IndInv, [Next]_vars
    PROVE  /\ rows' \in Nat /\ rows <= rows'
           /\ batched \subseteq batched'
           /\ \/ UNCHANGED checkpoints
              \/ UNCHANGED rows /\ \E b \in Builders : SaveCheckpoint(b)
  <1> USE LedgerAssumption DEF storeVars
  <1>0. rows \in Nat
    BY DEF IndInv, TypeOK
  <1>1. CASE Ingest
    <2>1. rows' \in Nat /\ rows <= rows'
      <3>1. CASE AppendReceipt
        BY <1>0, <3>1 DEF AppendReceipt
      <3>2. ASSUME NEW n \in 1 .. MaxItems, AppendReceiptsBatch(n)
            PROVE  rows' \in Nat /\ rows <= rows'
        BY <1>0, <3>2 DEF AppendReceiptsBatch
      <3>3. CASE AppendFails
        BY <1>0, <3>3 DEF AppendFails
      <3> QED
        BY <1>1, <3>1, <3>2, <3>3 DEF Ingest
    <2>2. UNCHANGED <<batched, checkpoints>>
      BY <1>1 DEF Ingest, AppendReceipt, AppendReceiptsBatch, AppendFails
    <2> QED
      BY <2>1, <2>2
  <1>2. ASSUME NEW b \in Builders, SaveCheckpoint(b)
        PROVE  UNCHANGED <<rows, batched>>
    BY <1>2 DEF SaveCheckpoint
  <1>3. ASSUME NEW b \in Builders,
               Fetch(b) \/ ReadPrevious(b) \/ FetchNothing(b) \/ BuildFails(b)
        PROVE  UNCHANGED storeVars
    BY <1>3 DEF Fetch, ReadPrevious, FetchNothing, BuildFails, FetchFails,
                ReadPreviousFails, SaveCheckpointFails, MarkBatchedFails, vars
  <1>4. ASSUME NEW b \in Builders, MarkBatched(b)
        PROVE  UNCHANGED <<rows, checkpoints>> /\ batched \subseteq batched'
    BY <1>4 DEF MarkBatched
  <1>5. CASE Crash \/ UNCHANGED vars
    BY <1>0, <1>5 DEF Crash, vars
  <1> QED
    BY <1>0, <1>1, <1>2, <1>3, <1>4, <1>5 DEF Next, Step, Build

(* What one SaveCheckpoint does to the table: a row is added at its end.   *)
LEMMA SaveAppends ==
    ASSUME IndInv, NEW b \in Builders, SaveCheckpoint(b)
    PROVE  /\ Len(checkpoints) \in Nat
           /\ DOMAIN checkpoints = 1 .. Len(checkpoints)
           /\ Len(checkpoints') = Len(checkpoints) + 1
           /\ DOMAIN checkpoints' = 1 .. (Len(checkpoints) + 1)
           /\ \A c \in DOMAIN checkpoints : checkpoints'[c] = checkpoints[c]
           /\ checkpoints'[Len(checkpoints) + 1] = NewCheckpoint(b)
  <1> DEFINE cp == NewCheckpoint(b)
  <1>1. checkpoints' = Append(checkpoints, cp)
    BY DEF SaveCheckpoint
  <1>2. checkpoints \in Seq(Checkpoint)
    BY DEF IndInv, TypeOK
  <1> HIDE DEF cp
  <1>3. DOMAIN checkpoints = 1 .. Len(checkpoints) /\ Len(checkpoints) \in Nat
    BY <1>2
  <1>4. /\ Len(checkpoints') = Len(checkpoints) + 1
        /\ DOMAIN checkpoints' = 1 .. (Len(checkpoints) + 1)
        /\ \A c \in 1 .. Len(checkpoints) : checkpoints'[c] = checkpoints[c]
        /\ checkpoints'[Len(checkpoints) + 1] = cp
    BY <1>1, <1>2
  <1> QED
    BY <1>3, <1>4 DEF cp

(* Published checkpoints, receipts and marks stay: no step of ingestion,   *)
(* of a build or of a crash takes one back.                                *)
THEOREM LedgerIsAppendOnly == Spec => AppendOnly
  <1> DEFINE Kept == /\ rows <= rows'
                     /\ batched \subseteq batched'
                     /\ Len(checkpoints) <= Len(checkpoints')
                     /\ \A c \in DOMAIN checkpoints : checkpoints'[c] = checkpoints[c]
  <1>1. IndInv /\ [Next]_vars => [Kept]_storeVars
    <2> SUFFICES ASSUME IndInv, [Next]_vars PROVE Kept
      OBVIOUS
    <2>1. Len(checkpoints) \in Nat
      BY DEF IndInv, TypeOK
    <2>2. CASE UNCHANGED checkpoints
      BY <2>1, <2>2, StepShape
    <2>3. ASSUME NEW b \in Builders, SaveCheckpoint(b) PROVE Kept
      BY <2>1, <2>3, StepShape, SaveAppends
    <2> QED
      BY <2>2, <2>3, StepShape
  <1> QED
    BY <1>1, LedgerInvariant, PTL DEF Spec, AppendOnly

-----------------------------------------------------------------------------
(* Refinement.                                                             *)

\* The refinement mapping of Ledger's Log.
Published == [c \in DOMAIN checkpoints |->
                 [first |-> checkpoints[c].batchStart,
                  last  |-> checkpoints[c].batchEnd]]

(* The bounds of a saved checkpoint are numbers.                           *)
LEMMA RangesAreNat ==
    ASSUME IndInv, NEW c \in DOMAIN checkpoints
    PROVE  checkpoints[c].batchStart \in Nat /\ checkpoints[c].batchEnd \in Nat
  <1>1. checkpoints \in Seq(Checkpoint)
    BY DEF IndInv, TypeOK
  <1>2. checkpoints[c] \in Checkpoint
    BY <1>1
  <1> QED
    BY <1>2 DEF Checkpoint

(* A saved checkpoint is published over a range that the earlier ones      *)
(* reach: the rows before it were marked, and a marked row is in a         *)
(* checkpoint.                                                             *)
LEMMA SavePublishes ==
    ASSUME IndInv, NEW b \in Builders, SaveCheckpoint(b)
    PROVE  \E first, last \in 1 .. rows : Log!Publish(first, last)
  <1> USE LedgerAssumption
  <1>1. pc[b] = "signed" /\ UNCHANGED rows
    BY DEF SaveCheckpoint, Goto
  <1>2. PICK s, e \in 1 .. rows :
           /\ s <= e
           /\ stored[b] = Batch(s, e)
           /\ 1 .. (s - 1) \subseteq batched
    BY <1>1 DEF IndInv, InFlight
  <1>3. s \in Nat /\ e \in Nat /\ s <= e + 1 /\ e - s + 1 \in 1 .. (e - s + 1)
    BY <1>2 DEF IndInv, TypeOK
  <1>4. NewCheckpoint(b).batchStart = s /\ NewCheckpoint(b).batchEnd = e
    <2>1. /\ Batch(s, e) \in Seq(Nat)
          /\ Len(Batch(s, e)) = e - s + 1
          /\ \A i \in 1 .. (e - s + 1) : Batch(s, e)[i] = s + i - 1
      BY <1>3, BatchProperties
    <2>2. 1 \in 1 .. (e - s + 1) /\ s + 1 - 1 = s /\ s + (e - s + 1) - 1 = e
      BY <1>2, <1>3
    <2>3. Batch(s, e)[1] = s /\ Batch(s, e)[e - s + 1] = e
      BY <1>3, <2>1, <2>2
    <2> QED
      BY <1>2, <2>1, <2>3 DEF NewCheckpoint
  <1>5. Log!Reached(s)
    <2>1. CASE s = 1
      BY <2>1 DEF Log!Reached
    <2>2. CASE s # 1
      <3>1. s - 1 \in batched
        BY <1>2, <1>3, <2>2
      <3>2. PICK c \in DOMAIN checkpoints : Covers(checkpoints[c], s - 1)
        BY <3>1 DEF IndInv, BatchedIsCovered, Covered
      <3>3. checkpoints[c].batchEnd \in Nat
        BY RangesAreNat
      <3>4. checkpoints[c].batchEnd + 1 >= s
        BY <1>3, <3>2, <3>3 DEF Covers
      <3> QED
        BY <3>4 DEF Log!Reached
    <2> QED
      BY <2>1, <2>2
  <1>6. Published' = Append(Published, [first |-> s, last |-> e])
    <2> DEFINE n == Len(checkpoints)
               Spans == [first : Nat, last : Nat]
    <2>1. /\ n \in Nat
          /\ DOMAIN checkpoints = 1 .. n
          /\ DOMAIN checkpoints' = 1 .. (n + 1)
          /\ \A c \in 1 .. n : checkpoints'[c] = checkpoints[c]
          /\ checkpoints'[n + 1].batchStart = s
          /\ checkpoints'[n + 1].batchEnd = e
      BY <1>4, SaveAppends
    <2>2. \A c \in 1 .. n : checkpoints[c].batchStart \in Nat
                             /\ checkpoints[c].batchEnd \in Nat
      BY <2>1, RangesAreNat
    <2> HIDE DEF n
    <2>3. /\ Published \in Seq(Spans)
          /\ Len(Published) = n
      BY <2>1, <2>2 DEF Published
    <2>4. Append(Published, [first |-> s, last |-> e])
            = [c \in 1 .. (n + 1) |-> IF c = n + 1 THEN [first |-> s, last |-> e]
                                                   ELSE Published[c]]
      BY <2>1, <2>3
    <2>5. Published' = [c \in 1 .. (n + 1) |->
                            [first |-> checkpoints'[c].batchStart,
                             last  |-> checkpoints'[c].batchEnd]]
      BY <2>1 DEF Published
    <2>6. \A c \in 1 .. (n + 1) : c # n + 1 => c \in 1 .. n
      BY <2>1
    <2>7. \A c \in 1 .. n : Published[c] = [first |-> checkpoints[c].batchStart,
                                            last  |-> checkpoints[c].batchEnd]
      BY <2>1 DEF Published
    <2> QED
      BY <2>1, <2>4, <2>5, <2>6, <2>7
  <1>7. Log!Publish(s, e)
    BY <1>1, <1>2, <1>5, <1>6 DEF Log!Publish, Published
  <1> QED
    BY <1>7

(* The ledger implements CheckpointLog: an append-only log of receipts     *)
(* whose checkpoints only accumulate and never skip a receipt.             *)
THEOREM LedgerRefinesCheckpointLog == Spec => ImplementsCheckpointLog
  <1>1. Init => Log!LogInit
    BY DEF Init, Log!LogInit
  <1>2. IndInv /\ [Next]_vars => [Log!LogNext]_(Log!logVars)
    <2> SUFFICES ASSUME IndInv, [Next]_vars PROVE [Log!LogNext]_(Log!logVars)
      OBVIOUS
    <2>0. rows \in Nat
      BY LedgerAssumption DEF IndInv, TypeOK
    <2>1. CASE UNCHANGED checkpoints
      <3>1. CASE rows' = rows
        BY <2>1, <3>1 DEF Log!logVars
      <3>2. CASE rows' # rows
        <4>1. rows' \in Nat /\ rows' > rows
          BY <2>0, <3>2, StepShape
        <4> QED
          BY <2>1, <4>1 DEF Log!LogNext, Log!Grow
      <3> QED
        BY <3>1, <3>2
    <2>2. ASSUME NEW b \in Builders, SaveCheckpoint(b) PROVE Log!LogNext
      BY <2>2, SavePublishes DEF Log!LogNext
    <2> QED
      BY <2>1, <2>2, StepShape
  <1> QED
    BY <1>1, <1>2, LedgerInvariant, PTL DEF Spec, ImplementsCheckpointLog, Log!LogSpec

-----------------------------------------------------------------------------
(* The discrepancy in percent, and the exact one.                          *)

(* The percentage is compared as the distance is, but for zero counts when *)
(* the threshold is 100 or more.                                           *)
LEMMA ExceedsIsOff ==
    ASSUME NEW p \in Nat, NEW v \in Nat
    PROVE  /\ Exceeds(p, v) => Off(p, v)
           /\ Threshold < 100 => (Off(p, v) => Exceeds(p, v))
  <1>1. Threshold \in Nat
    BY MonitorAssumption
  <1>2. PICK t \in Nat : t = Threshold * p /\ (p = 0 => t = 0)
    BY <1>1
  <1>4. Off(p, v) <=>
          \/ v * 100 > p * 100 + t \/ v * 100 < p * 100 - t
          \/ RoundsUp /\ p # 0 /\ (v * 100 = p * 100 - t \/ v * 100 = p * 100 + t)
    BY <1>2 DEF Off
  <1>5. Exceeds(p, v) <=>
          IF p = 0 THEN v # 0 /\ 100 > Threshold
          ELSE \/ (IF p > v THEN p - v ELSE v - p) * 100 > t
               \/ RoundsUp /\ (IF p > v THEN p - v ELSE v - p) * 100 = t
    BY <1>2 DEF Exceeds, Distance
  <1>6. QED
    BY <1>1, <1>2, <1>4, <1>5

(* An alert is raised for a row exactly when its counts are discrepant.    *)
LEMMA CheckIsDiscrepant ==
    ASSUME NEW i, counts[i] \in Counts
    PROVE  /\ CheckReceipt(counts[i]) => Discrepant(i)
           /\ Threshold < 100 => (Discrepant(i) => CheckReceipt(counts[i]))
  <1> DEFINE c == counts[i]
  <1>1. /\ c.input \in Nat /\ c.output \in Nat
        /\ c.verifiedInput \in Nat /\ c.verifiedOutput \in Nat
    BY MonitorAssumption
  <1> HIDE DEF c
  <1>2. c.verifiedInput + c.verifiedOutput > 0 <=> c.verifiedInput # 0 \/ c.verifiedOutput # 0
    BY <1>1
  <1>3. /\ Exceeds(c.input, c.verifiedInput) => Off(c.input, c.verifiedInput)
        /\ Exceeds(c.output, c.verifiedOutput) => Off(c.output, c.verifiedOutput)
        /\ Threshold < 100 =>
              /\ Off(c.input, c.verifiedInput) => Exceeds(c.input, c.verifiedInput)
              /\ Off(c.output, c.verifiedOutput) => Exceeds(c.output, c.verifiedOutput)
    BY <1>1, ExceedsIsOff
  <1>4. QED
    BY <1>2, <1>3 DEF CheckReceipt, Discrepant, c

-----------------------------------------------------------------------------
(* The invariant.                                                          *)

TickFields == {"stage", "page", "next"}

\* A tick that has got its page: the checkpoints are there, and next is the first
\* that has not been looked at.
PageIsGood ==
    /\ tick = [f \in TickFields |-> tick[f]]
    /\ tick.page \in Seq(DOMAIN checkpoints)
    /\ \/ tick.stage = "page" /\ tick.next \in 1 .. Len(tick.page)
       \/ tick.stage = "end" /\ tick.next = Len(tick.page) + 1

TickIsGood == tick \in {NoTick, [stage |-> "stats"]} \/ PageIsGood

\* The discrepant rows of a checkpoint have been alerted, or were missed.
CheckedUp(c) ==
    \A i \in ReceiptRange(c) : Discrepant(i) => i \in alerted \cup missed

PageIsChecked ==
    tick.stage \in {"page", "end"} =>
        \A p \in DOMAIN tick.page : p < tick.next => CheckedUp(tick.page[p])

MonitorInv ==
    /\ IndInv
    /\ counts \in [1 .. MaxRows -> Counts]
    /\ TickIsGood
    /\ AlertsAreJustified
    /\ Threshold < 100 => PageIsChecked

(* The rows of a checkpoint have counts.                                   *)
LEMMA RangeIsCounted ==
    ASSUME MonitorInv, NEW c \in DOMAIN checkpoints, NEW i \in ReceiptRange(c)
    PROVE  counts[i] \in Counts /\ Covered(i)
  <1>1. CheckpointIsBatch(checkpoints[c])
    BY DEF MonitorInv, IndInv
  <1>2. rows \in Nat /\ rows <= MaxRows /\ MaxRows \in Nat
    BY LedgerAssumption DEF MonitorInv, IndInv, TypeOK
  <1>3. /\ checkpoints[c].batchStart \in Nat /\ checkpoints[c].batchEnd \in Nat
        /\ checkpoints[c].batchEnd <= rows /\ 1 <= checkpoints[c].batchStart
    BY <1>1, <1>2 DEF CheckpointIsBatch
  <1>4. i \in 1 .. MaxRows /\ Covers(checkpoints[c], i)
    BY <1>2, <1>3 DEF ReceiptRange, Covers
  <1>5. QED
    BY <1>4 DEF MonitorInv, Covered

(* The ledger moves on: a checkpoint stays, with its range.                *)
LEMMA CheckpointsStay ==
    ASSUME IndInv, [Next]_vars
    PROVE  \A c \in DOMAIN checkpoints :
              c \in DOMAIN checkpoints' /\ checkpoints'[c] = checkpoints[c]
  <1>1. CASE UNCHANGED checkpoints
    BY <1>1
  <1>2. ASSUME NEW b \in Builders, SaveCheckpoint(b)
        PROVE  \A c \in DOMAIN checkpoints :
                  c \in DOMAIN checkpoints' /\ checkpoints'[c] = checkpoints[c]
    BY <1>2, SaveAppends
  <1>3. QED
    BY <1>1, <1>2, StepShape

(* A page is some of the checkpoints, and not empty if there is one.       *)
LEMMA PageShape ==
    ASSUME IndInv, checkpoints # <<>>
    PROVE  /\ ListCheckpoints(PageSize) \in Seq(DOMAIN checkpoints)
           /\ 1 \in 1 .. Len(ListCheckpoints(PageSize))
  <1> DEFINE n == Len(checkpoints)
             newest == [i \in DOMAIN checkpoints |-> n + 1 - i]
             k == IF PageSize < n THEN PageSize ELSE n
  <1>1. n \in Nat /\ n # 0 /\ DOMAIN checkpoints = 1 .. n
    BY DEF IndInv, TypeOK
  <1>2. PageSize \in Nat /\ PageSize # 0
    BY MonitorAssumption
  <1>3. k \in Nat /\ 1 <= k /\ k <= n
    BY <1>1, <1>2
  <1>4. newest = [i \in 1 .. n |-> n + 1 - i]
    BY <1>1
  <1>5. \A i \in 1 .. n : n + 1 - i \in 1 .. n
    BY <1>1
  <1>6. newest \in Seq(1 .. n) /\ Len(newest) = n
    <2> HIDE DEF n
    <2>1. \A S : newest \in [1 .. n -> S] => newest \in Seq(S) /\ Len(newest) = n
      BY <1>1
    <2>2. newest \in [1 .. n -> 1 .. n]
      BY <1>4, <1>5
    <2>3. QED
      BY <2>1, <2>2
  <1> HIDE DEF newest
  <1>7. ListCheckpoints(PageSize) = [i \in 1 .. k |-> newest[i]]
    BY <1>6 DEF ListCheckpoints, Limit, newest
  <1>8. \A i \in 1 .. k : newest[i] \in 1 .. n
    BY <1>3, <1>6, SMTT(30)
  <1> HIDE DEF k, n
  <1>9. [i \in 1 .. k |-> newest[i]] \in Seq(1 .. n) /\ Len([i \in 1 .. k |-> newest[i]]) = k
    BY <1>3, <1>8
  <1>10. QED
    BY <1>1, <1>3, <1>7, <1>9

(* The ledger's steps, and those of a fault of the monitor's own.          *)
LEMMA LedgerKeepsMonitorInv ==
    ASSUME MonitorInv, IndInv',
           \A c \in DOMAIN checkpoints :
              c \in DOMAIN checkpoints' /\ checkpoints'[c] = checkpoints[c],
           UNCHANGED <<counts, alerted>>,
           \/ UNCHANGED <<tick, missed>>
           \/ tick' \in {NoTick, [stage |-> "stats"]}
    PROVE  MonitorInv'
  <1>1. AlertsAreJustified'
    BY DEF MonitorInv, AlertsAreJustified, Covered, Discrepant
  <1>2. CASE tick' \in {NoTick, [stage |-> "stats"]}
    <2>1. TickIsGood' /\ PageIsChecked'
      BY <1>2 DEF TickIsGood, PageIsChecked, NoTick
    <2>2. QED
      BY <1>1, <2>1 DEF MonitorInv
  <1>3. CASE UNCHANGED <<tick, missed>> /\ PageIsGood
    <2>1. DOMAIN checkpoints \subseteq DOMAIN checkpoints'
      OBVIOUS
    <2>2. tick.page \in Seq(DOMAIN checkpoints)
      BY <1>3 DEF PageIsGood
    <2>3. tick.page \in Seq(DOMAIN checkpoints')
      BY <2>1, <2>2
    <2>4. PageIsGood'
      BY <1>3, <2>3 DEF PageIsGood
    <2>5. \A p \in DOMAIN tick.page : tick.page[p] \in DOMAIN checkpoints
      BY <2>2
    <2>6. \A p \in DOMAIN tick.page : CheckedUp(tick.page[p]) => CheckedUp(tick.page[p])'
      BY <1>3, <2>5 DEF CheckedUp, ReceiptRange, Discrepant
    <2>7. Threshold < 100 => PageIsChecked'
      BY <1>3, <2>6 DEF MonitorInv, PageIsChecked
    <2>8. QED
      BY <1>1, <2>4, <2>7 DEF MonitorInv, TickIsGood
  <1>4. CASE UNCHANGED <<tick, missed>> /\ tick \in {NoTick, [stage |-> "stats"]}
    BY <1>2, <1>4
  <1>5. QED
    BY <1>2, <1>3, <1>4 DEF MonitorInv, TickIsGood

(* One range has been looked at, the lost rows aside.                      *)
LEMMA CheckKeepsInv ==
    ASSUME MonitorInv, tick.stage = "page", NEW lost, Check(tick.page[tick.next], lost),
           lost \subseteq ReceiptRange(tick.page[tick.next]),
           NextCheckpoint, UNCHANGED <<checkpoints, counts>>, IndInv'
    PROVE  MonitorInv'
  <1>1. PICK c, n : c = tick.page[tick.next] /\ n = tick.next
    OBVIOUS
  <1>2. PageIsGood /\ n \in 1 .. Len(tick.page) /\ Len(tick.page) \in Nat
        /\ DOMAIN tick.page = 1 .. Len(tick.page)
    BY <1>1 DEF MonitorInv, TickIsGood, NoTick, PageIsGood
  <1>3. c \in DOMAIN checkpoints
    BY <1>1, <1>2 DEF PageIsGood
  <1>4. /\ alerted' = alerted \cup {i \in ReceiptRange(c) \ lost : CheckReceipt(counts[i])}
        /\ missed' = missed \cup lost
    BY <1>1 DEF Check
  <1>5. /\ tick' = [f \in TickFields |-> tick'[f]]
        /\ tick'.page = tick.page /\ tick'.next = n + 1
        /\ tick'.stage = IF n = Len(tick.page) THEN "end" ELSE "page"
    BY <1>1, <1>2 DEF NextCheckpoint, PageIsGood, TickFields
  <1>6. PageIsGood'
    <2>1. tick'.page \in Seq(DOMAIN checkpoints')
      BY <1>2, <1>5 DEF PageIsGood
    <2>2. \/ tick'.stage = "page" /\ tick'.next \in 1 .. Len(tick'.page)
          \/ tick'.stage = "end" /\ tick'.next = Len(tick'.page) + 1
      BY <1>2, <1>5
    <2>3. QED
      BY <1>5, <2>1, <2>2 DEF PageIsGood
  <1>7. \A i : Discrepant(i)' <=> Discrepant(i)
    BY DEF Discrepant
  <1>8. \A i \in ReceiptRange(c) :
           /\ Covered(i)
           /\ CheckReceipt(counts[i]) => Discrepant(i)
           /\ Threshold < 100 => (Discrepant(i) => CheckReceipt(counts[i]))
    BY <1>3, RangeIsCounted, CheckIsDiscrepant
  <1>9. AlertsAreJustified'
    <2>1. \A i : Covered(i)' <=> Covered(i)
      BY DEF Covered
    <2>2. QED
      BY <1>4, <1>7, <1>8, <2>1 DEF MonitorInv, AlertsAreJustified
  <1>10. ASSUME Threshold < 100 PROVE PageIsChecked'
    <2>1. ASSUME NEW p \in DOMAIN tick.page, p < n, NEW i \in ReceiptRange(tick.page[p]),
                 Discrepant(i)
          PROVE  i \in alerted' \cup missed'
      BY <1>1, <1>4, <1>10, <2>1 DEF MonitorInv, PageIsChecked, CheckedUp
    <2>2. ASSUME NEW i \in ReceiptRange(c), Discrepant(i)
          PROVE  i \in alerted' \cup missed'
      BY <1>4, <1>8, <1>10, <2>2
    <2>3. \A p \in DOMAIN tick.page : p < n + 1 => p < n \/ p = n
      BY <1>2
    <2>4. \A d : ReceiptRange(d)' = ReceiptRange(d)
      BY DEF ReceiptRange
    <2>5. \A p \in DOMAIN tick.page : p < n + 1 =>
             \A i \in ReceiptRange(tick.page[p]) : Discrepant(i) => i \in alerted' \cup missed'
      BY <1>1, <2>1, <2>2, <2>3
    <2>6. ASSUME NEW p \in DOMAIN tick'.page, p < tick'.next PROVE CheckedUp(tick.page[p])'
      <3>1. PICK d : d = tick.page[p]
        OBVIOUS
      <3>2. \A i \in ReceiptRange(d) : Discrepant(i) => i \in alerted' \cup missed'
        BY <1>5, <2>5, <2>6, <3>1
      <3>3. \A i \in ReceiptRange(d)' : Discrepant(i)' => i \in alerted' \cup missed'
        BY <1>7, <2>4, <3>2
      <3>4. CheckedUp(d)'
        BY <3>3 DEF CheckedUp
      <3>5. tick'.page[p] = d
        BY <1>5, <3>1
      <3>6. QED
        BY <3>3, <3>5 DEF CheckedUp, ReceiptRange
    <2>7. QED
      BY <2>6 DEF PageIsChecked
  <1>11. QED
    BY <1>6, <1>9, <1>10 DEF MonitorInv, TickIsGood

(* A fault of the monitor's own requests is none of the ledger's.          *)
LEMMA MonitorFaultKeepsLedger ==
    ASSUME IndInv, UNCHANGED <<storeVars, builderVars>>, faults' \in 0 .. MaxFaults
    PROVE  IndInv'
  <1>1. rows' \in rows .. MaxRows /\ UNCHANGED <<batched, checkpoints, pc, stored, prevRoot>>
    BY LedgerAssumption DEF IndInv, TypeOK, storeVars, builderVars
  <1>2. QED
    BY <1>1, RowsGrow

(* Every step of the monitor, of the ledger beside it and of both failing  *)
(* keeps the invariant.                                                    *)
LEMMA MonitorInvStep ==
    ASSUME MonitorInv, [MonitorNext]_allVars
    PROVE  MonitorInv'
  <1>1. IndInv
    BY DEF MonitorInv
  <1>2. ASSUME UNCHANGED vars
        PROVE  /\ IndInv' /\ UNCHANGED checkpoints
               /\ \A c \in DOMAIN checkpoints :
                     c \in DOMAIN checkpoints' /\ checkpoints'[c] = checkpoints[c]
    BY <1>1, <1>2, IndInvStep DEF vars
  <1>3. ASSUME NEW kind, Fault(kind), UNCHANGED <<storeVars, builderVars>>
        PROVE  /\ IndInv' /\ UNCHANGED checkpoints
               /\ \A c \in DOMAIN checkpoints :
                     c \in DOMAIN checkpoints' /\ checkpoints'[c] = checkpoints[c]
    <2>1. faults' \in 0 .. MaxFaults
      BY <1>1, <1>3, FaultBound DEF IndInv
    <2>2. QED
      BY <1>1, <1>3, <2>1, MonitorFaultKeepsLedger DEF storeVars
  <1>4. CASE \/ Step /\ UNCHANGED monitorVars
             \/ Crash /\ tick' = NoTick /\ UNCHANGED <<counts, alerted, missed>>
    <2>1. [Next]_vars
      BY <1>4 DEF Next
    <2>2. QED
      BY <1>1, <1>4, <2>1, IndInvStep, CheckpointsStay, LedgerKeepsMonitorInv DEF monitorVars
  <1>5. CASE FetchStats
    BY <1>2, <1>5, LedgerKeepsMonitorInv DEF FetchStats
  <1>6. CASE FetchCheckpoints
    <2>1. CASE checkpoints = <<>>
      BY <1>2, <1>6, <2>1, LedgerKeepsMonitorInv DEF FetchCheckpoints
    <2>2. CASE checkpoints # <<>>
      <3>1. PICK page : page = ListCheckpoints(PageSize)
        OBVIOUS
      <3>2. page \in Seq(DOMAIN checkpoints) /\ 1 \in 1 .. Len(page) /\ DOMAIN page = 1 .. Len(page)
        BY <1>1, <2>2, <3>1, PageShape
      <3>3. /\ tick' = [stage |-> "page", page |-> page, next |-> 1]
            /\ UNCHANGED <<vars, counts, alerted, missed>>
        BY <1>6, <2>2, <3>1 DEF FetchCheckpoints
      <3>4. /\ tick' = [f \in TickFields |-> tick'[f]]
            /\ tick'.stage = "page" /\ tick'.page = page /\ tick'.next = 1
        BY <3>3 DEF TickFields
      <3>5. IndInv' /\ UNCHANGED checkpoints
        BY <1>2, <3>3
      <3>6. PageIsGood'
        BY <3>2, <3>4, <3>5 DEF PageIsGood
      <3>7. PageIsChecked'
        <4>1. \A p \in DOMAIN page : ~(p < 1)
          BY <3>2
        <4>2. QED
          BY <3>4, <4>1 DEF PageIsChecked
      <3>8. AlertsAreJustified'
        BY <3>3, <3>5 DEF MonitorInv, AlertsAreJustified, Covered, Discrepant
      <3>9. QED
        BY <3>3, <3>5, <3>6, <3>7, <3>8 DEF MonitorInv, TickIsGood
    <2>3. QED
      BY <2>1, <2>2
  <1>7. CASE FetchReceiptRange
    <2>1. /\ tick.stage = "page" /\ Check(tick.page[tick.next], {})
          /\ NextCheckpoint /\ UNCHANGED <<vars, counts>>
      BY <1>7 DEF FetchReceiptRange
    <2>2. IndInv' /\ UNCHANGED <<checkpoints, counts>>
      BY <1>2, <2>1
    <2>3. QED
      BY <2>1, <2>2, CheckKeepsInv
  <1>8. CASE FetchReceiptRangeFails
    <2>1. /\ tick.stage = "page" /\ Fault("range")
          /\ NextCheckpoint /\ UNCHANGED <<storeVars, builderVars, counts>>
      BY <1>8 DEF FetchReceiptRangeFails
    <2>2. PICK lost : /\ lost \subseteq ReceiptRange(tick.page[tick.next])
                      /\ Check(tick.page[tick.next], lost)
      BY <1>8 DEF FetchReceiptRangeFails
    <2>3. IndInv' /\ UNCHANGED <<checkpoints, counts>>
      BY <1>3, <2>1
    <2>4. QED
      BY <2>1, <2>2, <2>3, CheckKeepsInv
  <1>9. CASE TickFails
    BY <1>3, <1>9, LedgerKeepsMonitorInv DEF TickFails
  <1>10. CASE TickEnds
    BY <1>2, <1>10, LedgerKeepsMonitorInv DEF TickEnds
  <1>11. CASE UNCHANGED allVars
    BY <1>2, <1>11, LedgerKeepsMonitorInv DEF allVars, monitorVars
  <1>12. QED
    BY <1>4, <1>5, <1>6, <1>7, <1>8, <1>9, <1>10, <1>11 DEF MonitorNext, Poll

(* The inductive invariant of the monitor beside the ledger.               *)
THEOREM MonitorInvariant == MonitorSpec => []MonitorInv
  <1>1. MonitorInit => MonitorInv
    BY IndInvInit DEF MonitorInit, MonitorInv, TickIsGood, AlertsAreJustified,
                      PageIsChecked, NoTick
  <1>2. MonitorInv /\ [MonitorNext]_allVars => MonitorInv'
    BY MonitorInvStep
  <1>3. QED
    BY <1>1, <1>2, PTL DEF MonitorSpec

(* No alert without cause, for any counts, threshold and page size, and    *)
(* whatever the ledger builds, loses or restarts between the requests.     *)
THEOREM AlertsHaveCause == MonitorSpec => []AlertsAreJustified
  <1>1. MonitorInv => AlertsAreJustified
    BY DEF MonitorInv
  <1>2. QED
    BY <1>1, MonitorInvariant, PTL

(* A tick that ends has looked at its whole page, for any threshold under  *)
(* 100 percent (the default is 5).                                         *)
THEOREM TickCoversItsPage ==
    ASSUME Threshold < 100
    PROVE  MonitorSpec => []TickCoversPage
  <1>1. ASSUME MonitorInv PROVE TickCoversPage
    <2> SUFFICES ASSUME tick.stage = "end",
                        NEW p \in DOMAIN tick.page, NEW i \in ReceiptRange(tick.page[p]),
                        Discrepant(i)
                 PROVE  i \in alerted \cup missed
      BY DEF TickCoversPage
    <2>1. /\ tick.next = Len(tick.page) + 1 /\ Len(tick.page) \in Nat
          /\ DOMAIN tick.page = 1 .. Len(tick.page)
      BY <1>1 DEF MonitorInv, TickIsGood, NoTick, PageIsGood
    <2>2. p < tick.next
      BY <2>1
    <2>3. QED
      BY <1>1, <2>2 DEF MonitorInv, PageIsChecked, CheckedUp
  <1>2. QED
    BY <1>1, MonitorInvariant, PTL

-----------------------------------------------------------------------------
(* The proof endpoints.                                                    *)

(* What a request has read, by where it stands.  All of it is of the one   *)
(* checkpoint or of the two checkpoints that the request is about, whatever*)
(* the ledger did between its store calls.                                 *)
RequestIsGood ==
    LET cp  == checkpoints[request.cp]
        new == checkpoints[request.new]
        old == checkpoints[request.old]
    IN
    /\ request.stage \in {"none", "found", "located", "proof", "pair", "old",
                          "consistency", "400", "404"}
    /\ request.stage \in {"found", "located", "proof"} => request.id \in 1 .. rows
    /\ request.stage \in {"located", "proof"} =>
          request.cp \in DOMAIN checkpoints /\ Covers(cp, request.id)
    /\ request.stage = "proof" =>
          /\ request.index = request.id - cp.batchStart
          /\ request.treeSize = cp.treeSize
          /\ request.root = RootHex(cp)
          /\ request.path = InclusionProof(LeavesFromReceipts(cp.root), request.index)
    /\ request.stage \in {"pair", "old", "consistency"} =>
          request.new \in DOMAIN checkpoints /\ request.old \in DOMAIN checkpoints
    /\ request.stage = "old" => request.receipts = Batch(1, old.batchEnd)
    /\ request.stage = "consistency" =>
          /\ request.oldSize = old.batchEnd
          /\ request.newSize = new.batchEnd
          /\ request.oldSize < request.newSize
          /\ request.oldRoot = BuildRoot(LeavesFromReceipts(Batch(1, old.batchEnd)))
          /\ request.newRoot = BuildRoot(LeavesFromReceipts(Batch(1, new.batchEnd)))
          /\ request.proof = ConsistencyProof(request.oldSize, request.newSize,
                                              LeavesFromReceipts(Batch(1, new.batchEnd)))

RequestInv == IndInv /\ RequestIsGood

(* Reading the rows s .. e back, all of which are there, gives them all.   *)
LEMMA RangeReadBack ==
    ASSUME IndInv, NEW s \in 1 .. rows, NEW e \in s .. rows
    PROVE  /\ GetReceiptsByRange(s, e) = Batch(s, e)
           /\ Batch(s, e) \in Seq(Nat)
           /\ Len(Batch(s, e)) = e - s + 1
           /\ \A i \in 1 .. (e - s + 1) : Batch(s, e)[i] = s + i - 1
  <1>1. rows \in Nat /\ s \in Nat /\ e \in Nat /\ s <= e + 1
    BY LedgerAssumption DEF IndInv, TypeOK
  <1>2. {i \in 1 .. rows : s <= i /\ i <= e} = s .. e
    BY <1>1
  <1>3. QED
    BY <1>1, <1>2, AscendingInterval, BatchProperties DEF GetReceiptsByRange

(* LeavesFromReceipts gives a leaf for every receipt.                      *)
LEMMA LeafPerReceipt ==
    ASSUME NEW s \in Seq(Nat)
    PROVE  Len(LeavesFromReceipts(s)) = Len(s)
  <1>1. DOMAIN s = 1 .. Len(s) /\ Len(s) \in Nat
    OBVIOUS
  <1>2. LeavesFromReceipts(s) = [i \in 1 .. Len(s) |-> HashLeaf(s[i])]
    BY <1>1 DEF LeavesFromReceipts
  <1>3. QED
    BY <1>1, <1>2

(* buildLeavesAndIndex finds a covered receipt, at its one place.          *)
LEMMA IndexInBatch ==
    ASSUME IndInv, NEW s \in 1 .. rows, NEW e \in s .. rows, NEW id \in s .. e
    PROVE  /\ IndexOf(Batch(s, e), id) = {id - s}
           /\ InclusionProofDefined(LeavesFromReceipts(Batch(s, e)), id - s)
  <1>1. rows \in Nat /\ s \in Nat /\ e \in Nat /\ id \in Nat
    BY LedgerAssumption DEF IndInv, TypeOK
  <1> DEFINE B == Batch(s, e)
  <1>2. /\ B \in Seq(Nat) /\ DOMAIN B = 1 .. (e - s + 1) /\ Len(B) = e - s + 1
        /\ \A i \in 1 .. (e - s + 1) : B[i] = s + i - 1
    BY RangeReadBack
  <1> HIDE DEF B
  <1>3. {j \in DOMAIN B : B[j] = id} = {id - s + 1}
    BY <1>1, <1>2
  <1>4. IndexOf(B, id) = {id - s}
    BY <1>1, <1>3 DEF IndexOf
  <1>5. InclusionProofDefined(LeavesFromReceipts(B), id - s)
    BY <1>1, <1>2, LeafPerReceipt DEF InclusionProofDefined
  <1>6. QED
    BY <1>4, <1>5 DEF B

(* The range of a checkpoint, and the rows up to its end.                  *)
LEMMA CheckpointReadBack ==
    ASSUME IndInv, NEW c \in DOMAIN checkpoints
    PROVE  /\ checkpoints[c].batchStart \in 1 .. rows
           /\ checkpoints[c].batchEnd \in checkpoints[c].batchStart .. rows
           /\ checkpoints[c].batchEnd \in 1 .. rows
           /\ checkpoints[c].root = Batch(checkpoints[c].batchStart, checkpoints[c].batchEnd)
           /\ checkpoints[c].treeSize = Len(checkpoints[c].root)
           /\ GetReceiptsByRange(checkpoints[c].batchStart, checkpoints[c].batchEnd)
                = checkpoints[c].root
           /\ CumulativeReceipts(checkpoints[c]) = Batch(1, checkpoints[c].batchEnd)
  <1> DEFINE s == checkpoints[c].batchStart
             e == checkpoints[c].batchEnd
  <1>1. /\ s \in 1 .. rows /\ e \in s .. rows /\ rows \in Nat
        /\ checkpoints[c].root = Batch(s, e)
        /\ checkpoints[c].treeSize = e - s + 1
    BY LedgerAssumption DEF IndInv, TypeOK, CheckpointIsBatch
  <1> HIDE DEF s, e
  <1>2. e \in 1 .. rows /\ 1 \in 1 .. rows
    BY <1>1
  <1>3. GetReceiptsByRange(s, e) = Batch(s, e) /\ Len(Batch(s, e)) = e - s + 1
    BY <1>1, RangeReadBack
  <1>4. GetReceiptsByRange(1, e) = Batch(1, e)
    BY <1>2, RangeReadBack
  <1>5. QED
    BY <1>1, <1>2, <1>3, <1>4 DEF s, e, CumulativeReceipts

(* The ledger moves on between two calls of a request.                     *)
LEMMA LedgerKeepsRequest ==
    ASSUME RequestInv, [Next]_vars, UNCHANGED request
    PROVE  RequestIsGood'
  <1>1. /\ \A c \in DOMAIN checkpoints :
              c \in DOMAIN checkpoints' /\ checkpoints'[c] = checkpoints[c]
        /\ rows \in Nat /\ rows' \in Nat /\ rows <= rows'
    BY CheckpointsStay, StepShape, LedgerAssumption DEF RequestInv, IndInv, TypeOK
  <1>2. request.stage \in {"found", "located", "proof"} => request.id \in 1 .. rows'
    BY <1>1 DEF RequestInv, RequestIsGood
  <1>3. request.stage \in {"located", "proof"} =>
           /\ request.cp \in DOMAIN checkpoints
           /\ checkpoints'[request.cp] = checkpoints[request.cp]
    BY <1>1 DEF RequestInv, RequestIsGood
  <1>4. request.stage \in {"pair", "old", "consistency"} =>
           /\ request.new \in DOMAIN checkpoints /\ request.old \in DOMAIN checkpoints
           /\ checkpoints'[request.new] = checkpoints[request.new]
           /\ checkpoints'[request.old] = checkpoints[request.old]
    BY <1>1 DEF RequestInv, RequestIsGood
  <1>5. QED
    BY <1>1, <1>2, <1>3, <1>4 DEF RequestInv, RequestIsGood

(* The proof handler finds the receipt among the rows it reads back, and   *)
(* answers with a proof for its place in the checkpoint.                   *)
LEMMA AnswerInclusionShape ==
    ASSUME RequestInv, AnswerInclusion
    PROVE  request' =
             [stage |-> "proof", id |-> request.id, cp |-> request.cp,
              index |-> request.id - checkpoints[request.cp].batchStart,
              treeSize |-> checkpoints[request.cp].treeSize,
              root |-> RootHex(checkpoints[request.cp]),
              path |-> InclusionProof(LeavesFromReceipts(checkpoints[request.cp].root),
                                      request.id - checkpoints[request.cp].batchStart)]
  <1>1. PICK c, id, s, e : /\ c = request.cp /\ id = request.id
                           /\ s = checkpoints[c].batchStart /\ e = checkpoints[c].batchEnd
    OBVIOUS
  <1>2. IndInv /\ c \in DOMAIN checkpoints /\ s <= id /\ id <= e /\ id \in 1 .. rows
    BY <1>1 DEF RequestInv, RequestIsGood, AnswerInclusion, Covers
  <1>3. /\ s \in 1 .. rows /\ e \in s .. rows
        /\ checkpoints[c].root = Batch(s, e)
        /\ GetReceiptsByRange(s, e) = Batch(s, e)
    BY <1>1, <1>2, CheckpointReadBack
  <1>4. id \in s .. e
    BY <1>2, <1>3
  <1> DEFINE leaves == LeavesFromReceipts(Batch(s, e))
             index == IndexOf(Batch(s, e), id)
  <1>5. index = {id - s} /\ InclusionProofDefined(leaves, id - s)
    BY <1>2, <1>3, <1>4, IndexInBatch
  <1>6. request' =
          IF \E i \in index : InclusionProofDefined(leaves, i)
          THEN [stage |-> "proof", id |-> id, cp |-> c,
                index |-> CHOOSE j \in index : InclusionProofDefined(leaves, j),
                treeSize |-> checkpoints[c].treeSize, root |-> RootHex(checkpoints[c]),
                path |-> InclusionProof(leaves,
                            CHOOSE j \in index : InclusionProofDefined(leaves, j))]
          ELSE [stage |-> "500"]
    BY <1>1, <1>3 DEF AnswerInclusion
  <1> HIDE DEF leaves, index
  <1>7. (CHOOSE j \in index : InclusionProofDefined(leaves, j)) = id - s
    BY <1>5
  <1>8. request' = [stage |-> "proof", id |-> id, cp |-> c, index |-> id - s,
                    treeSize |-> checkpoints[c].treeSize, root |-> RootHex(checkpoints[c]),
                    path |-> InclusionProof(leaves, id - s)]
    BY <1>5, <1>6, <1>7
  <1>9. QED
    BY <1>1, <1>3, <1>8 DEF leaves

(* The consistency handler answers 400 or with a proof between the rows up *)
(* to the ends of the two checkpoints.                                     *)
LEMMA AnswerConsistencyShape ==
    ASSUME RequestInv, AnswerConsistency,
           NEW m, m = checkpoints[request.old].batchEnd,
           NEW n, n = checkpoints[request.new].batchEnd
    PROVE  \/ request' = [stage |-> "400", new |-> request.new, old |-> request.old]
           \/ /\ m < n
              /\ request' =
                   [stage |-> "consistency", new |-> request.new, old |-> request.old,
                    oldSize |-> m, newSize |-> n,
                    oldRoot |-> BuildRoot(LeavesFromReceipts(Batch(1, m))),
                    newRoot |-> BuildRoot(LeavesFromReceipts(Batch(1, n))),
                    proof |-> ConsistencyProof(m, n, LeavesFromReceipts(Batch(1, n)))]
  <1>1. /\ IndInv
        /\ request.new \in DOMAIN checkpoints /\ request.old \in DOMAIN checkpoints
        /\ request.receipts = Batch(1, m)
    BY DEF RequestInv, RequestIsGood, AnswerConsistency
  <1>2. /\ m \in 1 .. rows /\ n \in 1 .. rows
        /\ CumulativeReceipts(checkpoints[request.new]) = Batch(1, n)
    BY <1>1, CheckpointReadBack
  <1>3. rows \in Nat /\ 1 \in 1 .. rows
    BY <1>1, <1>2, LedgerAssumption DEF IndInv, TypeOK
  <1>4. /\ Batch(1, m) \in Seq(Nat) /\ Len(Batch(1, m)) = m
        /\ Batch(1, n) \in Seq(Nat) /\ Len(Batch(1, n)) = n
    <2>1. ASSUME NEW k \in 1 .. rows
          PROVE  Batch(1, k) \in Seq(Nat) /\ Len(Batch(1, k)) = k
      <3>1. Batch(1, k) \in Seq(Nat) /\ Len(Batch(1, k)) = k - 1 + 1
        BY <1>1, <1>3, RangeReadBack
      <3>2. k - 1 + 1 = k
        BY <1>3
      <3> QED
        BY <3>1, <3>2
    <2> QED
      BY <1>2, <2>1
  <1>5. Len(LeavesFromReceipts(Batch(1, n))) = n
    BY <1>4, LeafPerReceipt
  <1>6. m < n => ConsistencyProofDefined(m, n, LeavesFromReceipts(Batch(1, n)))
    BY <1>2, <1>3, <1>5 DEF ConsistencyProofDefined
  <1>7. request' =
          IF m >= n
          THEN [stage |-> "400", new |-> request.new, old |-> request.old]
          ELSE IF ~ConsistencyProofDefined(m, n, LeavesFromReceipts(Batch(1, n)))
          THEN [stage |-> "500"]
          ELSE [stage |-> "consistency", new |-> request.new, old |-> request.old,
                oldSize |-> m, newSize |-> n,
                oldRoot |-> BuildRoot(LeavesFromReceipts(Batch(1, m))),
                newRoot |-> BuildRoot(LeavesFromReceipts(Batch(1, n))),
                proof |-> ConsistencyProof(m, n, LeavesFromReceipts(Batch(1, n)))]
    BY <1>1, <1>2, <1>4 DEF AnswerConsistency
  <1>8. m >= n \/ m < n
    BY <1>2, <1>3
  <1>9. QED
    BY <1>6, <1>7, <1>8

(* Every store call of a request, and every step of the ledger, keeps the  *)
(* invariant.                                                              *)
LEMMA RequestInvStep == RequestInv /\ [ServerNext]_serverVars => RequestInv'
  <1> SUFFICES ASSUME RequestInv, [ServerNext]_serverVars
               PROVE  RequestInv'
    OBVIOUS
  <1>1. [Next]_vars
    BY DEF ServerNext, LedgerStep, Serve, AskInclusion, LocateCheckpoint, AnswerInclusion,
           AskConsistency, ReadOldReceipts, AnswerConsistency, Done, Next, serverVars
  <1>2. IndInv'
    BY <1>1, IndInvStep DEF RequestInv
  <1>3. CASE UNCHANGED request
    BY <1>1, <1>2, <1>3, LedgerKeepsRequest DEF RequestInv
  <1>4. CASE request' = NoRequest
    BY <1>2, <1>4 DEF RequestInv, RequestIsGood, NoRequest
  <1>5. ASSUME NEW id \in 1 .. rows, AskInclusion(id)
        PROVE  RequestInv'
    BY <1>2, <1>5 DEF RequestInv, RequestIsGood, AskInclusion, vars
  <1>6. CASE LocateCheckpoint
    BY <1>2, <1>6 DEF RequestInv, RequestIsGood, LocateCheckpoint, GetCheckpointForRow, vars
  <1>7. CASE AnswerInclusion
    <2>1. UNCHANGED vars /\ request.stage = "located"
      BY <1>7 DEF AnswerInclusion
    <2> QED
      BY <1>2, <1>7, <2>1, AnswerInclusionShape DEF RequestInv, RequestIsGood, vars
  <1>8. ASSUME NEW new \in DOMAIN checkpoints, NEW old \in DOMAIN checkpoints,
               AskConsistency(new, old)
        PROVE  RequestInv'
    BY <1>2, <1>8 DEF RequestInv, RequestIsGood, AskConsistency, vars
  <1>9. CASE ReadOldReceipts
    <2>1. CumulativeReceipts(checkpoints[request.old])
            = Batch(1, checkpoints[request.old].batchEnd)
      BY <1>9, CheckpointReadBack DEF RequestInv, RequestIsGood, ReadOldReceipts
    <2> QED
      BY <1>2, <1>9, <2>1 DEF RequestInv, RequestIsGood, ReadOldReceipts, vars
  <1>10. CASE AnswerConsistency
    <2>1. UNCHANGED vars /\ request.stage = "old"
      BY <1>10 DEF AnswerConsistency
    <2> QED
      BY <1>2, <1>10, <2>1, AnswerConsistencyShape DEF RequestInv, RequestIsGood, vars
  <1>11. QED
    BY <1>3, <1>4, <1>5, <1>6, <1>7, <1>8, <1>9, <1>10
    DEF ServerNext, LedgerStep, Serve, Done, serverVars

(* What a proof request answers is of the checkpoints it is about: the     *)
(* receipt's place, the root, the sizes and the path all belong together,  *)
(* though the handler reads them in several store calls beside a running   *)
(* ledger (internal/api/proof.go).                                         *)
THEOREM RequestInvariant == ServerSpec => []RequestInv
  <1>1. ServerInit => RequestInv
    BY IndInvInit DEF ServerInit, RequestInv, RequestIsGood, NoRequest
  <1>2. QED
    BY <1>1, RequestInvStep, PTL DEF ServerSpec

(* No proof request ends in an internal error, and none answers that a     *)
(* receipt is not batched yet when it was batched before the lookup.       *)
THEOREM BatchedReceiptsAreServed == ServerSpec => BatchedReceiptIsServed
  <1> DEFINE Served == /\ request'.stage # "500"
                       /\ request'.stage = "404" => request'.id \notin batched
  <1>1. ASSUME RequestInv, RequestInv', [ServerNext]_serverVars
        PROVE  [Served]_request
    <2> SUFFICES ASSUME request' # request
                 PROVE  Served
      OBVIOUS
    <2>1. request'.stage # "500"
      BY <1>1 DEF RequestInv, RequestIsGood
    <2>2. ASSUME request'.stage = "404"
          PROVE  request'.id \notin batched
      <3>1. LocateCheckpoint /\ GetCheckpointForRow(request.id) = {} /\ request'.id = request.id
        <4>1. ServerNext /\ request' # NoRequest
          BY <1>1, <2>2 DEF serverVars, NoRequest
        <4>2. Serve /\ ~Done
          BY <4>1 DEF ServerNext, LedgerStep, Done
        <4>3. ~AnswerInclusion
          BY <1>1, <2>2, AnswerInclusionShape
        <4>4. ~AnswerConsistency
          BY <1>1, <2>2, AnswerConsistencyShape
        <4>5. LocateCheckpoint
          BY <2>2, <4>2, <4>3, <4>4 DEF Serve, AskInclusion, AskConsistency, ReadOldReceipts
        <4> QED
          BY <2>2, <4>5 DEF LocateCheckpoint
      <3>2. ~Covered(request.id)
        BY <3>1 DEF Covered, GetCheckpointForRow
      <3> QED
        BY <1>1, <3>1, <3>2 DEF RequestInv, IndInv, BatchedIsCovered
    <2> QED
      BY <2>1, <2>2
  <1>2. QED
    BY <1>1, RequestInvariant, PTL DEF ServerSpec, BatchedReceiptIsServed

(* The leaf hashes of the handlers are those of the theorems about         *)
(* internal/merkle.                                                        *)
LEMMA LeavesFromReceiptsAreHashes ==
    ASSUME NEW s
    PROVE  LeavesFromReceipts(s) = HashesOf(s)
  BY DEF LeavesFromReceipts, HashesOf

(* Every inclusion proof the server hands out verifies at the receipt's    *)
(* place in its checkpoint: the handler's reads beside a running ledger    *)
(* (internal/api/proof.go) and the tree code (internal/merkle) fit.        *)
THEOREM ServedInclusionIsAccepted == ServerSpec => []ServedInclusionVerifies
  <1>1. ASSUME RequestInv, request.stage = "proof"
        PROVE  /\ CheckProof(request.id, request)
               /\ checkpoints[request.cp].batchStart + request.index = request.id
    <2>1. PICK c, id, s, e, i, root :
             /\ c = request.cp /\ id = request.id /\ i = request.index
             /\ s = checkpoints[c].batchStart /\ e = checkpoints[c].batchEnd
             /\ root = checkpoints[c].root
      OBVIOUS
    <2>2. /\ IndInv /\ c \in DOMAIN checkpoints /\ s <= id /\ id <= e /\ id \in 1 .. rows
          /\ i = id - s
          /\ request.treeSize = checkpoints[c].treeSize
          /\ request.root = BuildRoot(LeavesFromReceipts(root))
          /\ request.path = InclusionProof(LeavesFromReceipts(root), i)
      BY <1>1, <2>1 DEF RequestInv, RequestIsGood, Covers, RootHex
    <2>3. /\ s \in 1 .. rows /\ e \in s .. rows
          /\ root = Batch(s, e)
          /\ checkpoints[c].treeSize = Len(root)
      BY <2>1, <2>2, CheckpointReadBack
    <2>4. rows \in Nat
      BY <2>2, LedgerAssumption DEF IndInv, TypeOK
    <2>5. /\ root \in Seq(Nat) /\ Len(root) = e - s + 1
          /\ \A j \in 1 .. (e - s + 1) : root[j] = s + j - 1
      BY <2>2, <2>3, RangeReadBack
    <2>6. i \in 0 .. (Len(root) - 1) /\ root[i + 1] = id /\ s + i = id
      BY <2>2, <2>3, <2>4, <2>5, SMTT(30)
    <2>7. VerifyInclusion(HashLeaf(id), BuildRoot(LeavesFromReceipts(root)), i, Len(root),
                          InclusionProof(LeavesFromReceipts(root), i))
      BY <2>5, <2>6, InclusionOfElement, LeavesFromReceiptsAreHashes
    <2> QED
      BY <2>1, <2>2, <2>3, <2>6, <2>7 DEF CheckProof
  <1>2. RequestInv => ServedInclusionVerifies
    BY <1>1 DEF ServedInclusionVerifies
  <1>3. QED
    BY <1>2, RequestInvariant, PTL

(* Every proof of the consistency endpoint verifies, between the sizes of  *)
(* the log up to the two checkpoints asked for (internal/api/proof.go).    *)
THEOREM ServedConsistencyIsAccepted == ServerSpec => []ServedConsistencyVerifies
  <1>1. ASSUME RequestInv, request.stage = "consistency"
        PROVE  /\ VerifyConsistency(request.oldRoot, request.newRoot,
                                    request.oldSize, request.newSize, request.proof)
               /\ request.oldSize = checkpoints[request.old].batchEnd
               /\ request.newSize = checkpoints[request.new].batchEnd
    <2>1. PICK m, n, s : m = request.oldSize /\ n = request.newSize /\ s = Batch(1, n)
      OBVIOUS
    <2>2. /\ IndInv
          /\ request.new \in DOMAIN checkpoints /\ request.old \in DOMAIN checkpoints
          /\ m = checkpoints[request.old].batchEnd /\ n = checkpoints[request.new].batchEnd
          /\ m < n
          /\ request.oldRoot = BuildRoot(LeavesFromReceipts(Batch(1, m)))
          /\ request.newRoot = BuildRoot(LeavesFromReceipts(s))
          /\ request.proof = ConsistencyProof(m, n, LeavesFromReceipts(s))
      BY <1>1, <2>1 DEF RequestInv, RequestIsGood
    <2>3. m \in 1 .. rows /\ n \in 1 .. rows
      BY <2>2, CheckpointReadBack
    <2>4. rows \in Nat /\ m \in Nat /\ n \in Nat /\ 1 <= m
      BY <2>2, <2>3, LedgerAssumption DEF IndInv, TypeOK
    <2>5. ASSUME NEW k \in 1 .. rows
          PROVE  /\ Batch(1, k) \in Seq(Nat) /\ Len(Batch(1, k)) = k
                 /\ \A i \in 1 .. k : Batch(1, k)[i] = i
      <3>1. 1 \in Nat /\ k \in Nat /\ 1 <= k + 1 /\ k - 1 + 1 = k
        BY <2>4
      <3>2. /\ Batch(1, k) \in Seq(Nat) /\ Len(Batch(1, k)) = k - 1 + 1
            /\ \A i \in 1 .. (k - 1 + 1) : Batch(1, k)[i] = 1 + i - 1
        BY <3>1, BatchProperties
      <3> QED
        BY <3>1, <3>2
    <2>6. s \in Seq(Nat) /\ Len(s) = n /\ \A i \in 1 .. n : s[i] = i
      BY <2>1, <2>3, <2>5
    <2>7. m \in 1 .. (Len(s) - 1)
      BY <2>2, <2>4, <2>6
    <2>8. Batch(1, m) = SubSeq(s, 1, m)
      <3>1. PICK b : b = Batch(1, m)
        OBVIOUS
      <3>2. b \in Seq(Nat) /\ Len(b) = m /\ \A i \in 1 .. m : b[i] = i
        BY <2>3, <2>5, <3>1
      <3>3. SubSeq(s, 1, m) = [i \in 1 .. m |-> s[i]]
        BY <2>4, <2>6, <2>7
      <3>4. b = [i \in 1 .. m |-> s[i]]
        <4>1. DOMAIN b = 1 .. m /\ b = [i \in DOMAIN b |-> b[i]]
          BY <3>2
        <4>2. \A i \in 1 .. m : b[i] = s[i]
          BY <2>2, <2>4, <2>6, <3>2, SMTT(30)
        <4> QED
          BY <4>1, <4>2
      <3> QED
        BY <3>1, <3>3, <3>4
    <2>9. VerifyConsistency(BuildRoot(LeavesFromReceipts(SubSeq(s, 1, m))),
                            BuildRoot(LeavesFromReceipts(s)), m, n,
                            ConsistencyProof(m, n, LeavesFromReceipts(s)))
      BY <2>6, <2>7, ConsistencyOfPrefix, LeavesFromReceiptsAreHashes
    <2> QED
      BY <2>1, <2>2, <2>8, <2>9
  <1>2. RequestInv => ServedConsistencyVerifies
    BY <1>1 DEF ServedConsistencyVerifies
  <1>3. QED
    BY <1>2, RequestInvariant, PTL

-----------------------------------------------------------------------------
(* What a root commits the ledger to.                                      *)

(* A checkpoint's root is that of a list of rows that is not empty.        *)
LEMMA RootOfCheckpoint ==
    ASSUME IndInv, NEW c \in DOMAIN checkpoints
    PROVE  LET cp == checkpoints[c]
           IN  /\ cp.root \in Seq(Nat) /\ cp.root # <<>>
               /\ RootHex(cp) = BuildRoot(HashesOf(cp.root))
               /\ cp.treeSize = Len(cp.root)
               /\ cp.batchStart \in Nat /\ cp.batchEnd \in Nat
               /\ Len(cp.root) = cp.batchEnd - cp.batchStart + 1
               /\ \A j \in 1 .. Len(cp.root) : cp.root[j] = cp.batchStart + j - 1
  <1> DEFINE cp == checkpoints[c]
             s == cp.batchStart
             e == cp.batchEnd
  <1>1. /\ s \in 1 .. rows /\ e \in s .. rows
        /\ cp.root = Batch(s, e)
        /\ cp.treeSize = Len(cp.root)
    BY CheckpointReadBack
  <1>2. rows \in Nat
    BY LedgerAssumption DEF IndInv, TypeOK
  <1>3. RootHex(cp) = BuildRoot(HashesOf(cp.root))
    BY LeavesFromReceiptsAreHashes DEF RootHex
  <1> HIDE DEF cp, s, e
  <1>4. s \in Nat /\ e \in Nat /\ s <= e /\ s <= e + 1
    BY <1>1, <1>2
  <1>5. /\ cp.root \in Seq(Nat) /\ Len(cp.root) = e - s + 1
        /\ \A j \in 1 .. (e - s + 1) : cp.root[j] = s + j - 1
    BY <1>1, <1>4, BatchProperties
  <1>6. cp.root # <<>>
    BY <1>4, <1>5
  <1> QED
    BY <1>1, <1>3, <1>4, <1>5, <1>6 DEF cp, s, e

\* Whatever verifies at an index of a saved checkpoint is the row at that place.
InclusionIsBinding ==
    \A c \in DOMAIN checkpoints : \A S, receipt, index : \A proof \in Seq(S) :
        VerifyInclusion(HashLeaf(receipt), RootHex(checkpoints[c]), index,
                        checkpoints[c].treeSize, proof)
        => /\ index \in Nat
           /\ receipt = checkpoints[c].batchStart + index
           /\ Covers(checkpoints[c], receipt)

(* A saved checkpoint's root commits the ledger to its batch: whoever made *)
(* the proof, and however long it is, a receipt that siqlah-verifier       *)
(* check-proof accepts under that root and size (cmd/verifier/main.go,     *)
(* internal/merkle/proof.go) is the row at that place of the batch.        *)
THEOREM CheckpointsAreBinding == Spec => []InclusionIsBinding
  <1>1. ASSUME IndInv, NEW c \in DOMAIN checkpoints, NEW S, NEW receipt, NEW index,
               NEW proof \in Seq(S),
               VerifyInclusion(HashLeaf(receipt), RootHex(checkpoints[c]), index,
                               checkpoints[c].treeSize, proof)
        PROVE  /\ index \in Nat
               /\ receipt = checkpoints[c].batchStart + index
               /\ Covers(checkpoints[c], receipt)
    <2> DEFINE cp == checkpoints[c]
               root == cp.root
    <2>1. /\ root \in Seq(Nat) /\ root # <<>>
          /\ RootHex(cp) = BuildRoot(HashesOf(root))
          /\ cp.treeSize = Len(root)
          /\ cp.batchStart \in Nat /\ cp.batchEnd \in Nat
          /\ Len(root) = cp.batchEnd - cp.batchStart + 1
          /\ \A j \in 1 .. Len(root) : root[j] = cp.batchStart + j - 1
      BY <1>1, RootOfCheckpoint
    <2>2. VerifyInclusion(HashLeaf(receipt), BuildRoot(HashesOf(root)), index,
                          Len(root), proof)
      BY <1>1, <2>1
    <2> HIDE DEF cp, root
    <2>3. index \in 0 .. (Len(root) - 1) /\ root[index + 1] = receipt
      BY <2>1, <2>2, ElementOfInclusion
    <2>4. Len(root) \in Nat /\ index \in Nat /\ index + 1 \in 1 .. Len(root)
      BY <2>1, <2>3
    <2>5. receipt = cp.batchStart + index
      BY <2>1, <2>3, <2>4
    <2>6. Covers(cp, receipt)
      BY <2>1, <2>3, <2>4, <2>5, SMTT(30) DEF Covers
    <2> QED
      BY <2>4, <2>5, <2>6 DEF cp
  <1>2. IndInv => InclusionIsBinding
    BY <1>1 DEF InclusionIsBinding
  <1> QED
    BY <1>2, LedgerInvariant, PTL

\* Two checkpoints with one root_hex are over the same rows.
RootHexNamesBatch ==
    \A c, d \in DOMAIN checkpoints :
        RootHex(checkpoints[c]) = RootHex(checkpoints[d])
        => /\ checkpoints[c].batchStart = checkpoints[d].batchStart
           /\ checkpoints[c].batchEnd = checkpoints[d].batchEnd

(* A root_hex names a batch: checkpoints with the same root are over the   *)
(* same rows, so that the previous_root_hex that a builder copies from the *)
(* latest checkpoint (internal/checkpoint/builder.go) stands for one range *)
(* of receipts, though it is only a hash and ranges may repeat.            *)
THEOREM RootsNameBatches == Spec => []RootHexNamesBatch
  <1>1. ASSUME IndInv, NEW c \in DOMAIN checkpoints, NEW d \in DOMAIN checkpoints,
               RootHex(checkpoints[c]) = RootHex(checkpoints[d])
        PROVE  /\ checkpoints[c].batchStart = checkpoints[d].batchStart
               /\ checkpoints[c].batchEnd = checkpoints[d].batchEnd
    <2> DEFINE a == checkpoints[c]
               b == checkpoints[d]
    <2>1. /\ a.root \in Seq(Nat) /\ a.root # <<>>
          /\ RootHex(a) = BuildRoot(HashesOf(a.root))
          /\ a.batchStart \in Nat /\ a.batchEnd \in Nat
          /\ Len(a.root) = a.batchEnd - a.batchStart + 1
          /\ \A j \in 1 .. Len(a.root) : a.root[j] = a.batchStart + j - 1
      BY <1>1, RootOfCheckpoint
    <2>2. /\ b.root \in Seq(Nat) /\ b.root # <<>>
          /\ RootHex(b) = BuildRoot(HashesOf(b.root))
          /\ b.batchStart \in Nat /\ b.batchEnd \in Nat
          /\ Len(b.root) = b.batchEnd - b.batchStart + 1
          /\ \A j \in 1 .. Len(b.root) : b.root[j] = b.batchStart + j - 1
      BY <1>1, RootOfCheckpoint
    <2>3. a.root = b.root
      <3>1. BuildRoot(HashesOf(a.root)) = BuildRoot(HashesOf(b.root))
        BY <1>1, <2>1, <2>2
      <3> HIDE DEF a, b
      <3> QED
        BY <2>1, <2>2, <3>1, RootDeterminesList
    <2> HIDE DEF a, b
    <2>4. Len(a.root) \in Nat /\ 1 \in 1 .. Len(a.root)
      BY <2>1
    <2>5. a.root[1] = a.batchStart /\ b.root[1] = b.batchStart
      BY <2>1, <2>2, <2>3, <2>4
    <2>6. a.batchStart = b.batchStart /\ a.batchEnd = b.batchEnd
      BY <2>1, <2>2, <2>3, <2>5
    <2> QED
      BY <2>6 DEF a, b
  <1>2. IndInv => RootHexNamesBatch
    BY <1>1 DEF RootHexNamesBatch
  <1> QED
    BY <1>2, LedgerInvariant, PTL
=============================================================================
