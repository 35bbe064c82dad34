--------------------------- MODULE WitnessProofs ----------------------------
(***************************************************************************)
(* Proofs about C2SP witness cosigning (Witness), for any watching and     *)
(* one-shot witnesses, any checkpoints and any faults.                     *)
(***************************************************************************)
EXTENDS Witness, FiniteSetTheorems, SequenceTheorems, TLAPS

\* The bodies that were ever published.
Bodies == {published[c] : c \in DOMAIN published}

\* A checkpoint has a root of its own, unless it repeats an earlier one.
RootsAreOwn ==
    /\ published \in Seq(Body)
    /\ \A c \in DOMAIN published : published[c].root <= c
    /\ \A b, d \in Bodies : b.root = d.root => b = d

\* A note over a body of `bodies`: the operator's line is there, and every line is
\* over that body, by the operator or by a witness who has signed it.
IsNote(n, bodies, by) ==
    /\ n = [f \in {"body", "sigs"} |-> n[f]]
    /\ n.body \in bodies
    /\ SignedBy(Operator, n.body) \in n.sigs
    /\ \A s \in n.sigs :
          \/ s = SignedBy(Operator, n.body)
          \/ \E w \in Witnesses : s = SignedBy(w, n.body) /\ n.body \in by[w]

\* A note anyone may have had stored: lines in a witness's name may be no good.
IsPosted(n, bodies, by) ==
    /\ n = [f \in {"body", "sigs"} |-> n[f]]
    /\ n.body \in bodies
    /\ SignedBy(Operator, n.body) \in n.sigs
    /\ \A s \in n.sigs :
          \/ s = SignedBy(Operator, n.body)
          \/ \E w \in Witnesses : s = SignedBy(w, n.body) /\ n.body \in by[w]
          \/ s.signer \in Witnesses /\ s.body # n.body

\* A note with the witness's own line.
IsCosigned(n, w, bodies, by) ==
    IsNote(n, bodies, by) /\ SignedBy(w, n.body) \in n.sigs

WitnessTypeOK ==
    /\ pc \in [Witnesses -> {"idle", "fetched", "posted"}]
    /\ reply \in [Witnesses -> {"none", "202", "400"}]
    /\ note = [w \in Witnesses |-> note[w]]
    /\ lastTreeSize \in [Witnesses -> Nat]
    /\ signed = [w \in Witnesses |-> signed[w]]
    /\ faults \in Seq(FaultKinds)

\* What a witness has in hand, by where it stands.
NotesAreGood ==
    \A w \in Witnesses :
        /\ pc[w] = "fetched" => IsNote(note[w], Bodies, signed)
        /\ pc[w] = "posted" => IsCosigned(note[w], w, Bodies, signed)
        /\ reply[w] # "none" => pc[w] = "posted"

\* What is on its way, and what is awaited: the one POST of its witness.
PostsAreGood ==
    \A p \in posts :
        /\ p = [f \in {"from", "note", "awaited"} |-> p[f]]
        /\ p.from \in Witnesses
        /\ p.awaited \in BOOLEAN
        /\ IsCosigned(p.note, p.from, Bodies, signed)
        /\ p.awaited =>
              pc[p.from] = "posted" /\ note[p.from] = p.note /\ reply[p.from] = "none"

RowIsGood(row) ==
    /\ IsPosted(row.note, Bodies, signed)
    /\ row.rootHex = row.note.body.root
    /\ StrangerPosted \/ IsNote(row.note, Bodies, signed)

RowsAreGood == \A row \in cosignatures : RowIsGood(row)

\* The combined note: a line that is no good was so when a stranger posted it.
IsServed(n) ==
    /\ IsPosted(n, Bodies, signed)
    /\ \A s \in n.sigs :
          s.body = n.body \/ (StrangerPosted /\ BadWhenPosted(s, n.body.root))

ReaderIsGood ==
    /\ reader.stage = "latest" => reader.body \in Bodies
    /\ reader.stage = "served" => IsServed(reader.note)

WitnessInv ==
    /\ RootsAreOwn
    /\ WitnessTypeOK
    /\ NotesAreGood
    /\ PostsAreGood
    /\ RowsAreGood
    /\ ReaderIsGood
    /\ CosignaturesAreKept

-----------------------------------------------------------------------------
(* A note stays good while bodies are published and signed.                *)
LEMMA NotesStay ==
    ASSUME NEW B, NEW C, NEW S, NEW T, NEW n,
           B \subseteq C, \A w \in Witnesses : S[w] \subseteq T[w]
    PROVE  /\ IsNote(n, B, S) => IsNote(n, C, T)
           /\ \A w : IsCosigned(n, w, B, S) => IsCosigned(n, w, C, T)
           /\ IsPosted(n, B, S) => IsPosted(n, C, T)
  BY DEF IsNote, IsCosigned, IsPosted

(* Stored and served notes stay good, while rows, bodies and signatures    *)
(* are only added.                                                         *)
LEMMA StoredStays ==
    ASSUME RowsAreGood, ReaderIsGood,
           Bodies \subseteq Bodies', \A w \in Witnesses : signed[w] \subseteq signed'[w],
           cosignatures \subseteq cosignatures', StrangerPosted => StrangerPosted'
    PROVE  /\ \A row \in cosignatures : RowIsGood(row)'
           /\ reader' = reader => ReaderIsGood'
  <1>1. ASSUME NEW n
        PROVE  /\ IsNote(n, Bodies, signed) => IsNote(n, Bodies', signed')
               /\ IsPosted(n, Bodies, signed) => IsPosted(n, Bodies', signed')
    BY NotesStay
  <1>2. \A row \in cosignatures : RowIsGood(row)'
    BY <1>1 DEF RowsAreGood, RowIsGood
  <1>3. \A line, rootHex : BadWhenPosted(line, rootHex) => BadWhenPosted(line, rootHex)'
    BY DEF BadWhenPosted, GetCosignatures
  <1>4. \A n : IsServed(n) => IsServed(n)'
    BY <1>1, <1>3 DEF IsServed
  <1>5. QED
    BY <1>2, <1>4 DEF ReaderIsGood

(* The ledger's own part: what is kept there is not lost.                  *)
LEMMA CosignedStays ==
    ASSUME cosignatures \subseteq cosignatures', NEW w, NEW b, Cosigned(w, b)
    PROVE  Cosigned(w, b)'
  BY DEF Cosigned

\* What CosignaturesAreKept says of an answer and of a size.
AnswerIsKept(w) == reply[w] = "202" => note[w] # NoNote /\ Cosigned(w, note[w].body)

SizeIsKept(w) ==
    lastTreeSize[w] > 0 =>
        \E c \in DOMAIN published :
            published[c].size = lastTreeSize[w] /\ Cosigned(w, published[c])

(* The property, witness by witness.                                       *)
LEMMA KeptInParts ==
    CosignaturesAreKept <=>
        \/ FailedUnseen
        \/ (\A w \in Witnesses : AnswerIsKept(w)) /\ (\A w \in Watchers : SizeIsKept(w))
  BY DEF CosignaturesAreKept, AnswerIsKept, SizeIsKept

(* A fault is never forgotten.                                             *)
LEMMA FaultsStay ==
    ASSUME WitnessTypeOK, NEW k \in FaultKinds,
           faults' = faults \/ faults' = Append(faults, k)
    PROVE  /\ faults' \in Seq(FaultKinds)
           /\ FailedUnseen => FailedUnseen'
           /\ StrangerPosted => StrangerPosted'
           /\ faults' = Append(faults, k) /\ k = "stranger" => StrangerPosted'
           /\ faults' = Append(faults, k) /\ k \in {"store", "short"} => FailedUnseen'
  <1>1. faults \in Seq(FaultKinds) /\ Len(faults) \in Nat /\ DOMAIN faults = 1 .. Len(faults)
    BY DEF WitnessTypeOK
  <1>2. CASE faults' = faults
    <2>1. (FailedUnseen' <=> FailedUnseen) /\ (StrangerPosted' <=> StrangerPosted)
      BY <1>2 DEF FailedUnseen, StrangerPosted
    <2>2. Append(faults, k) # faults
      <3>1. Len(Append(faults, k)) = Len(faults) + 1
        BY <1>1
      <3>2. \A n \in Nat : n + 1 # n
        OBVIOUS
      <3>3. QED
        BY <1>1, <3>1, <3>2, Zenon
    <2>3. QED
      BY <1>1, <1>2, <2>1, <2>2
  <1>3. CASE faults' = Append(faults, k)
    <2>1. /\ faults' \in Seq(FaultKinds)
          /\ DOMAIN faults' = 1 .. Len(faults) + 1
          /\ \A i \in 1 .. Len(faults) : faults'[i] = faults[i]
          /\ faults'[Len(faults) + 1] = k
      BY <1>1, <1>3
    <2>2. QED
      BY <1>1, <2>1 DEF FailedUnseen, StrangerPosted
  <1>4. QED
    BY <1>2, <1>3

(* CosignaturesAreKept under a step that answers nothing new and remembers *)
(* no new size.                                                            *)
LEMMA KeptStays ==
    ASSUME CosignaturesAreKept,
           cosignatures \subseteq cosignatures',
           \A c \in DOMAIN published : c \in DOMAIN published' /\ published'[c] = published[c],
           FailedUnseen => FailedUnseen',
           \A w \in Witnesses : reply'[w] = "202" => reply[w] = "202" /\ note'[w] = note[w],
           \A w \in Watchers : lastTreeSize'[w] = lastTreeSize[w] \/ lastTreeSize'[w] = 0
    PROVE  CosignaturesAreKept'
  <1>1. CASE FailedUnseen
    BY <1>1 DEF CosignaturesAreKept
  <1>2. CASE (\A w \in Witnesses : AnswerIsKept(w)) /\ (\A w \in Watchers : SizeIsKept(w))
    <2>1. ASSUME NEW w \in Witnesses PROVE AnswerIsKept(w)'
      <3> SUFFICES ASSUME reply'[w] = "202"
                   PROVE  (note[w] # NoNote /\ Cosigned(w, note[w].body))'
        BY DEF AnswerIsKept
      <3>1. note'[w] = note[w] /\ note[w] # NoNote
        BY <1>2 DEF AnswerIsKept
      <3>2. PICK b : b = note[w].body
        OBVIOUS
      <3>3. Cosigned(w, b)
        BY <1>2, <3>2 DEF AnswerIsKept
      <3>4. Cosigned(w, b)'
        BY <3>3, CosignedStays
      <3>5. QED
        BY <3>1, <3>2, <3>4 DEF Cosigned
    <2>2. ASSUME NEW w \in Watchers PROVE SizeIsKept(w)'
      <3> SUFFICES ASSUME lastTreeSize'[w] > 0
                   PROVE  (\E c \in DOMAIN published :
                              /\ published[c].size = lastTreeSize[w]
                              /\ Cosigned(w, published[c]))'
        BY DEF SizeIsKept
      <3>1. lastTreeSize'[w] = lastTreeSize[w]
        OBVIOUS
      <3>2. PICK c \in DOMAIN published :
               published[c].size = lastTreeSize[w] /\ Cosigned(w, published[c])
        BY <1>2, <3>1 DEF SizeIsKept
      <3>3. PICK b : b = published[c]
        OBVIOUS
      <3>4. Cosigned(w, b)'
        BY <3>2, <3>3, CosignedStays
      <3>5. QED
        BY <3>1, <3>2, <3>3, <3>4 DEF Cosigned
    <2>3. QED
      BY <2>1, <2>2 DEF CosignaturesAreKept, AnswerIsKept, SizeIsKept
  <1>3. QED
    BY <1>1, <1>2, KeptInParts

(* A step that leaves the rows, the reader and the faults alone.           *)
LEMMA StoredUntouched ==
    ASSUME RowsAreGood, ReaderIsGood,
           Bodies \subseteq Bodies', \A w \in Witnesses : signed[w] \subseteq signed'[w],
           UNCHANGED <<cosignatures, reader, faults>>
    PROVE  RowsAreGood' /\ ReaderIsGood'
  <1>1. StrangerPosted => StrangerPosted'
    BY DEF StrangerPosted
  <1>2. QED
    BY <1>1, StoredStays DEF RowsAreGood

(* Publishing.                                                             *)
LEMMA PublishKeepsRoots ==
    ASSUME RootsAreOwn, NEW body \in Body, Publish(body)
    PROVE  /\ RootsAreOwn'
           /\ Bodies \subseteq Bodies'
           /\ \A c \in DOMAIN published : c \in DOMAIN published' /\ published'[c] = published[c]
  <1> DEFINE n == Len(published)
  <1>1. published \in Seq(Body) /\ n \in Nat /\ DOMAIN published = 1 .. n
    BY DEF RootsAreOwn
  <1>2. /\ published' \in Seq(Body) /\ DOMAIN published' = 1 .. n + 1
        /\ \A c \in 1 .. n : published'[c] = published[c]
        /\ published'[n + 1] = body
    BY <1>1 DEF Publish
  <1>3. Bodies' = Bodies \cup {body}
    BY <1>1, <1>2 DEF Bodies
  <1>4. CASE body.root = n + 1
    <2>1. \A b \in Bodies : b.root <= n
      <3>1. \A c \in 1 .. n : published[c] \in Body /\ published[c].root <= c
        BY <1>1 DEF RootsAreOwn
      <3>2. \A b \in Body : b.root \in Nat
        BY WitnessAssumption DEF Body
      <3>3. QED
        BY <1>1, <3>1, <3>2 DEF Bodies
    <2>2. \A b \in Bodies : b.root # body.root
      BY <1>1, <1>4, <2>1
    <2>3. \A b, d \in Bodies' : b.root = d.root => b = d
      BY <1>3, <2>2 DEF RootsAreOwn
    <2>4. \A c \in DOMAIN published' : published'[c].root <= c
      BY <1>1, <1>2, <1>4 DEF RootsAreOwn
    <2>5. QED
      BY <1>1, <1>2, <1>3, <2>3, <2>4 DEF RootsAreOwn
  <1>5. ASSUME NEW e \in DOMAIN published, body = published[e]
        PROVE  RootsAreOwn' /\ Bodies \subseteq Bodies'
    <2>1. e \in 1 .. n
      BY <1>1, <1>5
    <2>2. body \in Bodies /\ Bodies' = Bodies
      BY <1>1, <1>3, <1>5, <2>1 DEF Bodies
    <2>3. body.root <= n /\ body.root \in Nat
      <3>1. published[e] \in Body /\ published[e].root <= e
        BY <1>1, <2>1 DEF RootsAreOwn
      <3>2. body.root \in Nat
        BY <1>5, <3>1, WitnessAssumption DEF Body
      <3>3. QED
        BY <1>1, <1>5, <2>1, <3>1, <3>2
    <2>4. \A c \in DOMAIN published' : published'[c].root <= c
      BY <1>1, <1>2, <2>3 DEF RootsAreOwn
    <2>5. QED
      BY <1>1, <1>2, <2>2, <2>4 DEF RootsAreOwn
  <1>6. QED
    BY <1>1, <1>2, <1>4, <1>5 DEF Publish

(* A builder saves a checkpoint: a new root, or an earlier body again.     *)
LEMMA PublishKeepsInv ==
    ASSUME WitnessInv, NEW body \in Body, Publish(body)
    PROVE  WitnessInv'
  <1>1. /\ RootsAreOwn'
        /\ Bodies \subseteq Bodies'
        /\ \A c \in DOMAIN published : c \in DOMAIN published' /\ published'[c] = published[c]
    BY PublishKeepsRoots DEF WitnessInv
  <1>2. UNCHANGED <<cosignatures, posts, pc, note, reply, lastTreeSize, signed, reader, faults>>
    BY DEF Publish, witnessVars
  <1>3. \A n, w : /\ IsNote(n, Bodies, signed) => IsNote(n, Bodies', signed')
                  /\ IsCosigned(n, w, Bodies, signed) => IsCosigned(n, w, Bodies', signed')
    BY <1>1, <1>2, NotesStay
  <1>4. WitnessTypeOK'
    BY <1>2 DEF WitnessInv, WitnessTypeOK
  <1>5. NotesAreGood'
    BY <1>2, <1>3 DEF WitnessInv, NotesAreGood
  <1>6. PostsAreGood'
    BY <1>2, <1>3 DEF WitnessInv, PostsAreGood
  <1>7. RowsAreGood' /\ ReaderIsGood'
    BY <1>1, <1>2, StoredUntouched DEF WitnessInv
  <1>8. CosignaturesAreKept'
    <2>1. FailedUnseen => FailedUnseen'
      BY <1>2 DEF FailedUnseen
    <2>2. QED
      BY <1>1, <1>2, <2>1, KeptStays DEF WitnessInv
  <1>9. QED
    BY <1>1, <1>4, <1>5, <1>6, <1>7, <1>8 DEF WitnessInv

(* What stays when neither the ledger's checkpoints nor the signatures of  *)
(* the witnesses change.                                                   *)
LEMMA SameBodies ==
    ASSUME WitnessInv, UNCHANGED published
    PROVE  /\ RootsAreOwn'
           /\ Bodies' = Bodies
           /\ \A c \in DOMAIN published : c \in DOMAIN published' /\ published'[c] = published[c]
  BY DEF WitnessInv, RootsAreOwn, Bodies

(* GET /v1/witness/checkpoint.                                             *)
LEMMA FetchKeepsInv ==
    ASSUME WitnessInv, NEW w \in Witnesses, FetchCheckpoint(w)
    PROVE  WitnessInv'
  <1>1. /\ pc[w] = "idle" /\ pc' = [pc EXCEPT ![w] = "fetched"]
        /\ note' = [note EXCEPT ![w] = SignCheckpoint(Latest)]
        /\ UNCHANGED <<published, cosignatures, posts, reply, lastTreeSize, signed, reader, faults>>
    BY DEF FetchCheckpoint, Goto, ledgerVars, NoFault
  <1>2. /\ RootsAreOwn' /\ Bodies' = Bodies
        /\ \A c \in DOMAIN published : c \in DOMAIN published' /\ published'[c] = published[c]
    BY <1>1, SameBodies
  <1>3. IsNote(SignCheckpoint(Latest), Bodies, signed)
    <2>1. Latest \in Bodies
      <3>1. published \in Seq(Body) /\ published # <<>>
        BY DEF WitnessInv, RootsAreOwn, FetchCheckpoint
      <3>2. Len(published) \in DOMAIN published
        BY <3>1
      <3>3. QED
        BY <3>2 DEF Bodies, Latest
    <2>2. QED
      BY <2>1 DEF IsNote, SignCheckpoint
  <1>4. /\ pc' \in [Witnesses -> {"idle", "fetched", "posted"}]
        /\ note' = [v \in Witnesses |-> note'[v]]
        /\ pc'[w] = "fetched" /\ note'[w] = SignCheckpoint(Latest)
        /\ \A v \in Witnesses : v # w => pc'[v] = pc[v] /\ note'[v] = note[v]
    BY <1>1 DEF WitnessInv, WitnessTypeOK
  <1>5. reply[w] = "none"
    BY <1>1 DEF WitnessInv, NotesAreGood
  <1>6. WitnessTypeOK'
    BY <1>1, <1>4 DEF WitnessInv, WitnessTypeOK
  <1>7. NotesAreGood'
    BY <1>1, <1>2, <1>3, <1>4, <1>5 DEF WitnessInv, NotesAreGood
  <1>8. PostsAreGood'
    <2>1. \A p \in posts : p.awaited => p.from # w
      BY <1>1 DEF WitnessInv, PostsAreGood
    <2>2. QED
      BY <1>1, <1>2, <1>4, <2>1 DEF WitnessInv, PostsAreGood
  <1>9. RowsAreGood' /\ ReaderIsGood'
    BY <1>1, <1>2, StoredUntouched DEF WitnessInv
  <1>10. CosignaturesAreKept'
    <2>1. FailedUnseen => FailedUnseen'
      BY <1>1 DEF FailedUnseen
    <2>2. \A v \in Witnesses : reply'[v] = "202" => reply[v] = "202" /\ note'[v] = note[v]
      BY <1>1, <1>4, <1>5
    <2>3. QED
      BY <1>1, <1>2, <2>1, <2>2, KeptStays DEF WitnessInv
  <1>11. QED
    BY <1>2, <1>6, <1>7, <1>8, <1>9, <1>10 DEF WitnessInv

(* VerifyAndCosign, and the POST.                                          *)
LEMMA CosignKeepsInv ==
    ASSUME WitnessInv, NEW w \in Witnesses, CosignAndSubmit(w)
    PROVE  WitnessInv'
  <1>1. PICK body, cosigned :
           /\ body = note[w].body
           /\ cosigned = [note[w] EXCEPT !.sigs = @ \cup {SignedBy(w, body)}]
    OBVIOUS
  <1>2. /\ pc[w] = "fetched" /\ pc' = [pc EXCEPT ![w] = "posted"]
        /\ note' = [note EXCEPT ![w] = cosigned]
        /\ signed' = [signed EXCEPT ![w] = @ \cup {body}]
        /\ posts' = posts \cup {[from |-> w, note |-> cosigned, awaited |-> TRUE]}
        /\ UNCHANGED <<published, cosignatures, reply, lastTreeSize, reader, faults>>
    BY <1>1 DEF CosignAndSubmit, Goto, ledgerVars, NoFault
  <1>3. /\ RootsAreOwn' /\ Bodies' = Bodies
        /\ \A c \in DOMAIN published : c \in DOMAIN published' /\ published'[c] = published[c]
    BY <1>2, SameBodies
  <1>4. /\ pc' \in [Witnesses -> {"idle", "fetched", "posted"}]
        /\ note' = [v \in Witnesses |-> note'[v]]
        /\ signed' = [v \in Witnesses |-> signed'[v]]
        /\ pc'[w] = "posted" /\ note'[w] = cosigned /\ body \in signed'[w]
        /\ \A v \in Witnesses : v # w => pc'[v] = pc[v] /\ note'[v] = note[v]
        /\ \A v \in Witnesses : signed[v] \subseteq signed'[v]
    BY <1>2 DEF WitnessInv, WitnessTypeOK
  <1>5. \A n, v : /\ IsNote(n, Bodies, signed) => IsNote(n, Bodies, signed')
                  /\ IsCosigned(n, v, Bodies, signed) => IsCosigned(n, v, Bodies, signed')
    BY <1>4, NotesStay
  <1>6. IsCosigned(cosigned, w, Bodies, signed')
    <2>1. IsNote(note[w], Bodies, signed')
      BY <1>2, <1>5 DEF WitnessInv, NotesAreGood
    <2>2. /\ cosigned = [f \in {"body", "sigs"} |-> cosigned[f]]
          /\ cosigned.body = body
          /\ cosigned.sigs = note[w].sigs \cup {SignedBy(w, body)}
      BY <1>1, <2>1 DEF IsNote
    <2>3. QED
      BY <1>1, <1>4, <2>1, <2>2, ZenonT(60) DEF IsNote, IsCosigned
  <1>7. reply[w] = "none"
    BY <1>2 DEF WitnessInv, NotesAreGood
  <1>8. WitnessTypeOK'
    BY <1>2, <1>4 DEF WitnessInv, WitnessTypeOK
  <1>9. NotesAreGood'
    BY <1>2, <1>3, <1>4, <1>5, <1>6, <1>7 DEF WitnessInv, NotesAreGood
  <1>10. PostsAreGood'
    <2> DEFINE new == [from |-> w, note |-> cosigned, awaited |-> TRUE]
    <2>1. /\ new = [f \in {"from", "note", "awaited"} |-> new[f]]
          /\ new.from = w /\ new.note = cosigned
          /\ new.awaited = TRUE
      OBVIOUS
    <2> HIDE DEF new
    <2>2. \A p \in posts : p.awaited => p.from # w
      BY <1>2 DEF WitnessInv, PostsAreGood
    <2>3. posts' = posts \cup {new}
      BY <1>2 DEF new
    <2>4. ASSUME NEW p \in posts
          PROVE  /\ p = [f \in {"from", "note", "awaited"} |-> p[f]]
                 /\ p.from \in Witnesses
                 /\ p.awaited \in BOOLEAN
                 /\ IsCosigned(p.note, p.from, Bodies, signed')
                 /\ p.awaited => /\ pc'[p.from] = "posted" /\ note'[p.from] = p.note
                                 /\ reply'[p.from] = "none"
      BY <1>2, <1>4, <1>5, <2>2 DEF WitnessInv, PostsAreGood
    <2>5. new.awaited \in BOOLEAN
      BY <2>1
    <2>6. QED
      BY <1>2, <1>3, <1>4, <1>6, <1>7, <2>1, <2>3, <2>4, <2>5 DEF PostsAreGood
  <1>11. RowsAreGood' /\ ReaderIsGood'
    BY <1>2, <1>3, <1>4, StoredUntouched DEF WitnessInv
  <1>12. CosignaturesAreKept'
    <2>1. FailedUnseen => FailedUnseen'
      BY <1>2 DEF FailedUnseen
    <2>2. \A v \in Witnesses : reply'[v] = "202" => reply[v] = "202" /\ note'[v] = note[v]
      BY <1>2, <1>4, <1>7
    <2>3. QED
      BY <1>2, <1>3, <2>1, <2>2, KeptStays DEF WitnessInv
  <1>13. QED
    BY <1>3, <1>8, <1>9, <1>10, <1>11, <1>12 DEF WitnessInv

(* The witness goes back to sleep: with the answer, or giving up.          *)
LEMMA SleepKeepsInv ==
    ASSUME WitnessInv, NEW w \in Witnesses,
           pc' = [pc EXCEPT ![w] = "idle"],
           note' = [note EXCEPT ![w] = NoNote],
           reply' = [reply EXCEPT ![w] = "none"],
           lastTreeSize' \in [Witnesses -> Nat],
           faults' \in Seq(FaultKinds), StrangerPosted => StrangerPosted',
           UNCHANGED <<published, cosignatures, signed, reader>>,
           \A p \in posts' : \/ p \in posts /\ (p.from # w \/ p.awaited = FALSE)
                             \/ \E q \in posts : p = [q EXCEPT !.awaited = FALSE],
           CosignaturesAreKept'
    PROVE  WitnessInv'
  <1>1. RootsAreOwn' /\ Bodies' = Bodies
    BY SameBodies
  <1>2. /\ pc' \in [Witnesses -> {"idle", "fetched", "posted"}]
        /\ reply' \in [Witnesses -> {"none", "202", "400"}]
        /\ note' = [v \in Witnesses |-> note'[v]]
        /\ pc'[w] = "idle" /\ reply'[w] = "none"
        /\ \A v \in Witnesses :
              v # w => pc'[v] = pc[v] /\ note'[v] = note[v] /\ reply'[v] = reply[v]
    BY DEF WitnessInv, WitnessTypeOK
  <1>3. WitnessTypeOK'
    BY <1>2 DEF WitnessInv, WitnessTypeOK
  <1>4. NotesAreGood'
    BY <1>1, <1>2 DEF WitnessInv, NotesAreGood
  <1>5. ASSUME NEW p \in posts'
        PROVE  /\ p = [f \in {"from", "note", "awaited"} |-> p[f]]
               /\ p.from \in Witnesses
               /\ p.awaited \in BOOLEAN
               /\ IsCosigned(p.note, p.from, Bodies', signed')
               /\ p.awaited => /\ pc'[p.from] = "posted" /\ note'[p.from] = p.note
                               /\ reply'[p.from] = "none"
    <2>1. CASE p \in posts /\ (p.from # w \/ p.awaited = FALSE)
      BY <1>1, <1>2, <2>1 DEF WitnessInv, PostsAreGood
    <2>2. ASSUME NEW q \in posts, p = [q EXCEPT !.awaited = FALSE]
          PROVE  /\ p = [f \in {"from", "note", "awaited"} |-> p[f]]
                 /\ p.from = q.from /\ p.note = q.note /\ p.awaited = FALSE
      <3>1. q = [f \in {"from", "note", "awaited"} |-> q[f]]
        BY DEF WitnessInv, PostsAreGood
      <3>2. QED
        BY <2>2, <3>1
    <2>3. ASSUME NEW q \in posts, p = [q EXCEPT !.awaited = FALSE]
          PROVE  /\ p = [f \in {"from", "note", "awaited"} |-> p[f]]
                 /\ p.from \in Witnesses
                 /\ p.awaited = FALSE
                 /\ IsCosigned(p.note, p.from, Bodies', signed')
      BY <1>1, <2>2, <2>3 DEF WitnessInv, PostsAreGood
    <2>4. QED
      BY <2>1, <2>3
  <1>6. PostsAreGood'
    BY <1>5 DEF PostsAreGood
  <1>7. RowsAreGood' /\ ReaderIsGood'
    BY <1>1, StoredStays DEF WitnessInv, RowsAreGood
  <1>8. QED
    BY <1>1, <1>3, <1>4, <1>6, <1>7 DEF WitnessInv

(* 202: the size that is remembered is that of the note, which is kept.    *)
LEMMA AcceptedKeepsInv ==
    ASSUME WitnessInv, NEW w \in Witnesses, Accepted(w)
    PROVE  WitnessInv'
  <1>1. PICK size : size = note[w].body.size
    OBVIOUS
  <1>2. /\ reply[w] = "202"
        /\ pc' = [pc EXCEPT ![w] = "idle"]
        /\ note' = [note EXCEPT ![w] = NoNote]
        /\ reply' = [reply EXCEPT ![w] = "none"]
        /\ lastTreeSize' = [lastTreeSize EXCEPT ![w] = IF w \in Watchers THEN size ELSE @]
        /\ UNCHANGED <<published, cosignatures, posts, signed, reader, faults>>
    BY <1>1 DEF Accepted, Sleep, Goto, ledgerVars, NoFault
  <1>3. IsCosigned(note[w], w, Bodies, signed)
    BY <1>2 DEF WitnessInv, NotesAreGood
  <1>4. PICK c \in DOMAIN published : published[c] = note[w].body
    BY <1>3 DEF IsCosigned, IsNote, Bodies
  <1>5. size \in Nat /\ published[c].size = size
    <2>1. published[c] \in Body
      BY <1>4 DEF WitnessInv, RootsAreOwn
    <2>2. QED
      BY <1>1, <1>4, <2>1, WitnessAssumption DEF Body
  <1>6. /\ lastTreeSize' \in [Witnesses -> Nat]
        /\ \A v \in Watchers : lastTreeSize'[v] = lastTreeSize[v] \/ (v = w /\ lastTreeSize'[v] = size)
    <2>1. lastTreeSize \in [Witnesses -> Nat] /\ Watchers \subseteq Witnesses
      BY DEF WitnessInv, WitnessTypeOK, Witnesses
    <2>2. PICK s : s = (IF w \in Watchers THEN size ELSE lastTreeSize[w])
      OBVIOUS
    <2>3. s \in Nat /\ (w \in Watchers => s = size)
      BY <1>5, <2>1, <2>2
    <2>4. lastTreeSize' = [lastTreeSize EXCEPT ![w] = s]
      BY <1>2, <2>2
    <2>5. QED
      BY <2>1, <2>3, <2>4
  <1>7. \A p \in posts : p.from # w \/ p.awaited = FALSE
    BY <1>2 DEF WitnessInv, PostsAreGood
  <1>8. CosignaturesAreKept'
    <2>1. CASE FailedUnseen
      <3>1. FailedUnseen'
        BY <1>2, <2>1 DEF FailedUnseen
      <3>2. QED
        BY <3>1 DEF CosignaturesAreKept
    <2>2. CASE (\A v \in Witnesses : AnswerIsKept(v)) /\ (\A v \in Watchers : SizeIsKept(v))
      <3>1. \A v \in Witnesses : AnswerIsKept(v)'
        <4>1. \A v \in Witnesses : reply'[v] = "202" => reply[v] = "202" /\ note'[v] = note[v]
          BY <1>2 DEF WitnessInv, WitnessTypeOK
        <4>2. QED
          BY <1>2, <2>2, <4>1 DEF AnswerIsKept, Cosigned
      <3>2. Cosigned(w, published[c])
        BY <1>2, <1>4, <2>2 DEF AnswerIsKept
      <3>3. \A v \in Watchers : SizeIsKept(v)'
        BY <1>2, <1>5, <1>6, <2>2, <3>2 DEF SizeIsKept, Cosigned
      <3>4. QED
        BY <3>1, <3>3 DEF CosignaturesAreKept, AnswerIsKept, SizeIsKept
    <2>3. QED
      BY <2>1, <2>2, KeptInParts DEF WitnessInv
  <1>9. \A p \in posts' : p \in posts /\ (p.from # w \/ p.awaited = FALSE)
    BY <1>2, <1>7
  <1>10. faults' \in Seq(FaultKinds) /\ (StrangerPosted => StrangerPosted')
    BY <1>2 DEF WitnessInv, WitnessTypeOK, StrangerPosted
  <1>11. QED
    BY <1>2, <1>6, <1>8, <1>9, <1>10, SleepKeepsInv

(* Going to sleep without a 202 makes nothing that was kept less so.       *)
LEMMA SleepKeepsKept ==
    ASSUME WitnessInv, NEW w \in Witnesses,
           reply' = [reply EXCEPT ![w] = "none"],
           note' = [note EXCEPT ![w] = NoNote],
           lastTreeSize' = lastTreeSize \/ lastTreeSize' = [lastTreeSize EXCEPT ![w] = 0],
           FailedUnseen => FailedUnseen',
           UNCHANGED <<published, cosignatures>>
    PROVE  CosignaturesAreKept' /\ lastTreeSize' \in [Witnesses -> Nat]
  <1>1. \A v \in Witnesses : reply'[v] = "202" => reply[v] = "202" /\ note'[v] = note[v]
    BY DEF WitnessInv, WitnessTypeOK
  <1>2. /\ \A v \in Watchers : lastTreeSize'[v] = lastTreeSize[v] \/ lastTreeSize'[v] = 0
        /\ lastTreeSize' \in [Witnesses -> Nat]
    BY DEF WitnessInv, WitnessTypeOK, Witnesses
  <1>3. QED
    BY <1>1, <1>2, SameBodies, KeptStays DEF WitnessInv

(* The witness takes up a 400: it drops the note, and its last size stays. *)
LEMMA RejectedKeepsInv ==
    ASSUME WitnessInv, NEW w \in Witnesses, Rejected(w)
    PROVE  WitnessInv'
  <1>1. /\ reply[w] = "400"
        /\ pc' = [pc EXCEPT ![w] = "idle"]
        /\ note' = [note EXCEPT ![w] = NoNote]
        /\ reply' = [reply EXCEPT ![w] = "none"]
        /\ UNCHANGED <<published, cosignatures, posts, signed, lastTreeSize, reader, faults>>
    BY DEF Rejected, Sleep, Goto, ledgerVars, NoFault
  <1>2. \A p \in posts' : p \in posts /\ (p.from # w \/ p.awaited = FALSE)
    BY <1>1 DEF WitnessInv, PostsAreGood
  <1>3. FailedUnseen => FailedUnseen'
    BY <1>1 DEF FailedUnseen
  <1>4. CosignaturesAreKept' /\ lastTreeSize' \in [Witnesses -> Nat]
    BY <1>1, <1>3, SleepKeepsKept
  <1>5. faults' \in Seq(FaultKinds) /\ (StrangerPosted => StrangerPosted')
    BY <1>1 DEF WitnessInv, WitnessTypeOK, StrangerPosted
  <1>6. QED
    BY <1>1, <1>2, <1>4, <1>5, SleepKeepsInv

(* The POST is given up on, or the process is restarted.                   *)
LEMMA WitnessFailsKeepsInv ==
    ASSUME WitnessInv, NEW w \in Witnesses, WitnessFails(w)
    PROVE  WitnessInv'
  <1>1. PICK k \in FaultKinds : faults' = Append(faults, k)
    BY DEF WitnessFails, SubmitFails, WitnessCrash, Fault
  <1>2. /\ pc' = [pc EXCEPT ![w] = "idle"]
        /\ note' = [note EXCEPT ![w] = NoNote]
        /\ reply' = [reply EXCEPT ![w] = "none"]
        /\ lastTreeSize' = lastTreeSize \/ lastTreeSize' = [lastTreeSize EXCEPT ![w] = 0]
        /\ UNCHANGED <<published, cosignatures, signed, reader>>
        /\ Abandon(w)
    BY DEF WitnessFails, SubmitFails, WitnessCrash, Sleep, Goto, ledgerVars
  <1>3. \A p \in posts' : \/ p \in posts /\ (p.from # w \/ p.awaited = FALSE)
                          \/ \E q \in posts : p = [q EXCEPT !.awaited = FALSE]
    <2>1. \A p \in posts : p.awaited \in BOOLEAN
      BY DEF WitnessInv, PostsAreGood
    <2>2. QED
      BY <1>2, <2>1 DEF Abandon
  <1>4. /\ faults' \in Seq(FaultKinds)
        /\ FailedUnseen => FailedUnseen'
        /\ StrangerPosted => StrangerPosted'
    BY <1>1, FaultsStay DEF WitnessInv
  <1>5. CosignaturesAreKept' /\ lastTreeSize' \in [Witnesses -> Nat]
    BY <1>2, <1>4, SleepKeepsKept
  <1>6. QED
    BY <1>2, <1>3, <1>4, <1>5, SleepKeepsInv

(* A POST is answered: it is gone, and its witness knows if it waits.      *)
LEMMA AnswerKeepsPosts ==
    ASSUME WitnessInv, NEW p \in posts, NEW status \in {"202", "400"}, Answer(p, status),
           UNCHANGED <<published, pc, note, signed>>
    PROVE  /\ reply' \in [Witnesses -> {"none", "202", "400"}]
           /\ NotesAreGood'
           /\ PostsAreGood'
           /\ \A w \in Witnesses :
                 \/ reply'[w] = reply[w]
                 \/ reply'[w] = status /\ p.from = w /\ note[w] = p.note
  <1>1. /\ p.from \in Witnesses /\ p.awaited \in BOOLEAN
        /\ p.awaited => pc[p.from] = "posted" /\ note[p.from] = p.note
        /\ p = [f \in {"from", "note", "awaited"} |-> p[f]]
    BY DEF WitnessInv, PostsAreGood
  <1>2. /\ posts' = posts \ {p}
        /\ reply' = IF p.awaited THEN [reply EXCEPT ![p.from] = status] ELSE reply
    BY DEF Answer
  <1>3. reply \in [Witnesses -> {"none", "202", "400"}]
    BY DEF WitnessInv, WitnessTypeOK
  <1>4. Bodies' = Bodies
    BY DEF Bodies
  <1>5. CASE p.awaited
    <2>1. /\ reply' \in [Witnesses -> {"none", "202", "400"}]
          /\ reply'[p.from] = status
          /\ \A w \in Witnesses : w # p.from => reply'[w] = reply[w]
      BY <1>1, <1>2, <1>3, <1>5
    <2>2. \A q \in posts' : q.awaited => q.from # p.from
      <3> SUFFICES ASSUME NEW q \in posts, q.awaited, q.from = p.from PROVE q = p
        BY <1>2
      <3>1. /\ q = [f \in {"from", "note", "awaited"} |-> q[f]]
            /\ q.awaited \in BOOLEAN /\ q.note = note[p.from]
        BY DEF WitnessInv, PostsAreGood
      <3>2. q.awaited = p.awaited /\ q.note = p.note
        BY <1>1, <1>5, <3>1
      <3>3. QED
        BY <1>1, <3>1, <3>2
    <2>3. NotesAreGood'
      BY <1>1, <1>4, <1>5, <2>1 DEF WitnessInv, NotesAreGood
    <2>4. PostsAreGood'
      BY <1>2, <1>4, <2>1, <2>2 DEF WitnessInv, PostsAreGood
    <2>5. QED
      BY <1>1, <1>5, <2>1, <2>3, <2>4
  <1>6. CASE ~p.awaited
    <2>1. reply' = reply
      BY <1>2, <1>6
    <2>2. NotesAreGood'
      BY <1>4, <2>1 DEF WitnessInv, NotesAreGood
    <2>3. PostsAreGood'
      BY <1>2, <1>4, <2>1 DEF WitnessInv, PostsAreGood
    <2>4. QED
      BY <1>3, <2>1, <2>2, <2>3
  <1>7. QED
    BY <1>1, <1>5, <1>6

(* POST /v1/witness/cosign, stored or not: the invariant but for what is   *)
(* kept.                                                                   *)
LEMMA ServedKeepsInv ==
    ASSUME WitnessInv, NEW p \in posts, NEW status \in {"202", "400"}, Answer(p, status),
           UNCHANGED <<published, pc, note, lastTreeSize, signed, reader>>,
           faults' \in Seq(FaultKinds), StrangerPosted => StrangerPosted',
           cosignatures \subseteq cosignatures',
           \A row \in cosignatures' :
              \/ row \in cosignatures
              \/ IsNote(row.note, Bodies, signed) /\ row.rootHex = row.note.body.root,
           CosignaturesAreKept'
    PROVE  WitnessInv'
  <1>1. RootsAreOwn' /\ Bodies' = Bodies
    BY SameBodies
  <1>2. reply' \in [Witnesses -> {"none", "202", "400"}] /\ NotesAreGood' /\ PostsAreGood'
    BY AnswerKeepsPosts
  <1>3. WitnessTypeOK'
    BY <1>2 DEF WitnessInv, WitnessTypeOK
  <1>4. RowsAreGood' /\ ReaderIsGood'
    <2>1. (\A row \in cosignatures : RowIsGood(row)') /\ ReaderIsGood'
      BY <1>1, StoredStays DEF WitnessInv
    <2>2. \A n : IsNote(n, Bodies, signed) =>
                   IsNote(n, Bodies', signed') /\ IsPosted(n, Bodies', signed')
      BY <1>1 DEF IsNote, IsPosted
    <2>3. QED
      BY <2>1, <2>2 DEF RowsAreGood, RowIsGood
  <1>5. QED
    BY <1>1, <1>2, <1>3, <1>4 DEF WitnessInv

(* The note is stored under its own root, and the witness gets its 202.    *)
LEMMA HandleCosignKeepsInv ==
    ASSUME WitnessInv, NEW p \in posts, HandleCosign(p)
    PROVE  WitnessInv'
  <1>1. PICK row : row = [rootHex |-> p.note.body.root, note |-> p.note]
    OBVIOUS
  <1>2. /\ cosignatures' = cosignatures \cup {row}
        /\ Answer(p, "202")
        /\ UNCHANGED <<published, pc, note, lastTreeSize, signed, reader, faults>>
    BY <1>1 DEF HandleCosign, AcceptCosign, StoreCosignature, NoFault
  <1>3. row.note = p.note /\ row.rootHex = p.note.body.root
    BY <1>1
  <1>4. IsCosigned(p.note, p.from, Bodies, signed)
    BY DEF WitnessInv, PostsAreGood
  <1>5. CosignaturesAreKept'
    <2>1. CASE FailedUnseen
      <3>1. FailedUnseen'
        BY <1>2, <2>1 DEF FailedUnseen
      <3>2. QED
        BY <3>1 DEF CosignaturesAreKept
    <2>2. CASE (\A v \in Witnesses : AnswerIsKept(v)) /\ (\A v \in Watchers : SizeIsKept(v))
      <3>1. ASSUME NEW w \in Witnesses PROVE AnswerIsKept(w)'
        <4>1. CASE reply'[w] = reply[w]
          BY <1>2, <2>2, <4>1 DEF AnswerIsKept, Cosigned
        <4>2. CASE p.from = w /\ note[w] = p.note
          <5>1. /\ row \in cosignatures' /\ row.rootHex = note'[w].body.root
                /\ SignedBy(w, note'[w].body) \in row.note.sigs
            BY <1>2, <1>3, <1>4, <4>2 DEF IsCosigned
          <5>2. note'[w] # NoNote
            <6>1. note'[w].sigs # {}
              BY <1>2, <1>4, <4>2 DEF IsCosigned
            <6>2. NoNote.sigs = {}
              BY DEF NoNote
            <6>3. QED
              BY <6>1, <6>2
          <5>3. QED
            BY <5>1, <5>2 DEF AnswerIsKept, Cosigned
        <4>3. QED
          BY <1>2, <4>1, <4>2, AnswerKeepsPosts
      <3>2. \A v \in Watchers : SizeIsKept(v)'
        BY <1>2, <2>2 DEF SizeIsKept, Cosigned
      <3>3. QED
        BY <3>1, <3>2 DEF CosignaturesAreKept, AnswerIsKept, SizeIsKept
    <2>3. QED
      BY <2>1, <2>2, KeptInParts DEF WitnessInv
  <1>6. faults' \in Seq(FaultKinds) /\ (StrangerPosted => StrangerPosted')
    BY <1>2 DEF WitnessInv, WitnessTypeOK, StrangerPosted
  <1>7. \A r \in cosignatures' :
           \/ r \in cosignatures
           \/ IsNote(r.note, Bodies, signed) /\ r.rootHex = r.note.body.root
    BY <1>2, <1>3, <1>4 DEF IsCosigned
  <1>8. QED
    BY <1>2, <1>5, <1>6, <1>7, ServedKeepsInv

(* The insert fails, or less than the whole body is read.                  *)
LEMMA ServeBadlyKeepsInv ==
    ASSUME WitnessInv, NEW p \in posts, HandleCosignUnstored(p) \/ HandleCosignShort(p)
    PROVE  WitnessInv'
  <1>1. PICK k \in FaultKinds : k \in {"store", "short"} /\ faults' = Append(faults, k)
    BY DEF HandleCosignUnstored, HandleCosignShort, Fault
  <1>2. faults' \in Seq(FaultKinds) /\ FailedUnseen' /\ (StrangerPosted => StrangerPosted')
    BY <1>1, FaultsStay DEF WitnessInv
  <1>3. CosignaturesAreKept'
    BY <1>2 DEF CosignaturesAreKept
  <1>4. PICK cut : cut = [p.note EXCEPT !.sigs = KnownSigs(p.note, {Operator})]
    OBVIOUS
  <1>5. IsNote(cut, Bodies, signed)
    <2>1. IsNote(p.note, Bodies, signed)
      BY DEF WitnessInv, PostsAreGood, IsCosigned
    <2>2. /\ cut = [f \in {"body", "sigs"} |-> cut[f]]
          /\ cut.body = p.note.body
          /\ cut.sigs = KnownSigs(p.note, {Operator})
      BY <1>4, <2>1 DEF IsNote
    <2>3. SignedBy(Operator, p.note.body) \in KnownSigs(p.note, {Operator})
      BY <2>1 DEF IsNote, KnownSigs, SignedBy
    <2>4. KnownSigs(p.note, {Operator}) \subseteq p.note.sigs
      BY DEF KnownSigs
    <2>5. QED
      BY <2>1, <2>2, <2>3, <2>4 DEF IsNote
  <1>6. PICK row : row = [rootHex |-> cut.body.root, note |-> cut]
    OBVIOUS
  <1>7. /\ UNCHANGED <<published, pc, note, lastTreeSize, signed, reader>>
        /\ \E status \in {"202", "400"} : Answer(p, status)
        /\ cosignatures' = cosignatures \/ cosignatures' = cosignatures \cup {row}
    BY <1>4, <1>6 DEF HandleCosignUnstored, HandleCosignShort, ledgerVars, StoreCosignature
  <1>8. row.note = cut /\ row.rootHex = cut.body.root
    BY <1>6
  <1>9. \A r \in cosignatures' :
           \/ r \in cosignatures
           \/ IsNote(r.note, Bodies, signed) /\ r.rootHex = r.note.body.root
    BY <1>5, <1>7, <1>8
  <1>10. QED
    BY <1>2, <1>3, <1>7, <1>9, ServedKeepsInv

(* A stranger's note is stored: the witnesses do not notice.               *)
LEMMA StrangerKeepsInv ==
    ASSUME WitnessInv, NEW body \in Bodies, NEW w \in Witnesses,
           NEW over \in signed[w] \cup {NoBody}, HandleCosignOfStranger(body, w, over)
    PROVE  WitnessInv'
  <1>1. PICK n : n = [body |-> body, sigs |-> {SignedBy(Operator, body), SignedBy(w, over)}]
    OBVIOUS
  <1>2. PICK row : row = [rootHex |-> body.root, note |-> n]
    OBVIOUS
  <1>3. [SignCheckpoint(body) EXCEPT !.sigs = @ \cup {SignedBy(w, over)}] = n
    BY <1>1 DEF SignCheckpoint
  <1>4. n.body = body /\ n.sigs = {SignedBy(Operator, body), SignedBy(w, over)}
    BY <1>1
  <1>5. /\ cosignatures' = cosignatures \cup {row}
        /\ "stranger" \in FaultKinds /\ faults' = Append(faults, "stranger")
        /\ UNCHANGED <<published, posts, pc, note, reply, lastTreeSize, signed, reader>>
    BY <1>2, <1>3, <1>4
       DEF HandleCosignOfStranger, AcceptCosign, StoreCosignature, Fault, witnessVars
  <1>6. /\ faults' \in Seq(FaultKinds)
        /\ FailedUnseen => FailedUnseen'
        /\ StrangerPosted => StrangerPosted'
        /\ StrangerPosted'
    BY <1>5, FaultsStay DEF WitnessInv
  <1>7. /\ RootsAreOwn' /\ Bodies' = Bodies
        /\ \A c \in DOMAIN published : c \in DOMAIN published' /\ published'[c] = published[c]
    BY <1>5, SameBodies
  <1>8. WitnessTypeOK' /\ NotesAreGood' /\ PostsAreGood'
    BY <1>5, <1>6, <1>7 DEF WitnessInv, WitnessTypeOK, NotesAreGood, PostsAreGood
  <1>9. (\A r \in cosignatures : RowIsGood(r)') /\ ReaderIsGood'
    BY <1>5, <1>6, <1>7, StoredStays DEF WitnessInv
  <1>10. IsPosted(n, Bodies, signed)
    <2>1. n = [f \in {"body", "sigs"} |-> n[f]]
      BY <1>1
    <2>2. \/ \E v \in Witnesses : SignedBy(w, over) = SignedBy(v, n.body) /\ n.body \in signed[v]
          \/ SignedBy(w, over).signer \in Witnesses /\ SignedBy(w, over).body # n.body
      <3>1. SignedBy(w, over).signer = w /\ SignedBy(w, over).body = over
        BY DEF SignedBy
      <3>2. NoBody \notin Bodies
        <4>1. \A b \in Bodies : b.size \in 1 .. MaxSize
          <5>1. published \in Seq(Body)
            BY DEF WitnessInv, RootsAreOwn
          <5>2. \A c \in DOMAIN published : published[c] \in Body
            BY <5>1
          <5>3. \A b \in Body : b.size \in 1 .. MaxSize
            BY DEF Body
          <5>4. QED
            BY <5>2, <5>3 DEF Bodies
        <4>2. NoBody.size = 0
          BY DEF NoBody
        <4>3. 0 \notin 1 .. MaxSize
          BY WitnessAssumption
        <4>4. QED
          BY <4>1, <4>2, <4>3
      <3>3. CASE over = n.body
        BY <1>4, <3>2, <3>3
      <3>4. CASE over # n.body
        BY <3>1, <3>4
      <3>5. QED
        BY <3>3, <3>4
    <2>3. QED
      BY <1>4, <2>1, <2>2 DEF IsPosted
  <1>11. RowIsGood(row)'
    <2>1. row.note = n /\ row.rootHex = n.body.root
      BY <1>2, <1>4
    <2>2. IsPosted(row.note, Bodies, signed)'
      BY <1>5, <1>7, <1>10, <2>1 DEF IsPosted
    <2>3. QED
      BY <1>6, <2>1, <2>2 DEF RowIsGood
  <1>12. CosignaturesAreKept'
    <2>1. cosignatures \subseteq cosignatures'
      BY <1>5
    <2>2. QED
      BY <1>5, <1>6, <1>7, <2>1, KeptStays DEF WitnessInv
  <1>13. RowsAreGood'
    BY <1>5, <1>9, <1>11 DEF RowsAreGood
  <1>14. QED
    BY <1>7, <1>8, <1>9, <1>12, <1>13 DEF WitnessInv

(* The combined note: every line of it is over the body it was over in the *)
(* note it comes from, since rows with one root have one body.             *)
LEMMA MergedIsServed ==
    ASSUME WitnessInv, NEW b \in Bodies
    PROVE  IsServed(MergeCosignatures(SignCheckpoint(b), GetCosignatures(b.root)))
  <1> DEFINE cosigs == GetCosignatures(b.root)
             n == MergeCosignatures(SignCheckpoint(b), cosigs)
  <1>1. /\ n = [f \in {"body", "sigs"} |-> n[f]]
        /\ n.body = b
        /\ n.sigs = {SignedBy(Operator, b)} \cup UNION {c.sigs : c \in cosigs}
    BY DEF MergeCosignatures, SignCheckpoint
  <1>2. \A c \in cosigs : /\ IsPosted(c, Bodies, signed) /\ c.body = b
                          /\ StrangerPosted \/ IsNote(c, Bodies, signed)
    <2> TAKE c \in cosigs
    <2>1. PICK row \in cosignatures : row.rootHex = b.root /\ c = row.note
      BY DEF GetCosignatures
    <2>2. /\ IsPosted(c, Bodies, signed) /\ c.body.root = b.root
          /\ StrangerPosted \/ IsNote(c, Bodies, signed)
      BY <2>1 DEF WitnessInv, RowsAreGood, RowIsGood
    <2>3. QED
      BY <2>2 DEF WitnessInv, RootsAreOwn, IsPosted
  <1>3. \A line : (\E c \in cosigs : line \in c.sigs /\ line.body # c.body)
                     => BadWhenPosted(line, b.root)
    BY DEF BadWhenPosted
  <1> HIDE DEF n, cosigs
  <1>4. IsPosted(n, Bodies, signed)
    BY <1>1, <1>2 DEF IsPosted
  <1>5. \A w, c : SignedBy(w, c).body = c
    BY DEF SignedBy
  <1>6. ASSUME NEW s \in n.sigs
        PROVE  s.body = b \/ (StrangerPosted /\ BadWhenPosted(s, b.root))
    <2>1. CASE s = SignedBy(Operator, b)
      BY <1>5, <2>1
    <2>2. ASSUME NEW c \in cosigs, s \in c.sigs, s.body # b
          PROVE  StrangerPosted /\ BadWhenPosted(s, b.root)
      <3>1. c.body = b /\ (StrangerPosted \/ IsNote(c, Bodies, signed))
        BY <1>2
      <3>2. ~IsNote(c, Bodies, signed)
        BY <1>5, <2>2, <3>1 DEF IsNote
      <3>3. QED
        BY <1>3, <2>2, <3>1, <3>2
    <2>3. QED
      BY <1>1, <2>1, <2>2
  <1>7. IsServed(n)
    BY <1>1, <1>4, <1>6 DEF IsServed
  <1>8. QED
    BY <1>7 DEF n, cosigs

(* GET /v1/witness/cosigned-checkpoint.                                    *)
LEMMA ReaderKeepsInv ==
    ASSUME WitnessInv, AskCosigned \/ ServeCosigned \/ ReaderLeaves
    PROVE  WitnessInv'
  <1>1. UNCHANGED <<published, cosignatures, posts, pc, note, reply, lastTreeSize, signed, faults>>
    BY DEF AskCosigned, ServeCosigned, ReaderLeaves, ledgerVars, witnessVars
  <1>2. /\ RootsAreOwn' /\ Bodies' = Bodies
        /\ \A c \in DOMAIN published : c \in DOMAIN published' /\ published'[c] = published[c]
    BY <1>1, SameBodies
  <1>3. WitnessTypeOK' /\ NotesAreGood' /\ PostsAreGood'
    BY <1>1, <1>2 DEF WitnessInv, WitnessTypeOK, NotesAreGood, PostsAreGood
  <1>7. /\ RowsAreGood'
        /\ \A n : IsServed(n) => IsServed(n)'
    BY <1>1, <1>2 DEF WitnessInv, RowsAreGood, RowIsGood, StrangerPosted, IsServed,
                      BadWhenPosted, GetCosignatures
  <1>4. CosignaturesAreKept'
    <2>1. FailedUnseen => FailedUnseen'
      BY <1>1 DEF FailedUnseen
    <2>2. QED
      BY <1>1, <1>2, <2>1, KeptStays DEF WitnessInv
  <1>5. ReaderIsGood'
    <2>1. CASE AskCosigned
      <3>1. published \in Seq(Body) /\ published # <<>> /\ reader' = [stage |-> "latest", body |-> Latest]
        BY <2>1 DEF WitnessInv, RootsAreOwn, AskCosigned
      <3>2. Latest \in Bodies
        BY <3>1 DEF Bodies, Latest
      <3>3. QED
        BY <1>2, <3>1, <3>2 DEF ReaderIsGood
    <2>2. CASE ServeCosigned
      <3>1. /\ reader.body \in Bodies
            /\ reader' = [stage |-> "served",
                          note |-> MergeCosignatures(SignCheckpoint(reader.body),
                                                     GetCosignatures(reader.body.root))]
        BY <2>2 DEF WitnessInv, ReaderIsGood, ServeCosigned
      <3>2. PICK n : n = MergeCosignatures(SignCheckpoint(reader.body),
                                           GetCosignatures(reader.body.root))
        OBVIOUS
      <3>3. reader'.stage = "served" /\ reader'.note = n
        BY <3>1, <3>2
      <3>4. IsServed(n)'
        BY <1>7, <3>1, <3>2, MergedIsServed
      <3>5. IsServed(reader.note)'
        BY <3>3, <3>4 DEF IsServed
      <3>6. QED
        BY <3>3, <3>5 DEF ReaderIsGood
    <2>3. CASE ReaderLeaves
      BY <2>3 DEF ReaderLeaves, NoReader, ReaderIsGood
    <2>4. QED
      BY <2>1, <2>2, <2>3
  <1>6. QED
    BY <1>2, <1>3, <1>4, <1>5, <1>7 DEF WitnessInv

(* The inductive invariant of witness cosigning.                           *)
THEOREM WitnessInvariant == Spec => []WitnessInv
  <1>1. Init => WitnessInv
    BY DEF Init, WitnessInv, RootsAreOwn, Bodies, WitnessTypeOK, NotesAreGood, PostsAreGood,
           RowsAreGood, ReaderIsGood, NoReader, CosignaturesAreKept, Witnesses
  <1>2. WitnessInv /\ [Next]_vars => WitnessInv'
    <2> SUFFICES ASSUME WitnessInv, [Next]_vars PROVE WitnessInv'
      OBVIOUS
    <2>1. ASSUME NEW w \in Witnesses, WitnessStep(w) PROVE WitnessInv'
      BY <2>1, FetchKeepsInv, CosignKeepsInv, AcceptedKeepsInv, RejectedKeepsInv
         DEF WitnessStep
    <2>2. ASSUME NEW w \in Witnesses, ServeWitness(w) PROVE WitnessInv'
      BY <2>2, HandleCosignKeepsInv DEF ServeWitness
    <2>3. CASE ServeWitnessBadly
      BY <2>3, ServeBadlyKeepsInv DEF ServeWitnessBadly
    <2>4. CASE UNCHANGED vars
      <3>1. RootsAreOwn' /\ Bodies' = Bodies
        BY <2>4, SameBodies DEF vars
      <3>2. WitnessTypeOK' /\ NotesAreGood' /\ PostsAreGood'
        BY <2>4, <3>1 DEF vars, WitnessInv, WitnessTypeOK, NotesAreGood, PostsAreGood
      <3>3. RowsAreGood' /\ ReaderIsGood'
        BY <2>4, <3>1, StoredUntouched DEF vars, WitnessInv
      <3>4. CosignaturesAreKept'
        BY <2>4 DEF vars, WitnessInv, CosignaturesAreKept, FailedUnseen, Cosigned
      <3>5. QED
        BY <3>1, <3>2, <3>3, <3>4 DEF WitnessInv
    <2>5. CASE ServeStranger
      BY <2>5, StrangerKeepsInv DEF ServeStranger, Bodies
    <2>6. QED
      BY <2>1, <2>2, <2>3, <2>4, <2>5, PublishKeepsInv, WitnessFailsKeepsInv, ReaderKeepsInv
         DEF Next, FetchNothing
  <1>3. QED
    BY <1>1, <1>2, PTL DEF Spec

(* The lines note.Open looks at: one by the operator, who has one line in  *)
(* the note, and if all are good, no more by witnesses than have signed    *)
(* the body.                                                               *)
LEMMA FirstLines ==
    ASSUME NEW n, NEW B, NEW S, IsPosted(n, B, S),
           NEW first \in FirstSigs(n, Witnesses \cup {Operator})
    PROVE  /\ SignedBy(Operator, n.body) \in first
           /\ first \subseteq n.sigs
           /\ Cardinality({s \in first : s.signer \in Witnesses}) \in Nat
           /\ Opens(n, first) =>
                LET signers == {w \in Witnesses : n.body \in S[w]}
                IN  /\ Cardinality(signers) \in Nat
                    /\ Cardinality({s \in first : s.signer \in Witnesses})
                          <= Cardinality(signers)
  <1> DEFINE lines == {s \in first : s.signer \in Witnesses}
             signers == {w \in Witnesses : n.body \in S[w]}
             f == [s \in lines |-> s.signer]
             own == SignedBy(Operator, n.body)
  <1>1. Operator \notin Witnesses /\ IsFiniteSet(Witnesses)
    BY WitnessAssumption, FS_Union DEF Witnesses
  <1>2. /\ first \subseteq n.sigs
        /\ \A s \in n.sigs : s.signer = Operator => \E g \in first : g.signer = Operator
        /\ \A g, h \in first : g.signer = h.signer => g = h
    BY DEF FirstSigs, KnownSigs
  <1>3. \A s \in n.sigs : s.signer = Operator => s = own
    BY <1>1 DEF IsPosted, SignedBy
  <1>4. own \in n.sigs /\ own.signer = Operator
    BY DEF IsPosted, SignedBy
  <1>5. own \in first
    BY <1>2, <1>3, <1>4
  <1> HIDE DEF lines, signers, own
  <1>6. (\A s \in lines : s.signer \in Witnesses)
          /\ \A g, h \in lines : g.signer = h.signer => g = h
    BY <1>2 DEF lines
  <1>7. f \in Injection(lines, Witnesses)
    BY <1>6 DEF Injection, IsInjective
  <1>8. IsFiniteSet(signers)
    <2>1. signers \in SUBSET Witnesses
      BY DEF signers
    <2>2. QED
      BY <1>1, <2>1, FS_Subset, Zenon
  <1>9. ASSUME Opens(n, first) PROVE f \in Injection(lines, signers)
    <2>1. ASSUME NEW s \in lines PROVE s.signer \in signers
      <3>1. s \in n.sigs /\ s.body = n.body /\ s.signer \in Witnesses
        BY <1>2, <1>9 DEF lines, Opens
      <3>2. s # own
        BY <1>1, <1>4, <3>1
      <3>3. PICK w \in Witnesses : s = SignedBy(w, n.body) /\ n.body \in S[w]
        BY <3>1, <3>2 DEF IsPosted, own
      <3>4. QED
        BY <3>3 DEF signers, SignedBy
    <2>2. QED
      BY <1>6, <2>1 DEF Injection, IsInjective
  <1> HIDE DEF f
  <1>10. IsFiniteSet(lines)
    BY <1>1, <1>7, FS_Injection, Zenon
  <1>11. ASSUME Opens(n, first) PROVE Cardinality(lines) <= Cardinality(signers)
    BY <1>8, <1>9, <1>11, FS_Injection, Zenon
  <1>12. Cardinality(lines) \in Nat /\ Cardinality(signers) \in Nat
    BY <1>8, <1>10, FS_CardinalityType
  <1>13. QED
    BY <1>2, <1>5, <1>11, <1>12 DEF lines, signers, own

(* The combined note opens for a reader who knows all signers, unless a    *)
(* stranger's line is in the way: for any witnesses and any order of       *)
(* publishing, posting and reading.                                        *)
THEOREM CombinedNoteOpens == Spec => []ServedNoteOpens
  <1>1. ASSUME WitnessInv PROVE ServedNoteOpens
    <2> SUFFICES ASSUME reader.stage = "served",
                        NEW first \in FirstSigs(reader.note, Witnesses \cup {Operator})
                 PROVE  \/ VerifyCosignedCheckpoint(reader.note, first, Witnesses, 0)
                        \/ /\ StrangerPosted
                           /\ \E s \in first : BadWhenPosted(s, reader.note.body.root)
      BY DEF ServedNoteOpens
    <2> DEFINE n == reader.note
    <2>1. IsServed(n) /\ IsPosted(n, Bodies, signed)
      BY <1>1 DEF WitnessInv, ReaderIsGood, IsServed
    <2> HIDE DEF n
    <2>2. /\ SignedBy(Operator, n.body) \in first
          /\ first \subseteq n.sigs
          /\ Cardinality({s \in first : s.signer \in Witnesses}) \in Nat
      BY <2>1, FirstLines DEF n
    <2>3. CASE \A s \in first : s.body = n.body
      <3>1. SignedBy(Operator, n.body).signer = Operator
        BY DEF SignedBy
      <3>2. Cardinality({s \in first : s.signer \in Witnesses}) >= 0
        BY <2>2
      <3>3. QED
        BY <2>2, <2>3, <3>1, <3>2 DEF VerifyCosignedCheckpoint, Opens, n
    <2>4. ASSUME NEW s \in first, s.body # n.body
          PROVE  StrangerPosted /\ BadWhenPosted(s, n.body.root)
      BY <2>1, <2>2, <2>4 DEF IsServed
    <2>5. QED
      BY <2>3, <2>4 DEF n
  <1>2. QED
    BY <1>1, WitnessInvariant, PTL

(* A k-of-n check that passes means k witnesses: for any k and n, and      *)
(* whatever strangers post.                                                *)
THEOREM ThresholdCountsWitnesses == Spec => []ThresholdMeansWitnessed
  <1>1. ASSUME WitnessInv PROVE ThresholdMeansWitnessed
    <2> SUFFICES ASSUME reader.stage = "served",
                        NEW k \in 0 .. Cardinality(Witnesses),
                        NEW first \in FirstSigs(reader.note, Witnesses \cup {Operator}),
                        VerifyCosignedCheckpoint(reader.note, first, Witnesses, k)
                 PROVE  k <= Cardinality({w \in Witnesses : reader.note.body \in signed[w]})
      BY DEF ThresholdMeansWitnessed
    <2>1. IsPosted(reader.note, Bodies, signed)
      BY <1>1 DEF WitnessInv, ReaderIsGood, IsServed
    <2>2. /\ Opens(reader.note, first)
          /\ Cardinality({s \in first : s.signer \in Witnesses}) >= k
      BY DEF VerifyCosignedCheckpoint
    <2>3. k \in Int
      OBVIOUS
    <2> DEFINE lines == {s \in first : s.signer \in Witnesses}
               signers == {w \in Witnesses : reader.note.body \in signed[w]}
    <2>4. Cardinality(lines) \in Nat /\ Cardinality(signers) \in Nat
            /\ Cardinality(lines) <= Cardinality(signers)
      BY <2>1, <2>2, FirstLines, ZenonT(60)
    <2>5. Cardinality(lines) >= k
      BY <2>2
    <2> HIDE DEF lines, signers
    <2>6. k <= Cardinality(signers)
      BY <2>3, <2>4, <2>5
    <2>7. QED
      BY <2>6 DEF signers
  <1>2. QED
    BY <1>1, WitnessInvariant, PTL

(* An acknowledged cosignature stays with the ledger, and no watching      *)
(* witness passes over a size it has not cosigned there.                   *)
THEOREM AcknowledgedCosignaturesStay == Spec => []CosignaturesAreKept
  <1>1. WitnessInv => CosignaturesAreKept
    BY DEF WitnessInv
  <1>2. QED
    BY <1>1, WitnessInvariant, PTL
=============================================================================
