# Siqlah: a TLA+ verification project

Siqlah is a ledger for AI usage receipts. A server takes the response of a model
provider, builds and signs a *verifiable usage receipt*, stores it, hashes batches of
receipts into Merkle trees and publishes a signed *checkpoint* for each. Readers fetch
inclusion and consistency proofs; witnesses cosign checkpoints; checkpoints are anchored
in the public Rekor log; a monitor compares token counts.

This directory models the parts of that system that keep state or run concurrently,
model-checks them on small instances with TLC, and proves with TLAPS, for every value of
the parameters, every safety and action property that a passing run checks, what the
recursive Merkle functions compute included. The five liveness properties are
model-checked only. Paths below are relative to the repository.

## 1. The system

### Components, their state and operations

| Component | Source | State | Operations |
|---|---|---|---|
| Receipt store | `internal/store/sqlite.go` | tables `receipts` (row id, JSON, `batched`), `checkpoints` (range, size, root, previous root, `issued_at`, `rekor_log_index`), `witness_signatures`, `cosignatures` | append one / a batch, fetch unbatched, mark batched, save and read checkpoints, add and list signatures |
| Ingest handlers | `internal/api/ingest.go` | none of their own | `POST /v1/receipts`, `POST /v1/receipts/batch` |
| Checkpoint builder | `internal/checkpoint/builder.go` | locals of `BuildAndSign` | called by the batcher goroutine and by `POST /v1/checkpoints/build` |
| Merkle tree | `internal/merkle` | none | root, inclusion proof, consistency proof, the two verifiers |
| Proof endpoints | `internal/api/proof.go` | what a request has read | inclusion proof, consistency proof |
| Rekor anchoring | `internal/anchor` | locals of `AnchorOnce`; Rekor itself | one anchoring attempt per tick |
| C2SP witness protocol | `internal/api/witness.go`, `internal/witness`, `cmd/witness` | stored notes; `lastTreeSize` of `watch` | serve, cosign, store, merge, verify |
| Legacy witness protocol | `internal/api/checkpoint.go`, `internal/checkpoint/cosign.go`, `cmd/witness` | `witness_signatures` | cosign by id, submit, verify |
| Tessera ledger | `internal/store/tessera_store.go`, `internal/tessera`, `TesseraBuilder` | SQLite rows beside a Tessera log | append to both, save the log's checkpoint |
| Migration | `cmd/siqlah/migrate.go` | position of the copy | copy a SQLite ledger into a Tessera one |
| Discrepancy monitor | `internal/monitor` | the tick under way | poll stats, checkpoints, ranges; alert |
| x402 payment binding | `internal/x402`, `internal/api/x402_handlers.go` | map from receipt id to authorization, in memory | challenge, ingest with payment, query |
| Usage receipt | `pkg/vur`, `internal/signing` | the receipt, signed in place | canonical bytes, sign and verify, with Ed25519 and Fulcio backends |
| Provider adapters, model identity, energy, attestation | `internal/provider`, `internal/model`, `internal/energy`, `internal/attestation` | fixed tables | what the ingest handler fills a receipt with, and what is attested of it |
| Verifier command | `cmd/verifier` | the run of `reconcile` | verify-receipt, check-proof, reconcile, verify-tokens |
| Witness feeder | `internal/witness/feeder.go` | last size cosigned by each witness, in memory | push a checkpoint to external witnesses |
| Server process | `cmd/siqlah/main.go`, `internal/api/server.go` | the operator key, the context, the requests being served | start, serve, tick, shut down |
| Configuration file, tokenizer | `internal/config`, `internal/tokenizer` | none | not used by the server |

### How they interact

All server goroutines (HTTP handlers, batcher, anchoring scheduler, monitor) share one
SQLite connection (`SetMaxOpenConns(1)`), which makes each **store call** atomic and
nothing more: an operation made of several store calls interleaves with all others. The
monitor and the witnesses reach the server over HTTP; the scheduler reaches Rekor over
HTTP with a timeout, and a request it has given up on may still arrive; so does the
feeder reach its witnesses. There is no coordination between concurrent calls of
`BuildAndSign`, and the shutdown waits neither for the batcher nor for the handlers.

### What is hard about it

* `BuildAndSign` is four store calls (fetch, latest, save, mark) with two callers; each
  call may fail and the process may stop between any two.
* A proof request reads in three calls while rows, marks and checkpoints change, and
  overlapping checkpoints make several answers possible.
* The Merkle verifiers work from sizes that are no powers of two, and do not check the
  length of a proof.
* A Rekor POST whose answer is lost is sent again; index 0 is a valid index.
* Cosignature notes made at different times are merged under a body signed anew, and
  nothing but the operator's line is checked before a note is stored; legacy signatures are
  stored unchecked, under an id of the sender's choice.
* In Tessera mode two stores are written one after the other without a transaction.
* The migration is interrupted, repeated, and reads a source that keeps growing.
* A receipt is signed and then changed; a time is signed and then stored with a coarser
  resolution; a receipt is signed in place over what an earlier signing left behind.
* The feeder caches what a witness cosigned, and the cache falls behind with every lost
  answer; one proof is sent to witnesses that stand at different sizes.
* A proof of the Tessera log and the root it is for are read one after the other.
* `main` returns, and closes the store, while handlers are at work; a restart may come
  with another operator key.

Every hazard is listed in `PROJECT.json` under `hazards`, at its line, with the
properties that watch it.

## 2. The modules

| Module | Models | Style |
|---|---|---|
| `Merkle` | `internal/merkle`, over symbolic hashes | recursive functions |
| `LogAuditor` (`MCLogAuditor`) | what the verifiers are for: an auditor that follows a log which may show it anything | state machine over `Merkle` |
| `CheckpointLog` | *abstract*: a growing log and published ranges that skip nothing | specification |
| `Ledger` (`MCLedger`) | receipts, checkpoints, ingestion, builders, faults, crashes | implements `CheckpointLog` |
| `ProofServer` | the proof endpoints beside a running ledger | extends `Ledger` and `Merkle` |
| `Monitor` | the discrepancy monitor beside a running ledger | extends `Ledger` |
| `MCReaders` | an instance of `Monitor` and `ProofServer`: what reads a running ledger | |
| `Anchor` | the Rekor scheduler, with Rekor as its environment | |
| `Feeder` | the witness feeder, with the witnesses as its environment | |
| `MCPublishing` | an instance of `Anchor` and `Feeder`: how checkpoints leave the ledger | |
| `Witness` (`MCWitness`) | C2SP cosigning: server, witnesses, readers, network | |
| `TesseraLedger` (`MCTesseraLedger`) | the ledger in Tessera mode, and the log's own proofs | uses `Merkle` |
| `Vur` | the receipt's canonical bytes, signing and verifying, with both backends | operators |
| `ReceiptSigning` | one receipt signed again and again | state machine over `Vur` |
| `Receipts` | validating, parsing, building, signing, paying for and attesting a receipt | extends `Vur` |
| `Verifier` | verify-receipt, and reconcile beside a server that goes on | extends `Receipts` |
| `LegacyWitness` | cosigning by checkpoint id, and the verify endpoint, across restarts | |
| `Migrate` | the migration command | |
| `ServerProcess` | the process from start to exit | |
| `MCSatellites` | an instance of the last six state machines | |
| `Recursion` | when a recursive function satisfies its own equation, and induction on natural numbers | TLAPS |
| `MerkleProofs` | theorems about `Merkle`, for trees and proofs of every size | TLAPS |
| `LogProofs` | theorems about `LogAuditor` and `CheckpointLog` | TLAPS |
| `LedgerProofs` | theorems about `Ledger`, and about `Monitor` and `ProofServer` on top of it | TLAPS |
| `PublishingProofs` | theorems about `Anchor` and `Feeder` | TLAPS |
| `WitnessProofs` | theorems about `Witness` | TLAPS |
| `TesseraProofs` | theorems about `TesseraLedger` | TLAPS |
| `SatelliteProofs` | theorems about `ReceiptSigning`, `Receipts`, `Verifier`, `ServerProcess`, `Migrate` and `LegacyWitness` | TLAPS |

Conventions: one action per store call, HTTP request or answer; a failing call is an
action of its own (`...Fails`); the number of faults in a behaviour is bounded by
`MaxFaults`, and which calls may fail is the constant `FaultKinds`. Operators marked
*Mutant* are deliberate mistakes in the place of the definition that follows them: each
property is shown to fail for one of them.

### Correspondence and abstraction, module by module

**Ledger.** `rows`, `batched` and `checkpoints` are the tables; `pc`, `stored` and
`prevRoot` are the locals of each running `BuildAndSign`. `Fetch`, `ReadPrevious`,
`SaveCheckpoint`, `MarkBatched` are its store calls in order, `FetchNothing` its early
return, `FetchFails`, `ReadPreviousFails` (whose error the code discards),
`SaveCheckpointFails` and `MarkBatchedFails` its error paths. `Crash` ends all builds and
keeps the tables. Receipts are named by row id, and a root by the list of receipts it
was computed from; that this names no two batches alike is proved (`RootsNameBatches`),
and `ProofServer` works with the real trees.

**Merkle, LogAuditor.** Hashes are terms: a leaf hash is the tagged data, an inner hash
the tagged pair, so that distinct inputs give distinct hashes (the collision-resistance
of SHA-256 with the code's domain separation) and everything else is the code's own
recursion over split points. Each recursive function is defined on the arguments the code
calls it with: `Slices` are the non-empty index ranges of a tree, `GrowingSizes` the pairs
of an old size, not 0, and a new one that is not smaller. The auditor trusts a tree; the
log presents any tree and any list of hashes as the proof.

**ProofServer.** One outstanding request, one step per store read, with the ledger's
steps in between. `GetCheckpointForRow` has no `ORDER BY`: any covering checkpoint.

**Monitor.** One step per HTTP request of a tick. The counts of the rows are fixed by
`Init` in every combination. The percentages are compared in integers. The code divides
in `float64`: the quotient depends on the ratio of the counts only, so that a difference of
exactly the threshold is the one case in which rounding matters, and there it is a matter of
the threshold on which side of it the result falls. The constant `RoundsUp` says so, here
and in `Verifier`; of the whole percentages below 100 it is true of 7, 14, 28, 55 and 56.

**Anchor.** `Post`, `Receive`, `UpdateCheckpointRekorIndex` are the three calls of
`AnchorOnce`. Rekor (`RekorLogs`, `OtherLogs`) and the network (`Lose`) are external. A
POST outlives the attempt that sent it.

**Feeder.** `Feed` is the loop, `InvalidURL`, `Update`, `FeedOne` and `UpdateTimesOut` the
ways through `feedOne`; a request outlives the call that sent it. A witness compares the
size it is told with its own and the proof with that size, as the tlog-witness protocol
asks; what it returns may be a note or signature lines only, which `ParseCheckpoint`
does not accept. Proofs are named by the size they start from. Nothing in the repository
calls `Feed`; the model lets it be called with any proof, or never again.

**Witness.** A note is a body and a set of signature lines, each over a body. `watch` and
`cosign` are `FetchCheckpoint`, `CosignAndSubmit`, then the answer; the server's side is
`HandleCosign`, with `HandleCosignUnstored` (the insert fails and the answer is 202 all
the same) and `HandleCosignShort` (the single `Body.Read` returns part of the note). The
handler looks at the operator's line only: `HandleCosignOfStranger` is the POST of someone
who is no witness, with a line in a witness's name that the witness made for this body or
for another, or that is no signature. Of several lines by one signer, `note.Open` verifies
the first; the model leaves open which that is.

**TesseraLedger.** `Insert` and one `LogAppend` per item for each handler, an external
action for Tessera's integration and publication, and the builder's reads and save.
`ProveInclusion` and `ProveConsistency` are the first read of the two log-proof calls,
`AnswerLookup` the second; the trees are those of `Merkle`.

**Migrate.** `ReadBatch`, `InsertRow`, `AppendEntry` follow the loop of `runMigrate`;
`StopRun` ends it at any point, with the entry being written in the log or not.

**Vur, ReceiptSigning.** A signature is the key and the bytes; the bytes are the record of
all canonical fields but the signature. The fields kept stand for the others of their
kind. `PreparedFor` is what `SignReceiptWithSigner` resets before it calls the signer, and
what a signer that fails leaves behind.

**Receipts.** A request names a provider, a model, a response body in one of the two usage
formats, and a bundle. `BuildReceipt` follows `buildReceipt` field by field, up to
`verified`, which is set after signing. The payment handler is the append, the store into
the map (`Pay`) and the answer (`AnswerPaid`); what the payment and attestation endpoints
answer are operators of the state (each reads an immutable row and then, for payments, the
map once).

**Verifier.** `RunReconcile`, then one `Compare` or `FetchError` per entry, then the exit
status. The local log is the client's: ids it was issued or that nobody knows.

**LegacyWitness.** The signed payload has the time in ticks, the column in seconds;
`Truncate` is the code's truncation before signing. `RunCosign` posts under any id
`--witness-id` may give. The server does not know the witnesses' keys and checks nothing:
`SubmitAnything` is a POST by anyone, of a signature the server lists or of something that
is none, under any id. `contested` remembers for which checkpoints and ids a second
signature replaced the first.
The operator's key is the one given or one per start (`OperatorOf`).

**ServerProcess.** `main`, the signal goroutine, the batcher and the handlers, with the
documented behaviour of `net/http` (`ListenAndServe` returns as soon as `Shutdown` is
called) and `database/sql` (`Close` waits for the call under way). What the handlers and
the batcher do to the tables is the matter of `Ledger`; here it is when they may do it.

## 3. What the runs check

| Run | Instance | Result |
|---|---|---|
| `merkle` | all trees of 1-4 receipts of two values, and a log of 1-9 distinct receipts with every single replacement; arbitrary proofs of up to 3 hashes on trees up to 3 | computed proofs verify for every pair of sizes up to 9; no list of the hashes involved makes either verifier accept a false statement; roots tell receipt lists apart |
| `ledger` | two builders, 3 receipts, batches of 2, one fault or crash of any kind | safety, `IndInv`, append-only, refinement of `CheckpointLog`, and that every receipt is checkpointed in the end |
| `ledger_chain` | two builders, no faults | **violation**: `ChainLinked` |
| `publishing` | anchoring: 2 checkpoints, one foreign entry, 3 faults; feeding: three witnesses, one with a bad URL, a log of 2, 2 faults | recorded indexes are right and final, and a checkpoint that stays the latest is anchored; the feeder claims no more than was cosigned, and one call of `Feed` gets the cosignature of a witness it has the right proof for, or puts right what it has cached of it |
| `witness` | a watching and a one-shot witness, 2 checkpoints of 1-2 receipts, one fault or one note posted by a stranger | merged notes open, but for lines that were no good when a stranger posted them; a threshold of k means k witnesses; watch does not forget or skip |
| `tessera` | two handlers, 4 receipts, 2 checkpoints, 2 faults | a 201 means logged once; saved checkpoints are consistent and never ahead of the log's own; a log proof verifies exactly when its root is the one asked for |
| `tessera_proof` | one handler, 2 receipts | **violation**: `InclusionProofsVerify` |
| `readers` | proofs: one builder, 5 receipts, 2 faults; monitor: one builder, 3 receipts with 4 kinds of counts each, a page of 2, one fault | every proof that is served verifies; none of the handler's internal errors is reachable; a marked receipt is found; alerts are justified; a failure costs one range; what stays on the page is alerted in the end |
| `satellites` | two paying handlers, 2 receipts of six kinds of request, a restart, local logs of up to 2 entries, one failed GET; 3 signings by two keys and Fulcio; two witnesses and two ids, 2 checkpoints, 3 posted signatures, 2 runs of the server, a clock finer than a second; a source of up to 4 receipts, batches of 2, 3 migrations; two connections, 3 requests, 2 starts | a payment stays with its receipt; attestations claim no more than the request earned; reconcile is right; a receipt verifies for its last signer only; the verify endpoint is right about the operator's key, and an acknowledged cosignature is replaced by a POST for the same id only; a completed migration copied everything in order; an answer is the truth whenever the process stops |
| `receipt_signature` | one receipt | **violation**: `IssuedReceiptVerifies` |
| `shutdown` | one connection and one start suffice | **violation**: `ShutdownIsGraceful` |
| `fulcio_receipt` | one signing suffices | **violation**: `FulcioReceiptVerifies` |

### Why the bounds are enough

* `ledger`: three rows and batches of two give full, partial and repeated batches and
  overlap between the two builders; two builders are the fewest that race. The safety
  properties are proved for all bounds (section 5), like those of the other runs, so that
  the run's own part is liveness. Failed appends and fetches have no effect and are not
  counted as faults, so that they may happen any number of times.
* `readers`: the proof endpoints and the monitor only read, so that a behaviour has one of
  them beside the ledger, each with bounds of its own. Five rows in batches of two with
  failing marks give trees that are no powers of two and overlapping checkpoints of
  different sizes over one row. One outstanding request stands for any number, because
  requests only read. A page of two and up to three rows push a checkpoint off the
  monitor's page. The four kinds of counts are: not verified, just within the threshold,
  exactly at it (7 percent, where the code's division rounds up), and verified where the
  provider reported nothing.
* `publishing`: three faults allow a lost POST, a failed update and a crash in one
  behaviour, and two late entries for one checkpoint. Three witnesses put a failing one
  before two that may come to differ, and a log of two is the least in which a proof from
  a wrong size exists; two faults lose an answer and the cache. The two parts share no
  state, and each runs while the other is at rest.
* `tessera`: lookups read the log and the latest published size only; they meet appends,
  publications and crashes, and start while no checkpoint has been built.
* `witness`: two checkpoints cover growing, equal and shrinking sizes; one fault is
  enough to separate what the server stored from what the witness was told, and one note of
  a stranger to put a bad line beside a good one.
* `satellites`: the five parts share no state; each runs while the others are at rest,
  since their interleavings would show nothing new. Two receipts give a batch, and a
  payment for the one while the other is appended; the requests are right and wrong
  providers for either format, bundles that verify and do not, an empty model (which only
  the payment handler accepts) and an unknown provider. Reconcile meets ingestion and
  restarts, and no payments, which it does not read. Three signings are one before, one
  that may fail, and one after. Two keys and two ids let one key use both and two keys
  share one; three POSTs are the two that meet and one by anyone. The migration's source
  grows from nothing to two full batches, before and during the runs. Three requests over
  two connections and two starts put a request at every stage of a shutdown, and one after
  it.
Deadlock is checked everywhere but in `satellites`, `shutdown` and `fulcio_receipt`, where
the commands and the process may be done for good.

### Fairness

* `Ledger`: weak fairness of the batcher's own build steps. It is a ticker loop in a
  goroutine for as long as the process runs (`cmd/siqlah/main.go:154-170`). Nothing is
  assumed of clients or of build requests. Crashes are bounded by `MaxFaults`: the claim
  is about what happens once the process stays up.
* `Anchor`: weak fairness of the scheduler's loop and of Rekor's answering what reached it.
* `Feeder`: weak fairness of a call of `Feed` that is under way and of the witnesses'
  handling what reached them. Nothing is assumed of the caller, which is not in the
  repository: `FeedServesWitness` is about one call.
* `Witness`: weak fairness of each watching witness's loop and of the server's handling
  of its requests, one by one. Nothing is assumed of one-shot witnesses or readers.
* `Monitor`: that of the ledger, and of the monitor's loop.

## 4. Disagreements between the code and what is said of it

Five have a run whose property is the documented statement:

1. **Previous roots** (`ledger_chain`). `docs/witness-protocol.md:132` says a checkpoint
   records the root "of the immediately preceding checkpoint". Two overlapping builds
   both record the root that was the latest when they read it
   (`internal/checkpoint/builder.go:68`). What does hold, and is proved, is
   `PreviousIsEarlier`.
2. **Proofs in Tessera mode** (`tessera_proof`). Checkpoint ranges count log indexes from
   0 (`builder.go:145`); the proof handler reads rows, which count from 1.
3. **Receipt signatures** (`receipt_signature`). `buildReceipt` signs and then sets
   `verified`, a signed field (`internal/api/ingest.go:242-245`): the stored receipt does
   not verify.
4. **Shutdown** (`shutdown`). `CHANGELOG.md:116` says "Graceful shutdown on
   SIGINT/SIGTERM". `Shutdown` is called in a goroutine with 10 s to wait for the handlers
   (`cmd/siqlah/main.go:215`), but `main` returns from `ListenAndServe` at once (`:223`)
   and ends the process. What does hold is `AnswersAreTruthful`: whoever got an answer got
   the right one.
5. **Fulcio receipts** (`fulcio_receipt`). `CHANGELOG.md:78` says of `FulcioVerifier` that
   it "verifies Fulcio-signed receipts against a trust root". It requires the bundle's
   JSON (`internal/signing/fulcio_verify.go:47`), which no receipt keeps
   (`pkg/vur/signing.go:56`), and the certificate is put into the receipt after the bytes
   were signed (`:35`): no receipt signed through Fulcio verifies. (The signer that
   `--signing-backend` selects is built and not used, `cmd/siqlah/main.go:105`.)

Others were met while modelling. The models show the behaviour; no run states them:

* the error of `LatestCheckpoint` is discarded, and a later checkpoint is signed as if it
  were the first (`builder.go:68`; `ReadPreviousFails`);
* after a crash between save and mark, `pending_batch` counts receipts that are in a
  checkpoint (`docs/api.md:479`);
* a Rekor POST that times out may be logged and is posted again, so that a checkpoint may
  have two entries (`CHANGELOG.md:59`: "at most once");
* a checkpoint that is superseded before the next tick is never anchored
  (`README.md:254`: "each new checkpoint");
* `watch` compares sizes of single batches and does not cosign a checkpoint that is not
  larger than the last (`cmd/witness/main.go:313`; `docs/witness-protocol.md:158`);
* `siqlah-witness verify --threshold` passes no witness to the verifier, so that no
  cosignature counts (`cmd/witness/main.go:250` and `:187`);
* a cosignature whose insert fails is answered with 202 (`internal/api/witness.go:87`);
* a note with a line that does not verify, in the name of a witness, is stored and merged as
  long as the operator's line is good (`internal/api/witness.go:67`: "the caller is a
  witness"), and keeps readers who know that witness from opening the combined note;
* the legacy `witness_id` is whatever `--witness-id` or the sender says
  (`cmd/witness/main.go:103`; `docs/witness-protocol.md:94`: "The `witness_id` field in the
  submission is this public key"), and nothing that is submitted is verified: one key may be
  counted under several ids, and a later signature replaces that of another key under the
  same id. What does hold is `AcknowledgedCosignatureKept`;
* a difference of exactly the threshold alerts at some thresholds and not at others
  (`internal/monitor/monitor.go:228`);
* `siqlah migrate` run again logs the same receipts again (`CHANGELOG.md:33`:
  "idempotent append"), and skips rows that a serving source adds behind a short batch
  (`README.md:329`: "without downtime");
* the ingest handlers never fill the verified counts, so that the monitor has nothing to
  compare for receipts that came in through the API (`README.md:70`);
* ingestion with payment does not call `validateIngestRequest`, and answers 201 with
  `payment_verified: false` for an incomplete authorization; payments do not survive a
  restart;
* a response body that goes with the wrong provider is accepted with zero tokens
  (`internal/provider`), and the cache tokens Anthropic reports are dropped;
* a bundle that fails to verify leaves the model without the identity the registry has for
  it (`internal/api/ingest.go:256`);
* the feeder never uses the key it has for a witness (`feeder.go:22`): what comes back is
  not verified; and one proof is sent to all, which is right for those at one size only;
* without `--operator-key`, the verify endpoint shows every checkpoint of earlier runs as
  not valid (`cmd/siqlah/main.go:83`).

## 5. What is proved

The theorems hold for any sets of builders, handlers, witnesses, requests and connections,
any batch and page sizes and any bounds on rows, checkpoints, runs and faults: from the
named assumptions (`ASSUME`) of the modules alone, where nothing else is said. Those fix
the types of the constants, that the sets of actors a proof counts over are finite
(`Handlers`, `Watchers`, `OneShots`, `WitnessIds`), that the configured witnesses are
witnesses (`FeederAssumption`), and that a request's body and bundle have the fields that
Go's decoding gives them (`ReceiptsAssumption`). TLC evaluates them in the runs.

Each invariant named `...Inv` below was checked by TLC, with the constants of the run of
its module (and, in `SigningInv`, with bounds on the quantifiers), before it was proved.

### The Merkle tree (`Recursion`, `MerkleProofs`, `LogProofs`)

| Theorem | Says |
|---|---|
| `RecursionHasSolution` | a recursion that looks at smaller arguments only satisfies its own equation |
| `InclusionIsComplete` | the proof computed for a leaf is accepted, for every tree and index |
| `InclusionIsSound` | no list of hashes proves a leaf that is not at that index |
| `ConsistencyIsComplete` | the proof computed between two sizes is accepted, for every pair of sizes |
| `ConsistencyIsSound` | no list of hashes leads from a root to that of a list which is no extension |
| `RootDeterminesLeaves` | one root, one list of leaves |
| `TrustedIsNeverRewritten` | `LogAuditor`: what is trusted is only ever extended |
| `HonestExtensionsAreAccepted`, `InclusionProofsAreAccepted` | `LogAuditor`: an honest log is never turned away |
| `IncludedReceiptsAreThere`, `RootsDetermineReceipts` | `LogAuditor`: what is accepted is there |

These are about `Merkle` itself, with no bound on trees or proofs, where the run `merkle`
stops at 9 leaves and 3 hashes. They rest on one thing only: hashes are terms, so that
`leafHash` and `internalHash` are injective and have no value in common.

A recursive function of TLA+ is *some* function that satisfies its equation, if there is
one. `Recursion` shows that there is: a function that solves the equation below a rank can
be extended by one rank, solutions agree where both are defined, and the diagonal of them
solves it everywhere. It is instantiated once for each recursive function, with `Def` its
body, and yields that function's equation (`SubtreeEquation`, `PathEquation`,
`SubproofEquation` and the like). Induction is on a *set* of sizes, the ones of which the
claim holds, by way of its least counterexample (`StrongInduction`), because the library's
induction theorems take a predicate.

Completeness: folding a computed path, or a computed subproof, gives the root of the
subtree it was computed for (`PathFoldsToSubtree`, `ConsistencyFolds`). On the way down the
verifier knows sizes only, the prover the leaves; both split at the same power of two
(`SplitBounds`), and an old tree that reaches beyond the split of the new one is split at
the same place (`SplitStable`). Soundness of inclusion goes the other way: the
verifier's result, equal to a root, forces, level by level from the root, the hash in hand
to be that of the subtree it stands at (`FoldTurn`). The code does not check the length of
a proof; a path that is too short or too long would equate a leaf hash with an inner one.
For consistency the invariant is that of a subproof: whatever it consists of, if it folds to
the roots of two subtrees, then it pins the leaves of the old one to the first leaves of the
new one (`SubproofPins`).

### The ledger (`LedgerProofs`, `LogProofs`)

| Theorem | Says |
|---|---|
| `LedgerInvariant` | `Spec => []IndInv` |
| `TypeCorrect` | `Spec => []TypeOK` |
| `RangeMatchesRoot` | reading a checkpoint's range gives the receipts under its root |
| `NothingIsLost` | a row marked batched is in a checkpoint |
| `CheckpointsLeaveNoGap` | every row up to the end of a checkpoint is in some checkpoint |
| `PreviousRootIsEarlier` | a previous root is empty or that of an earlier checkpoint |
| `LedgerIsAppendOnly` | no step changes or removes what was published |
| `LedgerRefinesCheckpointLog` | the ledger implements `CheckpointLog` |
| `PublishedPrefixIsCovered` | in the abstract log, the published ranges cover a prefix |
| `CheckpointsAreBinding` | a checkpoint's root admits an inclusion proof of the receipts of its range only, each at its own place |
| `RootsNameBatches` | two checkpoints have one root only if they are over the same receipts |

`RangeMatchesRoot` is not inductive: nothing in it excludes a builder
that is about to save a list of rows with a hole in it. Such a hole would come from a
hole in the marks. `IndInv` therefore says that the marks are a *prefix* of the rows, and
that a batch in flight is a *run* `s .. e` of rows that starts right after a prefix that
is marked *by now*: another builder may have moved the prefix on since the fetch, never
back. From this follow, action by action, that a saved checkpoint is a run of rows, that
it starts within what earlier checkpoints reached (the marks before it are covered:
`BatchedIsCovered`), and that marking it keeps the marks a prefix, since the run starts at
or before the end of the present prefix. `FetchShape` is the lemma that ties this to the
SQL: the first `MaxBatch` ids, in ascending order, of the complement of a prefix are a
run. The refinement maps rows to the log and saved checkpoints to published ranges; the
only step that is not a stutter or growth is the save. The last two theorems join
`RangeMatchesRoot` with those about the tree: the root is that of the range, and a root
fixes its leaves.

### What reads the ledger (`LedgerProofs`)

| Theorem | Says |
|---|---|
| `RequestInvariant` | what a proof request has read belongs together |
| `BatchedReceiptsAreServed` | no request ends in a 500, and a 404 only for a receipt that is not batched |
| `ServedInclusionIsAccepted` | every inclusion proof that is served verifies |
| `ServedConsistencyIsAccepted` | every consistency proof that is served verifies |
| `MonitorInvariant` | `MonitorSpec => []MonitorInv` |
| `AlertsHaveCause` | an alert is about a covered receipt whose counts are off |
| `TickCoversItsPage` | a finished tick has alerted all discrepancies of its page but the missed; for thresholds under 100 |

Both readers make several calls while the ledger moves on. Their invariants contain
`IndInv`, whose step lemma is used as it is, and say by stage what the reader holds. That
a checkpoint once read stays as it is, and that its range is a run of existing rows, makes
each later read give what an atomic one would have given. The leaves a request works with
are then those of the checkpoint it answers for, and completeness of the tree's proofs
does the rest.

The hypothesis `Threshold < 100` is needed: with 100 or more, no difference to a zero count
is too much for `discrepancy`. The default is 5.0 (`cmd/siqlah/main.go:47`).

### How checkpoints leave the ledger (`PublishingProofs`, `WitnessProofs`)

| Theorem | Says |
|---|---|
| `AnchorInvariant`, `RecordedIndicesVerify` | a recorded index points at an entry for that checkpoint |
| `AnchorsAreFinal` | a recorded index is never changed |
| `FeederInvariant`, `FeederNeverAhead` | the feeder claims no more of a witness than it cosigned |
| `WitnessInvariant`, `CombinedNoteOpens` | a merged note opens, unless a line that was no good when a stranger posted it is in the way |
| `ThresholdCountsWitnesses` | a threshold of k means k distinct witnesses, whoever posts |
| `AcknowledgedCosignaturesStay` | a 202 is kept, and `watch` remembers only what is stored |

`AnchorInv`: attempts are numbered, a POST or answer with the number of the awaited attempt
is about the checkpoint `AnchorOnce` read, and that one has no index. So a late answer is
either not awaited or right, and the write never overwrites. `FeederInv`: an answer in hand
is true of the first witness left to do, and a witness never goes back. `WitnessInv` follows
a note from the server through a witness and back into the table: whatever is in hand or in
flight is over a published body and has lines only by those who signed it (`IsNote`); what
is stored or served may also have lines in a witness's name over something else
(`IsPosted`), and then a stranger has posted. Such a line never verifies, so that it can
spoil a note and never pass for a cosignature. Rows are looked up by root, so the invariant
also needs that a root belongs to one body: a checkpoint has a new root or repeats an
earlier body (`RootsAreOwn`).

### The Tessera mode (`TesseraProofs`)

| Theorem | Says |
|---|---|
| `TesseraInvariant` | `Spec => []TesseraInv` |
| `AcceptedOnce` | an accepted receipt is in the log exactly once |
| `CheckpointsStayConsistent` | saved checkpoints are over growing prefixes, never ahead of the log's own |
| `LogProofsFitTheirRoot` | a log proof verifies exactly against the root it was computed for |
| `SavedCheckpointsAreLinked` | the log's proof leads from any saved checkpoint to any later one |
| `SavedCheckpointsAreBinding` | a saved root admits an inclusion proof of the entries it was saved for only |
| `TesseraRefinesCheckpointLog` | the Tessera mode implements `CheckpointLog`, like the SQLite mode |

That an accepted receipt is logged once needs more than that of the accepted ones: no
receipt is logged twice, no two requests share a row, and of the receipts of a request the
log has *exactly* the first `added`. A failed append or a crash may sequence an entry after
all; it also ends the request, so that it is never added again. For the checkpoints,
`LogGrows` (no step changes a prefix of the log) carries the saved roots along, and the
size being built is at least that of all saved ones: there is a single builder, and
Tessera's own size never shrinks. The refinement maps the entries to the log and a saved
checkpoint to the range from the first entry to its size. A log proof is computed from a
prefix that no step changes (`AskStays`), and a given proof leads to one root only
(`InclusionHasOneRoot`, `ConsistencyHasOneRoot`), so that it verifies against a root read
later exactly if that is the root it was made for. That the trees accept their own proofs,
and nothing else, comes from `MerkleProofs`.

### Receipts (`SatelliteProofs`)

| Theorem | Says |
|---|---|
| `SigningInvariant`, `LastSignatureVerifies` | a receipt verifies for its last Ed25519 signer only |
| `ReceiptsInvariant`, `PaymentsAreKept` | a payment stays with its receipt, and with no other |
| `AttestationsAreEarned` | attestations claim no more than the request earned |
| `ReconcileInvariant`, `ReconcileSucceedsRightly` | `reconcile` is right, for thresholds under 100 |

`SigningInv` keeps the bytes of the *last* signing: what an earlier signer left in the
receipt (type, certificate, log index) is either reset or under the next signature.
`ReceiptsInv` says that each row is `BuildReceipt` of its request, and that two handlers
between append and payment hold different receipts. `ReconcileInv` relates the counters of
a run to the entries it is through with, in a table that only grows. The default of
`--threshold` is 1.0 (`cmd/verifier/main.go:198`).

### Running it (`SatelliteProofs`)

| Theorem | Says |
|---|---|
| `ServerInvariant`, `ServerAnswersTruthfully` | 201 means stored and 500 means not, whenever the process stops |
| `MigrateInvariant`, `MigrationIsComplete` | a completed migration copied what it counted, in order |
| `MigratedRowsFollowLog` | rows are ahead of the log by one per interrupted run at most |
| `LegacyInvariant`, `EndpointVouches` | what the verify endpoint says of the operator's signature is so, across restarts |
| `CosignaturesStay` | an acknowledged cosignature is kept unless another signature is sent for the same checkpoint and id |

`MigrateInv`: the run has written `1 .. n` as the last `n` entries, its queue continues
there, and the next batch continues after the queue, *unless* a short batch already reached
what the run had counted: the code then goes on past rows that came in meanwhile, and the
claim is about the counted ones. `LegacyInv` rests on `IssuedAtSurvives`: the second the
column keeps is the time that was signed. It holds whatever is submitted, under any id: a
POST of the cosign command carries the signature of its key over the row it was fetched
from, and a row of `witness_signatures` is replaced by another signature only when its id
becomes contested.

### Only model-checked

Liveness (`EventuallyCheckpointed`, `LatestEventuallyAnchored`,
`FeedServesWitness`, `LargestEventuallyCosigned`, `EventuallyAlerted`): fairness is
out of the prover's reach. Every other property of a passing run is proved.

## 6. Not modelled

* `verify-tokens` and the tokenizer: a count of tokens by a foreign library, and a report.
* The configuration file (`internal/config`): no command uses it.
* `Register`, `LookupByDigest`, trust roots of bundles, `PaymentMiddleware`: no caller in
  the server.
* Reasoning and cache tokens, request hashes, tenants: fields like those that are kept.
* Flags, configuration, HTTP middleware, logging, the wording and layout of answers.
* Floating point: thresholds are whole percentages, of which `RoundsUp` says what rounding
  does, counts are small enough to be exact in `float64`, and energy is counted in integers.

## 7. Plan

Done: `Merkle` and `LogAuditor`, then `Ledger` with its abstract specification and
proofs, `ProofServer`, `Witness`, `TesseraLedger`, `LegacyWitness`, `Monitor`, `Anchor`,
`Feeder`, `Migrate`, `Vur`, `ReceiptSigning`, `Receipts`, `Verifier`, `ServerProcess`, and
the proofs of section 5 about each of them, down to the recursive functions of `Merkle`.

Next:

1. an abstract specification of anchoring (each checkpoint anchored at most once *in the
   table*) and of the cosignature store, with `Anchor` and `Witness` shown to implement
   them;
2. what the append-only tables promise beyond the ledger, as action properties: the stored
   notes of `Witness` and the destination of `Migrate`.
