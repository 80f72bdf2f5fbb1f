# ClairveilJS: models, checks and proofs

ClairveilJS is the client SDK of the Clairveil privacy chain.  A wallet scans
the chain for its private notes, plans a transfer or withdraw over some of
them, has a zero-knowledge proof made, and broadcasts the transaction through a
Cosmos RPC, an EVM provider or a relayer.  A private note can be spent once and
the chain does not say by whom, so the SDK keeps its own durable records of
which operation holds which note and how far the operation's payload has
travelled.  A mistake there spends a note twice, loses track of a payment that
may have gone out, or pays twice.  A mistake in what is put before a signer, a
prover or a reader lets a user sign what was not shown, pay for a proof the
chain refuses, or be told what is not so.  These two concerns are the subject of
this project.

Line numbers below are those of the repository; `reservation.js` is
`src/privacy/reservation.js`, and so on.

## 1. Inventory

### Components, their state and their operations

| Component | State | Operations | Correct when | Module |
| --- | --- | --- | --- | --- |
| Reservation store, in memory (`reservation.js` 4001-4335) | one record per input note and operation: status, lease, payload and transaction identities, broadcast marks, evidence metadata | create batch, compare-and-set batch, release batch, reconcile spent notes | a note is locked by one operation; batches are whole; evidence is never lost | `ReservationStore` |
| Reservation manager (`reservation.js` 4557-5659) | the claim tokens it handed out | reserve, mark proving / proof ready / attempting / rejected / submitted / unknown / failed, relay handoff and evidence, expired recovery, replan, manual review, renew, release, reconcile | a note is given back only when its payload cannot reach the chain any more | `ReservationStore`, `ManagerCalls` |
| Spent evidence (`reservation.js` 2224-3603) | the outcome of an operation | coalesce fragments, evaluate identity, execution and content | success is only said of what happened | `SpendEvidence` |
| IndexedDB store (`reservation.js` 386-405, 4352-4540) | one encoded value per namespace, an in-process queue, a Web Lock | load, mutate (load, change, encode, write) | tabs do not lose each other's writes | `IndexedDbStore` |
| Workflow and heartbeat (`reservation-workflow.js`) | the batch a task works on, the timer, the sticky heartbeat error | prepare, heartbeat, roll back | a live worker's lease does not run out; a failed heartbeat is reported | `ProofPreparation` |
| Cosmos broadcast (`cosmos-client.js` 2292-2395, 6460-6790) | the signed transaction in hand | recheck nullifiers, sign, mark, broadcast, classify the answer | the durable mark precedes the send; an unclear answer releases nothing | `CosmosBroadcast` |
| EVM broadcast (`evm.js` 295-560, 2691-2796) | the prepared transaction | check the binding, mark, ask the wallet, record | the same, without a hash known before | `EvmBroadcast` |
| EVM finality and confirmation (`evm-finality.js`, `wallet-client.js` 1524-1766, `evm.js` 1712-1945) | the inclusion block first seen | poll, re-check canonical inclusion, compare transaction and events | no reorganised or foreign transaction is called final | `EvmFinality`, `EvmConfirmation` |
| Privacy state adapter (`privacy-state.js`) | none | bounded, retried calls; nullifier status map | every requested nullifier has one unambiguous status, or the call fails | `AdapterQuery` |
| REST reads (`cosmos-client.js` 1215-1298, 2766-2863; `cosmos-options.js`) | the endpoint that last answered | fetch with timeout, retries and failover | spending reads stay on the wallet's endpoint; failures are true of all | `RestQuery` |
| Note store (`note-store.js`) | found notes, scan cursor | merge scan result, rollback, mark spent | no found note is lost, no spent note is offered | `NoteStore` |
| Scan (`scan.js`) | cursor, pending summaries between pages | validate and process a page | the cursor passes no unread output | `PrivacyScan` |
| Planner (`planner.js`, `payload.js` 156-377) | none | choose input notes | the chosen notes cover the amount, and a covered amount gets paid | `NotePlanner` |
| Payroll (`reference-payroll.js`) | signed artifacts, retry decisions | plan; mark, inspect retry, retransmit, reconcile | a plan is found when there is one; a payment is retransmitted, never remade, while it may still be included | `PayrollPlanner`, `PayrollRetransmit` |
| Batch preparation (`cosmos-client.js` 4655-5468, `wallet-client.js` 2138-2537) | payload and proof checkpoints | prepare, resume, finalize | one batch is signed once, across restarts | `BatchCheckpoint` |
| Payloads (`transfer-v5.js`, `batch-transfer.js`, `payload.js`, `protocol-v1.js`) | drafts, payload and proof files | build, request a signature, validate, make the message | what is signed is what is shown; a message carries a proof of what it says; on Cosmos what is stale is not sent | `DisclosureTerms`, `TransferPayload`, `BatchPayload`, `WithdrawRelay` |
| Merkle paths (`merkle-path.js`) | a snapshot of paths to one root | ask, recompute, serve | inputs are proved in the tree they are in | `CommitmentPaths` |
| Disclosure (`core/disclosure.js`) | none | open and compare | a verified report is true | `Disclosure` |
| Deposits (`core/note.js`, `wallet-client.js`, `prover.js`, `evm.js`, `cosmos-client.js`) | deposit material and proofs an application keeps | prepare, send, confirm | what is paid for can be found and spent | `Deposits` |
| Generated protobuf code (`src/generated/`) | none | encode, decode | what is written is read | `Wire` |
| Prover adapters (`prover.js`) | a job being polled | submit, poll, cancel | a late proof is not used | `ProofPreparation` |
| Asset registry, configuration, wallet adapters, public client, conformance runner, tools | none, constants or a cache | fetch, validate, format | compared with fixtures by the repository's own tests | not modelled |

### How they interact

A planner asks the manager which notes are available, picks some and reserves
them: one record per note, status `Reserved`, under a fresh operation id.  The
manager returns a claim token, and stores its hash, so only this session can
start proving.  Proving takes a lease that a heartbeat renews.  The
proof binds the operation to a payload hash (`ProofReady`).  Before the external
boundary is crossed a durable mark is written (in-flight, attempt count), or, for
a relay, the handoff; the answer then moves the operation to `Submitted`,
`Unknown` or `ReplanRequired`.  The scan finds spent nullifiers and reconciles:
the records become `ConfirmedSpent`, and the operation's outcome is evaluated from
the transaction and output evidence.  Every move is one compare-and-set batch
over all live records of the operation.

Below this, every preparation asks for Merkle paths to one root, builds a payload
whose hash binds the operation, has the owner sign what the payload says, and
sends the payload to a prover; the parts may travel as files through the
application and come back mixed up.  REST reads and adapter calls answer late, fail
over and contradict each other under all of it.

### What is hard

* two sessions (tabs, processes) of one wallet acting on the same records at
  any point of each other's calls;
* a worker that crashes, or is merely slow, while its payload may be on its way;
* answers that are lost, late or contradict each other;
* notes the chain consumes under an operation that did not expect it, and
  operations of which only some inputs are seen spent;
* evidence written by one step and relied on by another, after a restart;
* files (drafts, payloads, proofs, checkpoints) that an application mixes up or
  that were made before a restart;
* chains that grow, fork and finalize between two reads of one call;
* recursive search and byte-level code whose boundaries no fixture happens to hit.

PROJECT.json lists these as hazards at the lines where they bite, with the
properties that cover each.

## 2. What is modelled

| Module | Kind | What it is |
| --- | --- | --- |
| `ReservationStatus` | vocabulary | statuses, which lock a note, the transition table and the two lease tables (37-72, 307-360) |
| `ReservationStore` | component | the store as its managers drive it: one action per manager call and its batch |
| `ManagerCalls` | component | the same calls as two steps: read and decide, then compare-and-set |
| `SpendEvidence` | component | what spent evidence, in fragments, makes of an operation |
| `NoteOwnership` | abstract specification | who has a note: free, one operation, or spent for good; implemented by `ReservationStore` and by `ManagerCalls` |
| `IndexedDbStore` | component | how tabs share one stored value: queues, Web Lock, load, change, write, legacy reset |
| `AtomicStore` | abstract specification | a store whose calls take effect one at a time; implemented by `IndexedDbStore` |
| `ProofPreparation` | composition | one preparation against the clock: heartbeat, prover job, roll back, over `ReservationStore` |
| `CosmosBroadcast` | composition | a payment from plan to chain over the Cosmos path; every durable step is an action of `ReservationStore` (`Store == INSTANCE ...`), around it the wallet, the network, the clock and recovery |
| `EvmBroadcast` | composition | extends `CosmosBroadcast` with the EVM send path |
| `PayrollRetransmit` | component | a payroll artifact, its bytes sent and sent again by processes that restart |
| `BatchCheckpoint` | component | a batch transfer that processes carry on from checkpoints |
| `EvmFinality`, `EvmConfirmation` | component, composition | the wait for finality on a node that forks; the whole confirmation of a transaction on top |
| `AdapterQuery`, `RestQuery` | components | bounded, retried reads of an adapter, and of REST endpoints with failover |
| `NoteStore` | component | scans, merges, rollbacks, spent marks over a chain that grows and reorganises |
| `PrivacyScan` | component | the checks that pages of a scan must pass |
| `CommitmentPaths` | component | Merkle paths of the inputs while the tree grows |
| `NotePlanner`, `PayrollPlanner` | algorithms | note selection and payroll plans against their definitions |
| `DisclosureTerms` | vocabulary | hashes, envelopes, digests, nullifiers as terms |
| `TransferPayload`, `BatchPayload`, `WithdrawRelay` | components | from notes to message, with signer, prover and files in between |
| `Disclosure` | component | what readers make of the disclosures on chain |
| `Deposits` | component | a deposit from its material to its confirmation |
| `Wire` | algorithm | the protobuf messages, and their encoding and decoding |
| `ReservationStoreProofs`, `ManagerCallsProofs`, `EvmBroadcastProofs`, `PreparationProofs`, `IndexedDbStoreProofs`, `PayrollRetransmitProofs`, `TransferPayloadProofs`, `WithdrawRelayProofs` | proofs | theorems about those modules, checked by TLAPS (section 5) |
| `MC...` | model checking | definitions the configurations give to constants |

`IndexedDbStore` and `ReservationStore` are the two halves of the browser store:
`IndexedDbReservationStore` runs every call of the in-memory store on a state it
loaded and writes the result back.  `IndexedDbStore` leaves open what a call does
(`Accepts`) and shows that calls take effect one at a time; `ReservationStore`
takes that for granted and says what they do.

### `ReservationStore`: state

A record's id is operation id plus the note's lookup key, so the records are a
function of operation and note; `NoRecord` is the absent one.

| Variable | In the code |
| --- | --- |
| `status[o][n]` | `status` |
| `lease[o][n]` | `lease_owner`, and `lease_until` as the time left (`ttl`); `ttl = 0` with an owner is an expired lease |
| `broadcast[o][n]` | `payload_hash`, `sign_doc_hash` (present or not), `tx_bytes_hash`, `submitted_tx_hash`, `broadcast_attempt_count`, `broadcast_in_flight`, the relay handoff marks, the local-relayer mark |
| `evidence[o][n]` | the metadata a later decision reads: rejected, exact failure, included, operator approved, success evidence required |
| `outcome[o][n]` | `operation_status` in the metadata |
| `claim[m]` | the claim (lease) tokens in the memory of manager `m`; a crash loses them |

An identity is a number: 0 is the empty string, `k` the `k`-th payload or
transaction of the operation.  All records belong to one owner key.  Statuses
`Discovered` and `Available` are conceptual pre-states in the code; no record is created
in them, and only `Released -> Available` reaches the second.

### `ReservationStore`: actions

Each action is a manager call with the store batch it commits: guard = the
conditions of the call and of the batch (a call that throws changes nothing and
is no step), effect = the patch, including what `patchWithClearedLease` (2037)
resets on every status change and what `assertReservationEvidencePatchMonotonic`
(1461) refuses to overwrite.

| Action | Call |
| --- | --- |
| `ReserveNotes` | `reserveNotes` 4704, `createReservationBatch` 4027 |
| `MarkProving`, `RenewLease`, `MarkProofReady` | 5060, 4854, 5066 |
| `ReleaseReserved` | `releaseReservedOrProving` 5554, `releaseReservationBatch` 4220 |
| `RecordRelayHandoff`, `RecordRelayTransactionEvidence` | 4887, 4957 |
| `MarkBroadcastAttempting`, `MarkBroadcastRejected`, `MarkSubmitted`, `MarkUnknown`, `MarkBroadcastFailed` | 5089-5308 |
| `RecoverExpiredProofReady` | `recoverExpiredProofReadyBroadcastFailure` 5315 |
| `MarkReplanRequired`, `MarkManualReview`, `ResolveManualReview` | 5469, 5575, 5614 |
| `MarkFailed`, `ReturnToReserved`, `MakeAvailable` | the transitions of `transitionBatch` 4784 no other call makes |
| `ReconcileSpent` | `reconcileSpentNotes` 5635, `reconcileSpentByLookupKeys` 4295, for a scan page with any set of spent notes and any evidence about them |
| `Tick`, `Crash` | a unit of time; the end of a manager's process |

What the abstraction leaves out, and why it is safe to:

* A call reads a snapshot and commits later; here both are one step.
  `ManagerCalls` takes the step apart for the calls whose decision rests on what they read.
* Batches span one operation.  The store checks each operation of a larger
  batch by the same rules and then commits all or none.
* A claim token is the operation itself in `claim[m]`.  A restarted session that
  reads `lease_token` out of the stored record is not modelled: a crash loses it.
* Optional identity fields of the patches of `markReplanRequired` and
  `markManualReview` are not supplied; marks that are demanded in a patch and never
  read back (`proof_discarded`, `no_broadcast_attempt`) are not kept.
* A repeated call that the code answers from the stored state without writing is a
  stutter.
* Evidence of outputs other than the expected ones decides as no evidence does,
  or makes the call throw, so a spent note comes with the right outputs' evidence
  or none; `SpendEvidence` has the fragments.

Consequences of the code the model showed while it was written, none of
them a disagreement with a document: after a rejected attempt the attempt count stays
at 1, so the same operation can be replanned but never attempted again; an
operation whose inputs are seen spent in two separate scan pages is evaluated
`ManualReview` until one call supplies all of them; one
operation of a page that throws keeps the other notes of the page from being quarantined.

### `IndexedDbStore`: state and actions

A state is the set of calls whose effect it holds; every call is made once, so a
lost update is a call missing from the set.  `Accepts(c, s)` says that the in-memory store
does not throw on call `c` in state `s`.

| Variable | In the code |
| --- | --- |
| `db` | the value under the namespace key; `current` is `isCurrentReservationState` |
| `pc[t]`, `call[t]`, `snapshot[t]` | where a call is in its chain of awaits, which call it is, the `state` it loaded and changed |
| `queue[b]` | the promise chain of the tab in `inProcessMutationQueues` |
| `waiting`, `lock` | requests for the Web Lock, in order, and who has it (external) |
| `begun`, `returned` | calls made, and calls that answered without an error |

| Action | Code |
| --- | --- |
| `Mutation`, `ListReservations` | `mutate` 4454 and its callers, `listReservations` 4472 and the other reads |
| `Read` | `#load` without the lock; a legacy state sends the reader to the lock |
| `Enter`, `Grant`, `Leave` | `withInProcessMutationLock` 388, `withMutationLock` 4463, the browser's lock |
| `Load`, `Reset` | `#load` under the lock; the emptied legacy state is written first |
| `Mutate`, `Write` | the mutator on the loaded state; `#writeState` 4439 |
| `Fail`, `Crash` | a transaction or codec callback fails; a tab is closed or reloaded at any point |

A transaction commits in one step, so a crash is before or after it, and leaving
the lock and the tab's queue is one step.  The cached `dbPromise` and the codec callbacks
only add awaits and failures.

### `CosmosBroadcast`: state and actions

The records are those of `ReservationStore`; what is added:

| Variable | In the code |
| --- | --- |
| `pc[t]`, `op[t]`, `tx[t]` | the await a call of the client is at, the operation (reservation) it is about, the transaction the wallet signed for it |
| `net[o][k]` | external: where the `k`-th transaction of the operation is (unsent, pending, included, failed, refused by CheckTx, lost) |
| `expired` | operations whose payload's `expires_at_unix` the chain's time has passed |
| `spent` | nullifiers on the chain |

| Action | Code |
| --- | --- |
| `Reserve`, `StartProving`, `FinishProof` | `preparePlanReservation` (`reservation.js` 5665), the body of `prepareTransfer` (`cosmos-client.js` 4147) up to `markReservationProofReady` |
| `PrepareFails`, `Rollback`, `ReleaseOwn`, `IsolateOwn` | its catch clause and `rollbackPlanReservation` 5691: read the status, then release or isolate |
| `Start`, `Heartbeat`, `RenewAfterWallet` | `withReservationHeartbeat` (`reservation-workflow.js` 80), its timer, `heartbeatNow` after the wallet |
| `WalletSigns`, `WalletRejects` | `signDirect` 6694; an error with code 4001 is a rejection, any other error is `Throw` |
| `CheckNullifiers`, `CheckFreshness` | `recheckReserved...Nullifiers` 2100-2169, `assertSignedPrivacyFreshAtBroadcast` 2237 |
| `Mark`, `AbortBeforeRpc`, `Send`, `Answer`, `WaitForTx` | `_broadcastTxRawBytes` 6498: the durable mark, the synchronous hook, `broadcastTxSync`, how its error is read, `waitForTx` |
| `RecordSubmitted`, `RecordUnknown`, `RecordRejection` | the `markBroadcastReservation...` functions 2303-2366 and `markSigningReservationRejected` 2372 |
| `Throw` | the call rejects: a guard of the store, a failing store, query or wallet |
| `Cancel`, `ReportFailure`, `RecoverExpired`, `Replan`, `Isolate`, `Resolve`, `Reconcile` | the calls an application makes to cancel, reconcile and recover, in any session, with evidence that is true of `net`, `expired` and `spent` |
| `Include`, `FailTx`, `SpendElsewhere`, `Expire`, `Tick`, `Crash` | external |

`Throw` is possible wherever the code lets an error out, so a store that fails when an outcome
is to be recorded is in the model: the transaction is then with the network and the
record still says in flight.  A transaction of a payload that has expired is not
included; that is the chain's rule (`assertSignedPrivacyFreshAtBroadcast` relies on
it).  An application may report a transaction absent once the payload has expired.
A transaction is signed from the reserved notes (`assert...LookupKeys` of
`CheckNullifiers`) and its hash identifies its bytes, so one number is all three
identities.  Withdraws differ only in what is compared (`relayPayload`).

`AsksAgain` says what the application does, which no code of the client decides: whether it
calls `signDirectAndBroadcast` for a reservation it has already tried to send, or is
sending.

### `ManagerCalls`: state and actions

Every operation has one record, all on the same note.  `call[c]` is the patch a caller is about to
commit, built from what it read (metadata and lease expiry included); `armed` and `net` are the payloads
that callers then send and what became of them; the rest is a record as in `ReservationStore`.

| Action | Code |
| --- | --- |
| `Read` | `_ownedReservationsByID` 4636 and what each call decides on it (`Decides`: 5089-5633) |
| `Confirm` | the awaited nullifier query of expired recovery, 5414 |
| `Commit`, `Throw` | `compareAndSetReservationStatusBatch` 4067: `Accepts` has the checks the store makes inside the batch |
| `Create`, `Release` | `createReservationBatch` 4027, `releaseReservationBatch` 4220 |
| `Send`, `Settle`, `SpendElsewhere`, `Tick`, `Crash` | external |

`Asked` bounds which kinds of calls a run makes.  The model showed that `recordRelayHandoff` and
`markBroadcastAttempting` write back the `lease_until` they read, so that a renewal between their read and
their commit is undone; the lease is then shorter than its holder thinks, which is the safe side.

### `SpendEvidence`: state and actions

`block[t]` is where the chain has a transaction (own, a twin with the same payload, a rival), `reports`
the fragments collected, `status` and `outcome` what the store says.  A fragment is a true reading of
the chain at some moment and shows a subset of the attributes.  `Collect`, `Include`, `Fail`, `Finalize`,
`Reorganise` are external; `ReconcileCollected` and `ReconcileFresh` are `reconcileSpentNotes` on collected
fragments or on a fresh reading (`Coalesces` 2432, `Contradict` 2276, `IdentityMatches` 3188,
`OutcomeMatches` 3361, `Proves` 3468, `Settled` 2550); `Drop` is a page that threw or was lost.  The three
ways a fragment can be verified over EVM are one attribute.

### `ProofPreparation`: state and actions

| Variable | In the code |
| --- | --- |
| `beat`, `due`, `failed` | the renewal in flight with what it read, the interval timer, `heartbeatError` |
| `job`, `left`, `asleep` | the prover's job, the polling deadline, the sleep between polls |
| `pc`, `result`, `cleaned` | where `prepareTransfer` is, what it returned, whether the rollback itself failed |
| `status` ... `claim` | `ReservationStore` |

`RenewFirst`, `TimerFires`, `BeatEnds`, `AfterBeat`, `HeartbeatNow`, `Stop` are
`withReservationHeartbeat` (80-141); `SubmitJob`, `PollJob`, `TaskFails` are `waitForProof`
(`prover.js` 728-756); `BuildArtifact`, `MarkReady`, `EndTask`, `End`, `Unwind` are the body of
`prepareTransfer` (`cosmos-client.js` 4147-4456); `Rollback`, `ReleaseOwn`, `IsolateOwn` are
`rollbackPlanReservation` (`reservation.js` 5691); `OtherSession` and `ScanFindsSpent` are anybody else.
Consequences the model showed: a timer renewal in flight across the commit of `markProofReady` fails its
compare-and-set and sets the reconciliation flag though nothing is wrong; one failed poll ends the
wait; after a failed heartbeat the prover may go on while the lease expires and another session replans.

### `EvmBroadcast`: what differs

`EvmMark` writes the attempt with the binding hash of the prepared transaction (`beginBroadcastReservation`
476) since no transaction hash exists before the wallet answers, and no heartbeat runs while the
wallet asks.  `WalletSends`/`WalletAnswers` are one call of the wallet, whose answer may be lost after the
transaction was sent; `WalletRefuses` is an explicit rejection (`isExplicitWalletRejection`); anything else
is isolated (`EvmIsolate`) or thrown.  A transaction the wallet replaces under the same nonce is
not modelled.

### `PayrollRetransmit` and `BatchCheckpoint`

Both take the inputs of an operation as one record (they move together) and each manager call as one step.

`PayrollRetransmit`: `have` and `disk` are the artifacts a process holds and has saved, `decision` the
unused retry decisions (`oneProofPayrollRetryDecisionBindings`), `task` where each call of
`retransmitOneProofPayrollArtifact` is, `net` and `landed` what became of the bytes.  `Inspect`/`Decide`
(1977-2068), `Consume`/`Retransmit` (2206-2259), `BeforeMarker`, `Mark`, `MarkFails` (2260-2347),
`Heartbeat` (2165), `Fresh`/`Send`/`Answer` (2322-2332), `RecordResolved`/`RecordUnknown` (2121-2163) and
`Reconcile` (2681-2800) follow the code; `Crash`, `Again`, `Settle`, `Expire`, `Tick`, `SpendElsewhere` are external.
A lease owner is random, so a restarted process is another owner.

`BatchCheckpoint`: `disk` holds the payload and proof checkpoints, `call` where each process is in
`prepareTransferBatch`, `provePreparedBatchTransfer` or `finalizePreparedBatchTransfer`, `docs` who was given
something to sign.  Processes share the wallet's lease owner and the claim token is in the checkpoint.
Rotation and expiry of the configuration are throws that may happen; what follows the sign doc
is `CosmosBroadcast` or `EvmBroadcast`.

### `EvmFinality` and `EvmConfirmation`

`line`, `tx`, `head` and `settled` are one node's block tree, what became of the transaction in each
block, its fork choice and what it will not replace; the others are the local variables of
`waitForEvmFinality` (154-289).  Each call to the node is a step, and `Mine`, `Choose`, `Finalize` may
happen between any two.  `DeepEnough`, `Judge`, `Conflicts` are its comparisons.  One consistent
node is assumed, and `Depth` is how far it may fork: an application that asks for fewer confirmations
than its chain needs is told of finality that is none.  `EvmConfirmation` adds what is read in
between: `PollReceipt`, `ReadBack`, `Conclude` are `waitForEvmTransaction` (`wallet-client.js` 1610-1766),
`Identity` and `EventsFit` are `verifyEvmTransactionIdentity` and `verifyEvmPrivacyReceipt` of `evm.js`,
`logs` and `sentTx` what the node and the wallet really did.  That a receipt answers for the hash asked is
assumed; a transfer's event binds only its root; policy `receipt` promises no permanence and none is claimed.

### `AdapterQuery` and `RestQuery`

`AdapterQuery`: `flight` has the invocations at the adapter, given up or not; `Invoke`, `Arrive`,
`TimeOut`, `Fail`, `Combine`, `Return` are `invokeWithTimeout` 109, `invokePrivacyStateAdapter` 195,
`normalizePrivacyNullifierStatuses` 232 and `checkPrivacyStateAdapterNullifiers` 284.  `Answer` is
the adapter's, truthful at some moment or unusable; `Spend` moves the chain.

`RestQuery`: `active` is the client's endpoint, `phase`/`list`/`index`/`attempt`/`masked` the local
variables of a read; `Start`, `Send`, `Headers`, `Body`, `TimeOut`, `NextEndpoint`, `Retry`,
`Throws` are `fetchJson`, `fetchJsonWithRetry` (1215-1298) and their wrappers (2766-2863).  The
public client has the same algorithm once more.

### `NoteStore`, `PrivacyScan` and `CommitmentPaths`

`NoteStore`: `store` is the state of `note-store.js`, `calls[c]` a call in progress with what it has
read; `blocks`, `spentAt`, `replaced` the chain.  A cursor is a number, `height * Stride + sequence`.  Each
store method is a load and a save; `StartScan`, `Page`, `Fallback`, `Check`, `MergeLoad`, `MergeSave`,
`RefreshAsk`, `SetLoad`, `SetSave`, `MarkLoad`, `MarkSave`, `RollbackLoad`, `RollbackSave`, `Clear`, `Reload` follow
`scanWalletNotes`, `scanNotes` and the store, the older scan endpoints and the migration of their
cursors included.  Locks are the application's: `docs/storage-and-persistence.md` asks for them, and its line 221
names what happens to results merged out of order without.  Batch outputs passed over by a legacy
endpoint, which is not asked for them, are not modelled; `Clear` does not happen during a scan.

`PrivacyScan`: pages are whatever a node makes up; `Accept` has the checks of `validatePrivacyScanPageV2`
(`Framed`, `InOrder`, `OneView`, `Resumes`, `Complete`, `NextFollows`: `scan.js` 557-1098), `pending` and
`views` are the validation state it carries, `Begin`, `Limit`, `Return` the loop of `scanNotes`.  A
summary without outputs beyond the cursor may later be announced with another count, which changes nothing.

`CommitmentPaths`: `leaves` is the tree (depth 2 for 32), `job` a build with the snapshot it holds, `taken`
the paths accepted.  `FetchTreeState`, `Ask`, `AnswerHead`, `AnswerPath`, `Lookup` are `merkle-path.js` and
`createTransferMerklePathSnapshotProvider`; `ReadPath` is the single mutable path of a withdrawal; `Take`
recomputes as the builder does.  A hash is the tuple of what is hashed.  Commitments are distinct.  `leaf_count` and
`snapshot_height` of an answer are bound to nothing but `leafIndex < leafCount`.

### Payloads: `DisclosureTerms`, `TransferPayload`, `BatchPayload`, `WithdrawRelay`

A hash is the record of what is hashed, so two are equal only if made of the same; an envelope opens for its
target only; a pair of spend and view keys is the name of its account.  `drafts` are the signing requests,
`signed` what owners signed, `payloads` and `proofs` the files - mixed-up copies included (`MixUp`) -, `message` the
result.  A builder's call is taken apart where it awaits (`LookupPath`, `Sign`, `CheckUnspent`).  `SignByHand` is
an application that calls the exported signer with a request it put together out of parts of several drafts.
The verifier of the chain, the prover, the tree, the clock and the random draws are external.

* `TransferPayload`: `Start`, `LookupPath`, `Draft`, `Sign` are `buildPreparedTransferV5Payload` (726-982),
  `RequestValid` is `validateJoinSplitOwnerIntentSigningRequestV1`, `Valid`, `ProofFits`, `MakeMessage` are
  285-320 and 964-1023.  `FreshBlindings` are the draws the retry loop keeps.  The time a message is made with is
  the caller's, any up to now: `buildTransferMessage` takes it before the nullifier query and the prover
  (`payload.js` 540, 559-562).  The chain is compared if the caller names one (995-998).  So a message may be stale
  when it is made; what stops it is the submission, `Submit`, `Fence`, `GiveUp` and `Send`: on Cosmos the final
  fence reads chain time from a provider (`cosmos-client.js` 2237-2268, 6518-6576); on EVM the message is compared
  with a time the caller gives when the transaction is built (`evm.js` 988-1025), and nothing reads one later.
* `BatchPayload`: `Prepare` is `buildPreparedBatchTransferPayload` (861-982) with `InputsFit`, `OutputFits`,
  `OrderAndConservation`, `SecretIndependence`; `RequestValid` is 692-770; `EnvelopeValid`, `ProofFits`,
  `MakeMessage` are 984-1015.  The `wireOutput` of a request is one with the effect's.  Here too the time is fixed
  before the prover and the persistence callback (`cosmos-client.js` 5196, 5227-5230), and `MakeMessage` compares no
  chain.  The fence of a batch is the one modelled in `TransferPayload`.
* `WithdrawRelay`: `Start`, `Sign`, `CheckUnspent`, `Finish` build (`payload.js` 566-739, 876-902), `Relay` is
  the relayer's check (803-872), `SignUnchecked` a message made without it, and `Bind`, `Recheck`, `Fence`, `Send`
  the submission (`evm.js` 378-452, `cosmos-client.js` 2136-2270, 6518-6546).  Prefix and chain are compared where
  the caller gives them (829-837); both clients have a prefix and may have no chain id.  Cosmos reads chain time
  from a provider at the fence.  EVM takes it in `Bind`, from a provider or as a number (`chainNowUnix`, `evm.js`
  409-411, `evm.d.ts` 105-117), which may be any time read before: `clock` and `read` of a submission say which.
  The prover verifies a job's own hash (assumed).

### `Disclosure` and `Deposits`

`Disclosure`: `chain` are outputs whose digests are true and whose envelopes another wallet may have sealed
with something misstated (`Faults`).  `DecodeOutput` reads from a scan page, `DecodeTransaction` the first
transfer event of a transaction, with a key that was passed or derived (`KeyOf`); `Report` is
`fixedDisclosureReport` and `batchDisclosureReport`.  Consequences: by transaction hash only the first
transfer is read; the event path of a user disclosure ignores a key that is passed, that of an audit uses no other.

`Deposits`: `BuildMaterial`, `Prepare`, `Answer`, `Assemble` are `buildDepositMaterial` (`note.js` 420) and
`prepareDeposit` (`wallet-client.js` 1878-1937), `SendEvm` with `Bound` is the check of `sendTransaction`, `Confirm` is
`confirmDeposit` (`cosmos-client.js` 4086).  Only the profile `payable-exact-value` is modelled.  No reservation
protects a deposit, so the same one may be sent twice; a kept proof given without its material is paired with
fresh material and refused by the chain, at the cost of the fee; material for another address is
still sealed with the depositor's root seed.

### Algorithms: `NotePlanner`, `PayrollPlanner`, `Wire`

`NotePlanner` follows plans to the end: `Receive` and `BeginPayment` are the world, `Follow` carries out what the plan
asks for (`SelectTransferInputs` 222-300, `SelectBatchInputs` 314-377, `TransferStatus`, `WithdrawStatus`,
`BatchStatus` of `planner.js`).  `PayrollPlanner` builds up every treasury and payroll (`AddNote`, `AddItem`) and
evaluates `planOneProofPayroll` and `analyzeNotePreparation` on it.  `Wire` writes a message (`Encode`),
lets something happen to the bytes (`Join`, `Cut`, a field only the writer knows) and reads it (`Decode`):
`binary.js`, `varint.js`, `utf8.js` with numbers of 13 and 20 bits for 32 and 64, over the fields of all
messages.  Fields are told apart by number only, as the generated code does; the decimal conversion of 64-bit
numbers is not modelled, and fixed-width and zigzag numbers are not used by these messages.

## 3. Properties

Named as in the modules, with the code they are about there.  A run checks conjunctions of these (section 4), so
that each run asks a few questions, each with a mutant of the code that breaks it.

Reservations.

* `LeaseMatchesStatus`, `SingleBroadcast`, `NoSilentReuse` (together `BroadcastAccountedFor`): leases exist
  exactly in `Proving` and `ProofReady`, and no in-flight mark outlives `ProofReady`; a payload crosses one
  boundary once; a sent operation lets go of its note only on a definitive rejection, the exact failure of a
  recorded transaction, or an operator's approval.
* `OperationInStep`, `SuccessIsWhole` (together `OperationIsWhole`): the store's batches never leave an
  operation mixed, and `Succeeded` means all inputs spent by recorded transactions.
* `Exclusive`: one operation locks a note, and none locks a note known spent, though records may be revived
  (`Released -> Available -> Reserved`, `ReplanRequired -> Reserved`) and the chain may consume a note under anybody.
* `EvidenceIsPermanent` (action property): identities, marks, evidence, spent status and success are never lost.
* `CrashedLeaseRespected` (action property): nobody takes over a vanished worker's operation while its lease
  runs, except the chain.
* `ImplementsOwnership`: refinement of `NoteOwnership`, through `HolderOf` in `ReservationStore` and through
  `HolderOfNote` in `ManagerCalls`.
* `OneBoundary`, `LivePayloadIsHeld`, `RecoveredWasAttempted` (together `SnapshotsAreSafe`) and `EvidenceKept` of
  `ManagerCalls`: decisions on stale records neither cross two boundaries, nor free what may pay, nor settle an
  attempt that may succeed, nor take evidence back.
* `LeaseKept`, `FlagTellsAll`, `NothingStranded`, `JobHoldsNotes` (together `PreparationIsSafe`) and `PrepareEnds`
  (liveness) of `ProofPreparation`: timers on time keep the lease; results are durable or flagged; a failed
  preparation leaves nothing locked; a job that was given up keeps its notes held; the call ends.
* `NoStaleWrite`, `ReturnedIsDurable`, `ImplementsAtomicStore`, `EveryCallSettles` (liveness) of `IndexedDbStore`:
  for all the awaits between load and write, what is about to be written is based on what is stored; what a
  caller was told has happened stays so; the store is an `AtomicStore`; no call waits for ever on a failed or
  vanished one.

Broadcasts and payroll.

* `MarkedBeforeSent`, `AttemptBeforeWallet` (together `NothingSentUnmarked`): what a node or a wallet has been given
  is on every input's record, whatever crashes afterwards.
* `LivePayloadIsHeld`: as long as a transaction has paid or may still pay, its inputs are held; relates the
  network to the records through lost answers, failed bookkeeping, expired leases, crashes, replanning and
  reconciliation.  `Excused` names the two ways out the code has: an operator who approves the reuse of a note, and
  the refused second call of finding 2.
* `PayOnce`, `OneTransaction` (together `PaidOnce`): two operations never both have such a transaction on a note
  unless one of them is excused, and of overlapping calls at most one reaches a node.
* `SubmittedIsIncluded`, `HashlessNeedsOperator`, `RefusedWasNotSent` (together `RecordsAreTrue`): what the records
  say of a broadcast is so, without a hash as well.
* `RejectedBeforeBroadcast` (violated): the row of `markBroadcastRejected` in `docs/reservation-state-machine.md`.
* `OneTransaction`, `MarkedBeforeSent`, `SendsAreDecided`, `LivePayloadIsHeld`, `ReturnedIsRecorded`, `PaidIsPaid`
  (together `PaymentIsSafe`) and `NoLateResend` (action property) of `PayrollRetransmit`: of several signatures one is
  ever sent; every send used up a look at the chain of its own; nothing is replanned that may be paid, or called
  paid that is not; an included transaction is not sent again later than a decision lives.
* `OneDoc`, `DurableFirst`, `NoDocForSpent`, `RecoveryKeepsSigned`, `FailedIsSettled` (together `BatchIsSafe`): one
  process gets something to sign, from durable checkpoints, for inputs unspent when the proof was written, and
  recovery does not free what was signed.
* `PlanIsExecutable`, `PlanIsFound`, `ReadyTogether` (together `PayrollIsFunded`): a payroll plan is found when there is one.

What is read of the chain.

* `VerifiedIsFinal`, `ConflictIsTerminal` (`EvmFinality`), `OkIsTrue` (`EvmConfirmation`), `SuccessIsTrue`
  (`SpendEvidence`), together `ConfirmedIsFinal`: what is called final cannot be replaced and is the prepared
  transaction executed, though its parts are read one after the other; no mixture of fragments makes a false success.
* `Complete` (`AdapterQuery`), `StaysHome`, `LackingMeansAll`, `FailedMeansAll` (`RestQuery`), together
  `AnswersAreWhole`: an answer has all that was asked; failures are what all endpoints said; reads of nullifiers stay
  with the wallet's endpoint.
* `FreshStep`, `MovesToAnswerStep`, `SuccessStaysStep`, together `AnswersAreFresh` (action property): no late answer
  passes for a fresh one, the endpoint in use is one that has answered, no later fragment takes a success back.
* `WaitsEnd`, `NotesSettle` (liveness): every wait, poll, read and query ends; a final own transaction is recorded
  as success, whatever was decided first; a covered payment gets paid; a spent mark and a new note are learned in
  the end (`SpentIsLearned`, `EveryNoteIsFound`).
* `NothingSkipped`, `NothingOrphaned` (together `CacheIsExact`) of `NoteStore`; `NothingOmitted`, `NothingAhead`,
  `SameEventThroughout`, `ReturnsWhole` (together `ScanIsExact`) of `PrivacyScan`: the cursor passes no note, over
  divisions into pages, restarts, fallbacks, overlaps and reorganisations.
* `InsufficientMeansShort`, `BatchIsComplete`, `BatchChangeIsLeast`, `ReadyBatchFits` (together `PlansAreSound`) of
  `NotePlanner`: searches against what they search for.
* `GrowthFailsNoBuild`, `SnapshotPathsAreTrue`, `InputsAreInTheTree` (together `PathsAreSound`) of `CommitmentPaths`:
  growth between two reads breaks no build; whatever a node answers, an accepted path to a root of the tree is
  the path of that note.

What is signed, sent and shown.

* `SignedIsShown`, `PathsMeet`, `MessageVerifies`, `StaleIsNotSent`, `ReadersLearnTheTruth` (together
  `TransferIsSound`) of `TransferPayload`; `SignedIsShown`, `MessageVerifies`, `ReadersLearnTheTruth`,
  `OwnRequestsSign` and `OutputsStaySealed` of `BatchPayload` and `HiddenStaysHidden` of `TransferPayload` (in
  `PayloadsAreSound`): the signer signs what it is shown, whatever the request was put together from, and is not
  refused its own; the proof of a message is of what the message carries, whichever files it is made from, and, for
  a transfer, of the chain its caller named, if any; nobody learns more than the policy says, and those who are to
  learn learn the truth.  That a message has not expired is not promised when it is made; `StaleIsNotSent` says that
  on Cosmos one that had expired when its submission began is not sent.  It says nothing of expiry on EVM, where the
  code does not read chain time.
* `SignedIsAsked`, `RelayedVerifies`, `SentVerifies`, `HonestPasses` (together `WithdrawIsSound`) of `WithdrawRelay`.
  `SentVerifies`: what is submitted carries a proof of its own fields, is of the chain the caller named, if any,
  and had not expired at the time it was compared with; that time was read during the submission, except on EVM
  with a number, which is only as fresh as the caller's.
* `ReportIsTrue`, `ReportKeepsPolicy`, `HonestIsRead` (together `DisclosureIsSound`); `ConfirmedIsFound`,
  `PaysForItsNote`, `ProvedDepositsExecute` (together `DepositsAreSound`).
* `WrittenIsRead`, `LaterWins`, `CutIsBetweenFields` (together `WireKeepsMeaning`): round trip, joined encodings, cut
  answers.

Some definitions state what a document says and the code does not do, and no run checks them:
`ExpiredLeaseIsIsolated`, `VerifiedMatchesChain` and `KindsAreTrue` (findings 1, 6 and 7).

There is no liveness property of `ReservationStore`, `CosmosBroadcast`, `EvmBroadcast` or `ManagerCalls`: every way
forward is a call somebody decides to make, nothing in the code schedules one.  The payload modules, `PrivacyScan`
and `CommitmentPaths` have none for the same reason: a call ends or throws with each answer it gets.

## 4. Runs

| Run | Instance | Shows |
| --- | --- | --- |
| `lifecycle` | 1 operation, 2 notes, 1 manager, 1 transaction, 1 payload, success evidence required | `TypeOK`, `OperationIsWhole`, `BroadcastAccountedFor` |
| `contention` | 2 operations, 1 note, 2 managers; 1 transaction each, or 1 operation that may be signed twice | `Exclusive`, `ImplementsOwnership`, `CrashedLeaseRespected`, `EvidenceIsPermanent` |
| `two_tabs` | 2 tabs, 3 tasks, 3 calls, Web Locks | `NoStaleWrite`, `ReturnedIsDurable`, `ImplementsAtomicStore`, `EveryCallSettles`; deadlock is checked |
| `broadcasts` | a Cosmos payment, an EVM payment and a Cosmos payment asked for more than once, 2 sessions, 3 calls | `EvmTypeOK`, `NothingSentUnmarked`, `LivePayloadIsHeld`, `PaidOnce`, `RecordsAreTrue` |
| `rejected_retry` | 1 payment, 2 calls in one session, asked again | **violation** of `RejectedBeforeBroadcast`: a declined second prompt frees the inputs of a sent transaction |
| `managers` | 2 operations on a note, 3 callers of 2 managers; a preparation of a proof with lease and job of 3 ticks | `SnapshotsAreSafe`, `EvidenceKept`, `ImplementsOwnership`; `PreparationIsSafe`, `PrepareEnds` |
| `payroll` | 2 processes, 3 calls, 2 signatures, 2 decisions; 3 processes on one batch; treasuries of up to 4 notes and 3 items | `PaymentIsSafe`, `NoLateResend`; `BatchIsSafe`; `PayrollIsFunded` |
| `wire` | every message type, every field, fields of newer writers | `WireKeepsMeaning` |
| `notes` | the cache over reorganisations or overlapping calls; scans of 2 or 3 events; plans of up to 5 notes | `CacheIsExact`; `ScanIsExact`; `PlansAreSound` |
| `reads` | confirmations on a node that forks; spent evidence in fragments; adapter and REST reads; syncing; plans followed | `ConfirmedIsFinal`, `AnswersAreWhole`, `AnswersAreFresh`, `WaitsEnd`, `NotesSettle` |
| `payloads` | transfers, batches and disclosures with mixed-up files and requests put together by hand | `TransferIsSound`, `PayloadsAreSound`, `DisclosureIsSound` |
| `withdrawals` | withdrawals to their submission, deposits to their confirmation, paths of a lying and a truthful node | `WithdrawIsSound`, `DepositsAreSound`, `PathsAreSound` |

### Several instances in one run

Components that answer one question of the system together are checked in one run.  `MCManagers`, `MCPayroll`,
`MCReads`, `MCNotes`, `MCPayloads` and `MCWithdrawals` instantiate each of them, choose one in the initial state
(`machine`) and leave the variables of the others where they are: the states of the run are the union, not the
product, of those of the instances.

* `MCManagers`: "calls" is `ManagerCalls`, "preparation" is `ProofPreparation` over two notes.
* `MCPayroll`: "payroll" is `PayrollRetransmit`, "batch" `BatchCheckpoint` with 3 processes and a lease of 2, "plan"
  `PayrollPlanner` with notes of two owners.
* `MCNotes`: "reorganised" and "overlapping" are `NoteStore` with one call and every endpoint, and with two calls of
  which only the store methods are locked; "events" and "self views" `PrivacyScan`; "payments" and "batches"
  `NotePlanner`, batches with a whole search and with one that is cut short.
* `MCReads`: "tagged", "one item" and "two items" are `EvmFinality` and `EvmConfirmation`; "fragments", "digests" and
  "page" `SpendEvidence`; "adapter" `AdapterQuery`; "moving" and "pinned" `RestQuery` with and without failover of
  nullifier reads; "notes" `NoteStore` and "payments" `NotePlanner`, for their liveness.
* `MCPayloads`: "asked" is one transfer of every policy, mode, pair of notes and draw, "files" two transfers for two
  chains whose files get mixed up, "by hand" requests made of parts of two drafts, "submitting" two transfers up to
  the submission, with two ticks (`MaxTime`) so that a message can be stale and one submission (`MaxSent`); the first
  three also of
  `BatchPayload`; "one output" and "more outputs" `Disclosure`.
* `MCWithdrawals`: "asked", "files" and "sending" are `WithdrawRelay`; "mixed up" and "edited" `Deposits`; "lying"
  and "truthful" `CommitmentPaths`.

### Regions

Where the bounds together give too many states, a CONSTRAINT keeps the union of regions that are each small in one
way and free in the others; every hazard lies in one of them.

* `contention` (`TwoOperationsOrOneInFull`): two operations with a plain boundary (no sign doc, payload hash or
  local relayer, which `lifecycle` has in full), one transaction each and two pieces of evidence between them
  (`TwoTags`); or one operation that may be signed twice.
* `broadcasts` (`SmallInOneWay`): one payment of two notes with a call in each of two sessions; two calls of a session
  for the same payment, whose note nobody else spends; an EVM payment with two calls; two payments over two transports
  that want one note, at most one of them too late; a payment that was asked for twice and refused, whose note another
  payment then takes (`RefusedTwice`).
* `managers`: one operation with two calls, of two managers, or of one while nobody else spends the note; or a call for
  one operation while the note is reserved for the other and released again.
* `notes` (`ThreeOutputs`): three outputs at most in two blocks, which is enough for one between two others.
* `payroll`: one call at a time over two signatures; or calls of two processes that share one decision; or two calls of
  one process.
* `payloads` ("more outputs"): two outputs, or three that were sealed truthfully.
* `reads` (`TwoInvocations`): at most two invocations are at the adapter at once, the one awaited and one given up.

A constraint only cuts states after which TLC does not look, so an invariant or action property that holds, holds of
every history inside the regions.  With liveness a constraint could hide a history that leaves the region: in
`managers` `PrepareEnds` is about the preparation, which the regions do not bound; in `reads` `WaitsEnd` leaves out
the queries during which two invocations that were given up are both still out when a third is made.

### Why the bounds suffice

Exclusion is about two operations and one note; a batch is mixed as soon as it has two notes; overwriting an
identity takes a second identity; a takeover takes a second session.  `LeaseDuration = 1` already has a fresh and an
expired lease and renewal between; the preparation has 3, so that the heartbeat's interval is shorter than the
lease.  The attempt count is not bounded: the code's own guards bound it (`SingleBroadcast`).  Symmetry: notes and
managers are interchangeable, operations are where `EvmOp` and `EvidenceOp` treat them alike; the properties checked
with it are symmetric and none of them is a liveness property.  Where a configuration has `CHECK_DEADLOCK FALSE`, the
system may stop: a wallet whose notes are all spent, an operation that is settled, a read that was answered.

For `IndexedDbStore`, a lost update takes two tasks; the third lets one tab have a queue while the other tab has the
lock, and three calls on one note (reserve, reserve by another operation, release of the first) make the outcome
depend on the order.  The database starts empty or with a legacy state.  For `CosmosBroadcast`, one transaction is
enough to lose or to have refused, two to sign a reservation twice; the second session recovers what the first
left; the second note is there to be spent alone.

For the other modules the instances are as small as the case they are for: a mixture takes two of a kind (drafts,
payloads, proofs, chains, accounts); a stale decision takes a reader and somebody who moves; a conflict between
fragments takes two; a fork takes two blocks on a parent, and finality two more; a page that ends inside an event
takes an event of two outputs, and one that goes on to a second page takes three; a search that prunes wrongly shows
with a few notes over a few amounts around the limit of one note; a tree of depth two has inner nodes on both sides.
`Wire` uses 13 and 20 bits since the code splits a number into groups of 7 and treats 32 and 64 bits apart: two
groups, and more than two.  `PlanIsFound` is claimed while the limits of the search (64 candidates, 4096 visits, 20000
calls) are not reached, as in the instance.  `Asked`, `MaxDecisions`, `MaxReports`, `MaxByHand`, `MaxPayloads`,
`MaxSigned` and the like bound how often the world acts; each is declared and named in its module.

### Fairness

* `two_tabs` (`FairSpec` of `IndexedDbStore`): a task that can go on does so, one by one.  The code's promise chain
  continues by itself, the browser grants a lock in the order of requests and takes it from a closed tab, and every
  transaction and codec callback settles.  Nothing makes a call start, fail or crash.
* `managers` (`MCSpec`): the client's promise chain goes on, a timer that is due fires, a renewal settles, time passes.
  Nothing makes the prover answer: `PrepareEnds` rests on the deadline.
* `reads` (`Fairly`): each wait goes on; each call of a node answers or fails; the client's timers fire where the code
  has set one; the user carries out what the plan asks for; the wallet keeps scanning.  An adapter or endpoint need never answer.
  In all of these instances one fair step is enabled at a time, or finitely many before all is done, so one weak
  fairness over all of them is that of each module.
* `reads` (`SyncFairness`, "notes"): the application syncs again and again, acts on a reorganisation and in the end
  stops clearing the cache; queries may fail as often as they like as long as one sometimes succeeds (strong fairness).

### Findings

Only the second has a run.  The others came up when the modules were written and are stated from the code; the
models either leave the case out, as said in section 2, or the definitions named in section 3 state it.

1. `expiredLeaseRecoveryTransitions` (357) allows `Proving -> ReplanRequired` on an expired lease to any manager of
the owner, without evidence.  The document says an expired lease is for reconciliation, `ManualReview` or the
evidence-gated `ProofReady` recovery, "not a generic transition" (`docs/reservation-state-machine.md:79`).
`ReplanRequired` does not lock the note, so a slow prover's inputs can be selected by another operation.
What still holds, and is checked: the slow worker cannot go on, since its `markProofReady` fails, so nothing is
broadcast for the first operation.

2. Before it opens the wallet `signDirectAndBroadcast` renews the lease and compares the sign doc, but does not ask
whether an attempt is in flight (`cosmos-client.js` 6694-6724, 6752-6784).  When the application calls it a second
time, and the first call has sent its transaction and is waiting for it (or could not record `Unknown`), a declined
second prompt (4001) is written with `markBroadcastRejected`, which `assertManagedBroadcastRejectionMutation` accepts
for an in-flight attempt as well (`reservation.js` 1769, 1789-1795).  The reservation goes to `ReplanRequired` with
`no_broadcast_attempt` although the transaction may still be included.  The document has the wallet reject "before
broadcast" (`docs/reservation-state-machine.md:66`).  With one call per reservation this cannot happen, and
`LivePayloadIsHeld` and `PaidOnce` excuse just this (`Excused`: a payment of `AsksAgain` one of whose calls was refused,
or a note that an operator freed).  The chain still refuses to spend the note
twice; what is lost is that the wallet plans a second payment while the first may go through.  The region
`RefusedTwice` of `broadcasts` has the payment that does so.

3. `fetchJson` returns `response.json()` without awaiting it, so that `finally` clears the timer before the body is
read (`cosmos-client.js` 1240).  A response that stops after its headers is neither timed out nor retried, while
`docs/configuration.md:198` gives the read a timeout.  `BodyStalls` is the switch in `RestQuery`; when bodies always
end, every read does (`WaitsEnd`).

4. `planTransferNotes` does not refuse an amount beyond the `uint64` of one note: notes that together cover it are
called `insufficient_balance`, sometimes after useless merges (`planner.js` 101), which
`docs/errors-and-recovery.md:58` reserves for a sum that is insufficient.  The batch planner does refuse.  The
instances of `InsufficientMeansShort` stay within one note.

5. `utf8Read` joins 8192 code units at a time out of an array it does not clear; a surrogate pair across that limit
leaves one unit more behind, which is joined into every later full chunk (`utf8.js` 88).

6. `fixedDisclosureReport` compares the digest only when the event carries one (`disclosure.js` 137), while
`docs/api-mapping.md:63` demands that it match for `verified`.  `DropsDigest` is the switch in `Disclosure`; with the
attribute, or from a scan page, `ReportIsTrue` holds.

7. `structuredOutput` takes an output's kind from the request and never computes it again (`batch-transfer.js` 655),
though the comment at 691 says every signing field is recomputed: a request put together from two drafts can show a
payment to somebody else as change.  What is signed is still what is shown in every other field (`SignedIsShown`).

## 5. Proofs

TLC checks small instances; these theorems hold for every value of the constants that satisfies the assumption
named.  The assumptions say only that constants are of their kind and that placeholders are no members of the sets
they stand beside.

### The store: `ReservationStoreProofs` (`StoreAssumption`)

* `Typing`, `NotesAreExclusive`, `OperationsStayInStep`, `StoreImplementsOwnership`: `TypeOK`, `Exclusive`,
  `OperationInStep`, `ImplementsOwnership`;
* `BroadcastsAreAccountedFor`, `OperationsAreWhole`, `EvidenceIsNeverLost`, `LeasesOutliveCrashes`:
  `BroadcastAccountedFor`, `OperationIsWhole`, `EvidenceIsPermanent`, `CrashedLeaseRespected`.

`TypeOK` is inductive, one lemma per action.  With it every step is classified by what it does to `status`: it reserves
a fresh operation's notes, moves the exact live set of one operation to one status other than `ConfirmedSpent` under the
conflict check, makes `Released` records `Available`, reconciles spent notes, or changes nothing.  `Exclusive` is
inductive over that classification and the conflict check `Blocked`.  `OperationInStep` needs nothing else.  Under
`Exclusive`, `HolderOf(n)` is the one operation locking `n` (without it the `CHOOSE` of `HolderOf` could jump), so each
class maps to `Acquire`, `GiveBack`, `Spend` or a stutter.

What a record carries takes a finer classification, since every action writes it: `RecordStep` says of every record
of every step that it is kept, created, started, proved, given out, answered, included, left, made available or
consumed, and what each of these does to lease, broadcast and evidence.  From there on no proof looks at an action
again.  `RecordsAccounted` (`BroadcastAccountedFor` record by record, with what an absent record, a handoff and an exact
failure come with) is inductive over the ten kinds; `SuccessIsWhole` needs to know that success is only said on records that exist
(`OutcomesLinked`) and that a whole success is never touched again.  The two action properties
are read off the classification.

### Calls between read and write: `ManagerCallsProofs` (`CallerAssumption`, `AskedAssumption`)

* `DecisionsOnSnapshotsAreSafe`: `SnapshotsAreSafe`; `EvidenceIsKept`: `EvidenceKept`;
  `CallsImplementOwnership`: `ImplementsOwnership`.

The invariant is `TypeOK`, `Sound` (what marks, counts, armed payloads and the network have to do with each other)
and `CallsFit`: what the snapshot in the hand of a call still tells of the record.  Records change under a call, so
`CallsFit` cannot say that the snapshot is true; it says that it is not ahead of the record (protected evidence and
attempts only grow) and that what the call knows of the chain (a refusal, a failure) is final.  The rest is compared
when the write commits, which is what `compareAndSetReservationStatusBatch` is for.
`AskedAssumption` has the kinds of calls among those the module knows.

### Broadcasts: `EvmBroadcastProofs` (`CallAssumption`, `RecordAssumption`)

* `BroadcastTyping`: `EvmTypeOK`; `BroadcastsUseTheStore`: `EvmSpec` implements `ReservationStore`;
* `NothingIsSentUnmarked`, `LivePayloadsAreHeld`, `NobodyPaysTwice`, `RecordsTellTheTruth`: `NothingSentUnmarked`,
  `LivePayloadIsHeld`, `PaidOnce`, `RecordsAreTrue`; for any sessions, calls, payments over either transport, notes and
  transactions.

First every step is shown to be a step of the store or to leave the records alone, so that the theorems about the store
hold of any run of the two clients; `Exclusive` is used from there on.  Then the invariant `IInv`, which was checked
with TLC as an invariant of `broadcasts` before it was proved:

* `TaskFits` has what each await has established: past its mark a call finds its transaction on every input, and
  before it nothing has been sent;
* `CallsFit` is why overlapping calls send once: of two calls for a payment one at most is between its mark and its
  RPC, because the store takes a first attempt only (`broadcast_attempt_count`);
* `NetFits` says of what was given to a node that the inputs carry its identity, and that there is one such transaction
  of an operation;
* `HeldFits` and `PayFits` are `LivePayloadIsHeld` and `PayOnce` for payments that are `Open`: that may still be
  included, or whose call is between the mark and the RPC.  Without the second kind neither is inductive: the step that
  sends would have to show that the inputs are held from nothing;
* `RecordFits` says of a record what it tells of its transaction, `ClaimsFit` that a claim is on an operation with notes.

A step is looked at from three sides that are lemmas of their own: what it writes in a record (`Changes`), when a
record stops holding its note (`Leaves`, which is where the evidence demanded by recovery, reconciliation and review
comes in), and what it moves on the chain (`ChainMoves`).  `HeldFits` follows from the second and third: a record leaves
only on evidence that is true of a transaction, and then the payment is no longer open.  In the proof the earlier
`PayOnce` turned out to be false outside the regions the run then had: a payment asked for twice and refused (finding 2)
and another payment may both still happen on one note.  `Excused` and the region `RefusedTwice` came of this.

### Preparations: `PreparationProofs` (`Setting`, `CheckpointAssumption`)

* `PreparationTyping`: `TypeOK` of `ProofPreparation`; `PreparationUsesTheStore`: its `Spec` implements
  `ReservationStore`; `PreparationsAreSafe`: `PreparationIsSafe`; for any notes, other sessions, lease, deadline and prover,
  and for timers that are on time or not.
* `CheckpointTyping`: `TypeOK` of `BatchCheckpoint`; `BatchesAreSafe`: `BatchIsSafe`; for any number of processes and lease.

The runs `managers` and `payroll` check `PreparationIsSafe` and `BatchIsSafe` on their instances of the two modules.

`Setting` is `PreparationAssumption`, the store's assumption and `LeaseDuration > 1`.  The last is no restriction in
milliseconds, and it is needed: with a lease of one tick `reservationHeartbeatIntervalMs` makes the timer due when the
lease has run out, and `LeaseKept` is false.

As with broadcasts every step is first a step of the store or leaves the records alone; `OperationInStep` is taken from
there, so that the records of the reservation have one status.  `LeaseKept` is not inductive: it says nothing of the time
left.  The invariant `IInv`, checked with TLC over the instance of `managers` before it was proved, adds to the types:

* `ClaimFits`: the claim token is the reserving session's alone, so that only an expired lease lets others in;
* `LeaseFits`: while timers are on time and no renewal has failed, every live record is leased to this session for longer
  than the timer takes to its next tick, or a renewal for the full lease is in flight, during which no time passes.  It also holds while
  the call unwinds after the job was submitted: this is what makes `JobHoldsNotes` true of a rollback, which finds the
  records neither released nor replanned;
* `ProofFits`: from `MarkReady` on every record has the payload, and others can only quarantine it;
* `EndFits`: what the caller was told, and that the records of a call that threw cleanly are let go of, of which none
  comes back since nobody else has the token.

What others do is one lemma, `ForeignRecord`: a record is kept, confirmed spent, or leaves for `Released`,
`ReplanRequired` or `ManualReview`, from `Proving` and `ProofReady` only when its lease is over, and from `ProofReady` only to
`ManualReview`.  It serves all four parts.

For batches `markProofReady` is the arbiter: it takes the record out of `Proving` once, and nothing puts it back.
`OneDoc` alone is not inductive, because two processes that are past the arbiter would break it one step later:
`SignersFit` counts who is about to return (`Signer`).  `CallsFit` says what each place of the three calls has
established (checkpoints on disk, a proof not written late), `RecordFits` what a ready record says of the disk.

### Tabs: `IndexedDbStoreProofs` (`IndexedDbAssumption`, `WebLocks`)

* `WritesAreFresh`: `NoStaleWrite`; `ReturnedCallsAreDurable`: `ReturnedIsDurable`;
  `IndexedDbImplementsAtomicStore`: `ImplementsAtomicStore`; for any tabs, tasks, calls and `Accepts`.

The invariant `Inv` says of each task what it knows at its place in the callback: it has the lock, and its snapshot is
the stored value (plus its call, when it is about to write), or it is resetting a legacy state nobody else can have
replaced.  None of the three is inductive without it: a task that has the lock but whose snapshot is stale would
satisfy `ReturnedIsDurable` and break it in one step.  The order of `queue` and `waiting` plays no part.

### Payroll: `PayrollRetransmitProofs` (`PayrollAssumption`)

* `PaymentsAreSafe`: `PaymentIsSafe`; `ResendsAreNotLate`: `NoLateResend`; for any processes, calls, signatures,
  leases and lifetimes of decisions.

The invariant has three parts.  `Typed` has the fields of calls and decisions.  `Fits` says what the record tells of
the chain (the marked identity is that of whatever was sent), what a call knows wherever it is (past the marker the
record's identity is its own; a reconciliation's observation is still true; if its transaction has been included,
the ticks since and the ticks its decision has left are within one lifetime together), and the same of decisions
nobody has used.  `Counting` is why a look at the chain serves one send: decisions have different numbers, and sends,
armed calls and unused decisions together are no more than the decisions issued; with looks under way they stay
within `MaxDecisions`.  `SendsAreDecided` alone is not inductive: a decision used twice breaks it two steps later.
The set of calls is assumed finite, which a process's calls are; `Counting` is about its cardinality.

### Payloads: `TransferPayloadProofs`, `WithdrawRelayProofs`

* From `TransferPayloadAssumption`: `Types`, `OneRootPerDraft`, `OwnersSignWhatIsShown`, `MessagesVerify`,
  `StaleMessagesStay`, `MessagesTellTheTruth` (`TypeOK`, `PathsMeet`, `SignedIsShown`, `MessageVerifies`,
  `StaleIsNotSent`, `ReadersLearnTheTruth`), and `TransfersAreSound`: `TransferIsSound`.
* From `WithdrawRelayAssumption`: `Types`, `RelayedMessagesVerify`, `SubmittedMessagesVerify`, `OwnersSignWhatIsAsked`,
  `HonestPayloadsPass` (`TypeOK`, `RelayedVerifies`, `SentVerifies`, `SignedIsAsked`, `HonestPasses`), and
  `WithdrawalsAreSound`: `WithdrawIsSound`.

`PathsMeet` needs to know that a draft is only finished from two equal roots.  `SignedIsShown` follows from what the
validator recomputes, so the invariant only has to say that a signature was made of a valid request, by its signer; the
arithmetic of conservation is in the definition of validity.  The other two of a transfer need that a message was made
of a payload whose hash is that of its fields and of a proof whose public inputs are its effect.  `StaleIsNotSent`
adds `SubmissionInv`: the message of a submission has a proof of its effect, and on Cosmos one that is past the fence
had not expired when the submission began, since the fence reads a later time.  For withdrawals the
invariant says of each step of a submission what was compared by then, since the checks are spread over `Bind`,
`Recheck` and `Fence` and the clock moves in between.

### Only model-checked

* Liveness, which with fairness and ENABLED is out of the prover's reach: `EveryCallSettles`, `PrepareEnds`,
  `WaitsEnd`, `NotesSettle`.
* `NotePlanner`, `PayrollPlanner` and `Wire`, which are recursive, and what needs induction over data, such as the
  levels of a tree in `CommitmentPaths`.
* `HiddenStaysHidden`, which quantifies over what can be opened with the secrets of an instance and does not hold
  for constants that let two accounts share them.
* So far without a proof: `ConfirmedIsFinal`, `AnswersAreWhole` and `AnswersAreFresh`;
  `CacheIsExact` and `ScanIsExact`; `BatchIsSound`, `DisclosureIsSound`, `DepositsAreSound`; the case of
  `IndexedDbStore` without Web Locks.

## 6. Not modelled

* Field and curve arithmetic, the hash functions and the ciphers: out of TLC's reach, compared with fixtures by the
  repository.  The models take hashes as collision free and envelopes as sealed.
* The byte layout under a hash, the ABI of EVM calls, hexadecimal and bech32 forms, the decimal conversion of 64-bit
  protobuf numbers, the `google`, `gogoproto` and `amino` descriptors and the TypeScript sources under `codegen/`
  of which `src/generated/` is compiled: pure conversions.
* Parsing of every single REST response, the asset registry, circuit and network configuration: validated field by field
  when fetched; a rotation of the configuration in the middle of a batch is a throw in `BatchCheckpoint`.
* The public client (reads and formats; its fetch loop is that of `RestQuery`), wallet adapters (thin wrappers over browser
  extensions), the conformance runner, tools, examples, fixtures and tests.
* Serialisation of payroll artifacts and of notes in the store; export of reports.
* The local, worker and relay prover adapters: one call each.
* An EVM wallet that replaces a transaction under the same nonce; the nonpayable legacy profile of deposits; batch
  outputs below a legacy scan cursor.

## 7. Plan

In order of weight:

1. Proofs: `SignedIsShown` and `MessageVerifies` of `BatchPayload`; `StaysHome` of `RestQuery` and `Complete` of
   `AdapterQuery`; `VerifiedIsFinal` of `EvmFinality`; the case of `IndexedDbStore` without Web Locks.
2. `ManagerCalls` over several notes, shown to implement `ReservationStore` itself rather than `NoteOwnership`.
3. The asset registry cache and the rotation of configurations between the steps of a preparation.
