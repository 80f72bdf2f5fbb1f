-------------------------- MODULE ReservationStore --------------------------
(***************************************************************************)
(* The note-reservation store of src/privacy/reservation.js as its         *)
(* managers drive it.  A record is kept per input note of an operation     *)
(* (its id is operation_id plus the note's lookup key), all under one      *)
(* owner_key_id.  Every action is one manager call committed by one        *)
(* compare-and-set batch: the guards are those the store evaluates inside  *)
(* the batch, on the records as they are then, and the batch covers the    *)
(* exact set of linked records or nothing.  A call that throws changes     *)
(* nothing and is no step.                                                 *)
(***************************************************************************)
EXTENDS Naturals, ReservationStatus

CONSTANTS
  Note,          \* the wallet's notes, named by their nullifier lookup key
  Op,            \* operation ids; each is used for one reservation batch
  Manager,       \* live NoteReservationManager instances (lease_owner values)
  NoManager,     \* the empty lease_owner
  EvmOp,         \* operations prepared with execution_transport "evm"
  EvidenceOp,    \* operations prepared with operation success evidence
  MaxTx,         \* the transactions an operation may be signed into
  MaxPayload,    \* the payloads an operation may be proved for
  LeaseDuration, \* lease_until is at most this many ticks ahead
  Free, Spent    \* what NoteOwnership says of a note no operation has

ASSUME StoreAssumption ==
  /\ NoManager \notin Manager
  /\ EvmOp \subseteq Op
  /\ EvidenceOp \subseteq Op
  /\ MaxTx \in Nat
  /\ MaxPayload \in Nat
  /\ LeaseDuration \in Nat \ {0}
  /\ Free \notin Op /\ Spent \notin Op /\ Free # Spent

VARIABLES
  status,     \* status[o][n]: the record of operation o on note n
  lease,      \* its lease_owner and the time left until lease_until
  broadcast,  \* its payload, transaction identity and broadcast marks
  evidence,   \* the lifecycle evidence kept in its metadata
  outcome,    \* its operation_status metadata, "Planned" until evaluated
  claim       \* claim[m]: operations whose claim token manager m holds

vars == <<status, lease, broadcast, evidence, outcome, claim>>

(* 0 is the empty string in payload, bytes and submitted: the k-th         *)
(* transaction or payload of the operation is k.                           *)
TxId == 0 .. MaxTx
PayloadId == 0 .. MaxPayload

Lease == [owner : Manager \cup {NoManager}, ttl : 0 .. LeaseDuration]
NoLease == [owner |-> NoManager, ttl |-> 0]

Broadcast ==
  [payload : PayloadId, signDoc : BOOLEAN, bytes : TxId, submitted : TxId,
   count : Nat, inFlight : BOOLEAN, handedOff : BOOLEAN, local : BOOLEAN]
NoBroadcast ==
  [payload |-> 0, signDoc |-> FALSE, bytes |-> 0, submitted |-> 0,
   count |-> 0, inFlight |-> FALSE, handedOff |-> FALSE, local |-> FALSE]

(* Metadata some later decision reads; marks such as proof_discarded, which *)
(* are demanded in a patch but never read back, are left out.              *)
Tag ==
  {"success_evidence_required", "broadcast_rejected", "exact_failure",
   "included", "operator_approved"}

Init ==
  /\ status = [o \in Op |-> [n \in Note |-> NoRecord]]
  /\ lease = [o \in Op |-> [n \in Note |-> NoLease]]
  /\ broadcast = [o \in Op |-> [n \in Note |-> NoBroadcast]]
  /\ evidence = [o \in Op |-> [n \in Note |-> {}]]
  /\ outcome = [o \in Op |-> [n \in Note |-> "Planned"]]
  /\ claim = [m \in Manager |-> {}]

------------------------------------------------------------------------------
(* Reading the records.                                                    *)

Linked(o) == {n \in Note : status[o][n] # NoRecord}
Live(o) == {n \in Linked(o) : status[o][n] # "ConfirmedSpent"}

(* Every live record of o is in status from: compare-and-set, never mixed. *)
AllIn(o, from) == Live(o) # {} /\ \A n \in Live(o) : status[o][n] = from

(* mutation: a note known to be spent does not block *)
BlockedByActive(o, n) == \E other \in Op \ {o} : status[other][n] \in Active

(* activeConflict and confirmedSpentConflict, for a record about to lock n. *)
Blocked(o, n) ==
  \E other \in Op \ {o} : status[other][n] \in Active \cup {"ConfirmedSpent"}

HoldsLease(m, o) ==
  /\ o \in claim[m]
  /\ \A n \in Live(o) : lease[o][n].owner = m /\ lease[o][n].ttl > 0

(* mutation: any lease counts as expired *)
LeasePresent(o) == \A n \in Live(o) : lease[o][n].owner # NoManager

LeaseExpired(o) ==
  \A n \in Live(o) : lease[o][n].owner # NoManager /\ lease[o][n].ttl = 0

LeaseAllows(m, o, from, to) ==
  <<from, to>> \in LeaseRequired =>
    \/ HoldsLease(m, o)
    \/ <<from, to>> \in ExpiredLeaseRecovery /\ LeaseExpired(o)

(* mutation: a prepared EVM artifact counts as a network transaction *)
AnyIdentity(o, n) == {broadcast[o][n].submitted, broadcast[o][n].bytes} \ {0}

(* reservationNetworkTransactionIdentities *)
Identities(o, n) ==
  LET b == broadcast[o][n]
  IN  (IF o \in EvmOp THEN {b.submitted} ELSE {b.submitted, b.bytes}) \ {0}

(* mutation: a relay handoff is not broadcast evidence *)
HasAttemptEvidence(o, n) ==
  LET b == broadcast[o][n] IN b.submitted # 0 \/ b.count > 0 \/ b.inFlight

HasBroadcastEvidence(o, n) ==
  LET b == broadcast[o][n]
  IN  b.submitted # 0 \/ b.count > 0 \/ b.inFlight \/ b.handedOff

ExactFailure(o, n, tx) == tx # 0 /\ tx \in Identities(o, n)

(* mutation: a later identity replaces the stored one *)
Replaces(old, new) == TRUE

(* A write-once field keeps the value it has; a patch may leave it out.    *)
Keeps(old, new) == old = 0 \/ new = 0 \/ new = old
Merge(old, new) == IF new = 0 THEN old ELSE new

(* No local broadcast of the prepared payload was begun. *)
Unsent(b) == ~b.inFlight /\ b.count = 0

------------------------------------------------------------------------------
(* Writing them.                                                           *)

OnLive(o, field, value) ==
  [field EXCEPT ![o] =
    [n \in Note |-> IF n \in Live(o) THEN value[n] ELSE field[o][n]]]

(* mutation: the conflict check is made on creation only *)
MoveToUnchecked(o, to) == status' = OnLive(o, status, [n \in Note |-> to])

(* The status part of a batch over the exact live set of o.                *)
MoveTo(o, to) ==
  /\ to \in Active => \A n \in Live(o) : ~Blocked(o, n)
  /\ status' = OnLive(o, status, [n \in Note |-> to])

DropLease(o) == lease' = OnLive(o, lease, [n \in Note |-> NoLease])

WriteBroadcast(o, Patched(_)) ==
  broadcast' = OnLive(o, broadcast, [n \in Note |-> Patched(broadcast[o][n])])

SettleBroadcast(o) ==
  WriteBroadcast(o, LAMBDA b : [b EXCEPT !.inFlight = FALSE])

AddEvidence(o, tags) ==
  evidence' = OnLive(o, evidence, [n \in Note |-> evidence[o][n] \cup tags])

------------------------------------------------------------------------------
(* Creating, claiming and releasing.                                       *)

Fresh(o) == Linked(o) = {}

(* reserveNotes: a fresh operation id, no note locked or known spent, one  *)
(* Reserved record per note; the caller alone gets the claim token.        *)
ReserveNotes(m, o, N) ==
  /\ N # {}
  /\ Fresh(o)
  /\ \A n \in N : ~Blocked(o, n)
  /\ status' = [status EXCEPT ![o] = [n \in Note |->
                 IF n \in N THEN "Reserved" ELSE NoRecord]]
  /\ claim' = [claim EXCEPT ![m] = @ \cup {o}]
  /\ UNCHANGED <<lease, broadcast, evidence, outcome>>

(* markProving: the record carries no lease yet, the claim token proves    *)
(* the caller made the reservation.                                        *)
MarkProving(m, o) ==
  /\ AllIn(o, "Reserved")
  /\ o \in claim[m]
  /\ MoveTo(o, "Proving")
  /\ lease' = OnLive(o, lease, [n \in Note |-> [owner |-> m, ttl |-> LeaseDuration]])
  /\ UNCHANGED <<broadcast, evidence, outcome, claim>>

(* mutation: a renewal extends the running lease *)
Extended(stored, requested) == stored + requested

(* renewLease keeps the later of the stored and the requested expiry.      *)
Later(stored, requested) == IF stored > requested THEN stored ELSE requested

RenewLease(m, o, ttl) ==
  /\ Live(o) # {}
  /\ HoldsLease(m, o)
  /\ lease' = OnLive(o, lease, [n \in Note |->
                [lease[o][n] EXCEPT !.ttl = Later(@, ttl)]])
  /\ UNCHANGED <<status, broadcast, evidence, outcome, claim>>

(* releaseReservationBatch asks for the owner key, not for the claim token: *)
(* any manager of the owner may release a reservation not yet proving.      *)
ReleaseReserved(o) ==
  /\ AllIn(o, "Reserved")
  /\ MoveTo(o, "Released")
  /\ DropLease(o)
  /\ UNCHANGED <<broadcast, evidence, outcome, claim>>

(* markProofReady: the proof's payload hash, and the sign doc and the      *)
(* transaction bytes when they are known already.  All three are in the    *)
(* patch, so a value stored earlier must be given again.                   *)
MarkProofReady(m, o, payload, signed, tx) ==
  /\ AllIn(o, "Proving")
  /\ HoldsLease(m, o)
  /\ \A n \in Live(o) :
       LET b == broadcast[o][n]
       IN  /\ b.payload \in {0, payload}
           /\ b.signDoc => signed
           /\ b.bytes \in {0, tx}
  /\ MoveTo(o, "ProofReady")
  /\ lease' = OnLive(o, lease, [n \in Note |-> [owner |-> m, ttl |-> LeaseDuration]])
  /\ WriteBroadcast(o, LAMBDA b :
       [b EXCEPT !.payload = payload, !.signDoc = signed, !.bytes = tx])
  /\ AddEvidence(o, IF o \in EvidenceOp THEN {"success_evidence_required"} ELSE {})
  /\ UNCHANGED <<outcome, claim>>

------------------------------------------------------------------------------
(* Giving the proved payload out: to a relay, or to a wallet and an RPC.   *)

RecordRelayHandoff(m, o, signed, tx) ==
  /\ AllIn(o, "ProofReady")
  /\ HoldsLease(m, o)
  /\ \A n \in Live(o) :
       LET b == broadcast[o][n]
       IN  Unsent(b) /\ b.payload # 0 /\ Keeps(b.bytes, tx)
  /\ WriteBroadcast(o, LAMBDA b :
       [b EXCEPT !.handedOff = TRUE, !.signDoc = @ \/ signed, !.bytes = Merge(@, tx)])
  /\ UNCHANGED <<status, lease, evidence, outcome, claim>>

(* The durable mark written before the external boundary is crossed; local *)
(* says the boundary is a same-origin local relayer.                       *)
MarkBroadcastAttempting(m, o, hash, tx, signed, local) ==
  /\ AllIn(o, "ProofReady")
  /\ HoldsLease(m, o)
  /\ \A n \in Live(o) :
       LET b == broadcast[o][n]
       IN  /\ ~b.handedOff /\ Unsent(b)
           /\ Keeps(b.submitted, hash) /\ Keeps(b.bytes, tx)
  /\ WriteBroadcast(o, LAMBDA b :
       [b EXCEPT !.inFlight = TRUE, !.count = @ + 1, !.local = local,
                 !.submitted = Merge(@, hash), !.bytes = Merge(@, tx),
                 !.signDoc = @ \/ signed])
  /\ UNCHANGED <<status, lease, evidence, outcome, claim>>

(* A definitive refusal: by the wallet, by an abort before the RPC call,   *)
(* or by CheckTx.                                                          *)
MarkBroadcastRejected(m, o, kind) ==
  /\ AllIn(o, "ProofReady")
  /\ HoldsLease(m, o)
  /\ \A n \in Live(o) :
       LET b == broadcast[o][n]
           durable == b.inFlight /\ b.count >= 1
           prepared == Unsent(b) /\ b.signDoc /\ b.bytes = 0 /\ b.submitted = 0
       IN  ~b.handedOff /\ (durable \/ (prepared /\ kind = "wallet_rejected"))
  /\ MoveTo(o, "ReplanRequired")
  /\ DropLease(o)
  /\ SettleBroadcast(o)
  /\ AddEvidence(o, {"broadcast_rejected"})
  /\ UNCHANGED <<outcome, claim>>

(* The conditions markSubmitted and markUnknown share when the operation   *)
(* leaves ProofReady after its attempt.                                    *)
Attempted(o, hash, tx) ==
  /\ hash # 0 \/ tx # 0
  /\ \A n \in Live(o) :
       LET b == broadcast[o][n]
       IN  Keeps(b.submitted, hash) /\ Keeps(b.bytes, tx)

AttemptDurable(o) ==
  \A n \in Live(o) : broadcast[o][n].inFlight /\ broadcast[o][n].count >= 1

AfterAttempt(o, to, hash, tx) ==
  /\ MoveTo(o, to)
  /\ DropLease(o)
  /\ WriteBroadcast(o, LAMBDA b :
       [b EXCEPT !.inFlight = FALSE, !.submitted = Merge(@, hash), !.bytes = Merge(@, tx)])
  /\ UNCHANGED <<evidence, outcome, claim>>

MarkSubmitted(m, o, hash, tx) ==
  /\ AllIn(o, "ProofReady")
  /\ HoldsLease(m, o)
  /\ AttemptDurable(o)
  /\ Attempted(o, hash, tx)
  /\ o \in EvmOp => hash # 0
  /\ AfterAttempt(o, "Submitted", hash, tx)

MarkUnknown(m, o, hash, tx) ==
  /\ \/ AllIn(o, "ProofReady") /\ HoldsLease(m, o) /\ AttemptDurable(o)
     \/ AllIn(o, "Submitted")
  /\ Attempted(o, hash, tx)
  /\ AfterAttempt(o, "Unknown", hash, tx)

(* recordRelayTransactionEvidence: an authoritative lookup found tx, which *)
(* carries the exact payload, included.  Lease-free; the one batch that    *)
(* must cover the ConfirmedSpent records of the operation too.  Repeating  *)
(* it on Submitted records changes nothing.                                *)
RecordRelayTransactionEvidence(o, tx) ==
  /\ AllIn(o, "ProofReady")
  /\ Live(o) = Linked(o)
  /\ \A n \in Live(o) :
       LET b == broadcast[o][n]
           external == b.handedOff /\ Unsent(b)
           viaLocal == ~b.handedOff /\ b.local /\ b.inFlight /\ b.count >= 1
       IN  /\ external \/ viaLocal
           /\ b.payload # 0
           /\ Keeps(b.submitted, tx) /\ Identities(o, n) \subseteq {tx}
           /\ {"exact_failure", "included"} \cap evidence[o][n] = {}
  /\ MoveTo(o, "Submitted")
  /\ DropLease(o)
  /\ WriteBroadcast(o, LAMBDA b :
       [b EXCEPT !.submitted = tx, !.inFlight = FALSE,
                 !.count = IF b.handedOff THEN 1 ELSE @])
  /\ AddEvidence(o, {"included"})
  /\ UNCHANGED <<outcome, claim>>

------------------------------------------------------------------------------
(* Leaving the broadcast states without a spent note.                      *)

(* markBroadcastFailed: tx is the recorded transaction, it is absent or    *)
(* failed at the checked height, and every input is unspent.               *)
MarkBroadcastFailed(m, o, tx) ==
  /\ \/ /\ AllIn(o, "ProofReady")
        /\ HoldsLease(m, o)
        /\ \A n \in Live(o) : HasBroadcastEvidence(o, n)
     \/ AllIn(o, "Submitted")
     \/ AllIn(o, "Unknown")
  /\ \A n \in Live(o) : ExactFailure(o, n, tx)
  /\ MoveTo(o, "ReplanRequired")
  /\ DropLease(o)
  /\ SettleBroadcast(o)
  /\ AddEvidence(o, {"exact_failure"})
  /\ UNCHANGED <<outcome, claim>>

(* recoverExpiredProofReadyBroadcastFailure: the worker is gone and its    *)
(* lease with it; the complete stored identity of the attempt failed.      *)
RecoverExpiredProofReady(o, tx) ==
  /\ AllIn(o, "ProofReady")
  /\ Live(o) = Linked(o)
  /\ LeaseExpired(o)
  /\ AttemptDurable(o)
  /\ \A n \in Live(o) :
       LET b == broadcast[o][n]
       IN  b.submitted = tx /\ tx # 0 /\ b.bytes # 0 /\ b.signDoc
  /\ MoveTo(o, "ReplanRequired")
  /\ DropLease(o)
  /\ SettleBroadcast(o)
  /\ AddEvidence(o, {"exact_failure"})
  /\ UNCHANGED <<outcome, claim>>

(* markReplanRequired: after a broadcast the exact failure of tx, before   *)
(* one the discarded proof, and nothing at all while no proof is finished. *)
NeedsFailure(o, n, from) ==
  \/ from \in {"Submitted", "Unknown"}
  \/ from = "ProofReady" /\ HasBroadcastEvidence(o, n)

MarkReplanRequired(m, o, from, tx) ==
  /\ AllIn(o, from)
  /\ from # "ManualReview"    \* that way out is ResolveManualReview
  /\ CanTransition(from, "ReplanRequired")
  /\ LeaseAllows(m, o, from, "ReplanRequired")
  /\ \A n \in Live(o) :
       IF NeedsFailure(o, n, from) THEN ExactFailure(o, n, tx) ELSE tx = 0
  /\ MoveTo(o, "ReplanRequired")
  /\ DropLease(o)
  /\ SettleBroadcast(o)
  /\ AddEvidence(o, IF tx # 0 THEN {"exact_failure"} ELSE {})
  /\ UNCHANGED <<outcome, claim>>

(* transitionBatch to Failed: the same evidence after a broadcast.         *)
MarkFailed(o, from, tx) ==
  /\ AllIn(o, from)
  /\ from # "ManualReview"
  /\ CanTransition(from, "Failed")
  /\ \A n \in Live(o) :
       IF NeedsFailure(o, n, from) THEN ExactFailure(o, n, tx) ELSE tx = 0
  /\ MoveTo(o, "Failed")
  /\ DropLease(o)
  /\ SettleBroadcast(o)
  /\ AddEvidence(o, IF tx # 0 THEN {"exact_failure"} ELSE {})
  /\ UNCHANGED <<outcome, claim>>

(* markManualReview: with the lease while the worker has one, without it   *)
(* once the lease has expired or where none is held.                       *)
MarkManualReview(m, o, from) ==
  /\ AllIn(o, from)
  /\ CanTransition(from, "ManualReview")
  /\ LeaseAllows(m, o, from, "ManualReview")
  /\ MoveTo(o, "ManualReview")
  /\ DropLease(o)
  /\ SettleBroadcast(o)
  /\ UNCHANGED <<evidence, outcome, claim>>

ResolveManualReview(o, to) ==
  /\ AllIn(o, "ManualReview")
  /\ to \in {"Released", "ReplanRequired", "Failed"}
  /\ MoveTo(o, to)
  /\ DropLease(o)
  /\ SettleBroadcast(o)
  /\ AddEvidence(o, {"operator_approved"})
  /\ UNCHANGED <<outcome, claim>>

------------------------------------------------------------------------------
(* Transitions only the low-level transitionBatch makes: taking a record   *)
(* back into use.  Available is not a lifecycle status of the exact-set    *)
(* rule, so single records may be made Available.                          *)

ReturnToReserved(m, o, from) ==
  /\ AllIn(o, from)
  /\ CanTransition(from, "Reserved")
  /\ LeaseAllows(m, o, from, "Reserved")
  /\ MoveTo(o, "Reserved")
  /\ DropLease(o)
  /\ SettleBroadcast(o)
  /\ UNCHANGED <<evidence, outcome, claim>>

MakeAvailable(o, N) ==
  /\ N # {}
  /\ \A n \in N : status[o][n] = "Released"
  /\ status' = [status EXCEPT ![o] = [n \in Note |->
                 IF n \in N THEN "Available" ELSE status[o][n]]]
  /\ UNCHANGED <<lease, broadcast, evidence, outcome, claim>>

------------------------------------------------------------------------------
(* Spent notes seen on the chain.                                          *)

Required(o) ==
  \E n \in Linked(o) : "success_evidence_required" \in evidence[o][n]
PriorSuccess(o) == \E n \in Linked(o) : outcome[o][n] = "Succeeded"

(* What a spent note comes with: nothing, or the k-th transaction of o     *)
(* with the outputs o expects.  Evidence of other outputs decides like no  *)
(* evidence, or makes the call throw.                                      *)
NoEvidence == <<>>
SpendEvidence == {NoEvidence} \cup EvidenceOp \X (1 .. MaxTx)

Proves(o, n, found) ==
  \E k \in 1 .. MaxTx :
    /\ found = <<o, k>>
    /\ IF o \in EvmOp THEN broadcast[o][n].submitted = k /\ broadcast[o][n].bytes = k
       ELSE k \in Identities(o, n)

(* mutation: inputs without evidence are not counted as missing *)
OutcomeOfSpent(o, S, by) ==
  IF \A n \in Linked(o) \cap S : Proves(o, n, by[n]) THEN "Succeeded"
  ELSE "ConflictSpent"

(* An input that is not spent yet, or whose record requires no evidence,   *)
(* leaves the operation to a person, whatever the others say.              *)
OutcomeOf(o, S, by) ==
  IF \E n \in Linked(o) : n \notin S \/ "success_evidence_required" \notin evidence[o][n]
  THEN "ManualReview"
  ELSE IF \A n \in Linked(o) : Proves(o, n, by[n]) THEN "Succeeded"
  ELSE "ConflictSpent"

(* A retry after success must be whole and may not contradict it; a batch  *)
(* without operation evidence may not move records of mixed status.  Either*)
(* way the whole call throws.                                              *)
Reconcilable(o, S, by) ==
  IF PriorSuccess(o)
  THEN /\ \A n \in Linked(o) : status[o][n] = "ConfirmedSpent" /\ outcome[o][n] = "Succeeded"
       /\ \A n \in Linked(o) \cap S : by[n] # NoEvidence => Proves(o, n, by[n])
  ELSE Required(o) \/ \A n1, n2 \in Live(o) \cap S : status[o][n1] = status[o][n2]

(* reconcileSpentNotes: every record on a spent note is quarantined,       *)
(* whatever its status and operation.                                      *)
ReconcileSpent(S, by) ==
  LET affected == {o \in Op : Linked(o) \cap S # {}}
      written == {o \in affected : ~PriorSuccess(o)}
      spent(o, n) == o \in written /\ n \in Linked(o) \cap S
  IN  /\ affected # {}
      /\ \A o \in affected : Reconcilable(o, S, by)
      /\ status' = [o \in Op |-> [n \in Note |->
           IF spent(o, n) THEN "ConfirmedSpent" ELSE status[o][n]]]
      /\ lease' = [o \in Op |-> [n \in Note |->
           IF spent(o, n) THEN NoLease ELSE lease[o][n]]]
      /\ broadcast' = [o \in Op |-> [n \in Note |->
           IF spent(o, n) THEN [broadcast[o][n] EXCEPT !.inFlight = FALSE]
           ELSE broadcast[o][n]]]
      /\ outcome' = [o \in Op |-> [n \in Note |->
           IF o \in written /\ Required(o) /\ n \in Linked(o)
           THEN OutcomeOf(o, S, by) ELSE outcome[o][n]]]
      /\ UNCHANGED <<evidence, claim>>

------------------------------------------------------------------------------
(* The environment: time passes, a manager's process ends and its tokens   *)
(* are gone.                                                               *)

Tick ==
  /\ \E o \in Op, n \in Note : lease[o][n].ttl > 0
  /\ lease' = [o \in Op |-> [n \in Note |->
       [lease[o][n] EXCEPT !.ttl = IF @ > 0 THEN @ - 1 ELSE 0]]]
  /\ UNCHANGED <<status, broadcast, evidence, outcome, claim>>

Crash(m) ==
  /\ claim[m] # {}
  /\ claim' = [claim EXCEPT ![m] = {}]
  /\ UNCHANGED <<status, lease, broadcast, evidence, outcome>>

------------------------------------------------------------------------------

WorkerStep(m, o) ==
  \/ \E N \in SUBSET Note : ReserveNotes(m, o, N)
  \/ MarkProving(m, o)
  \/ \E ttl \in 1 .. LeaseDuration : RenewLease(m, o, ttl)
  \/ \E payload \in PayloadId, signed \in BOOLEAN, tx \in TxId :
       MarkProofReady(m, o, payload, signed, tx)
  \/ \E signed \in BOOLEAN, tx \in TxId : RecordRelayHandoff(m, o, signed, tx)
  \/ \E hash, tx \in TxId, signed, local \in BOOLEAN :
       MarkBroadcastAttempting(m, o, hash, tx, signed, local)
  \/ \E kind \in {"wallet_rejected", "aborted_before_rpc", "check_tx_rejected"} :
       MarkBroadcastRejected(m, o, kind)
  \/ \E hash, tx \in TxId : MarkSubmitted(m, o, hash, tx)
  \/ \E hash, tx \in TxId : MarkUnknown(m, o, hash, tx)
  \/ \E tx \in TxId : MarkBroadcastFailed(m, o, tx)
  \/ \E from \in Status, tx \in TxId : MarkReplanRequired(m, o, from, tx)
  \/ \E from \in Status : MarkManualReview(m, o, from)
  \/ \E from \in Status : ReturnToReserved(m, o, from)

OperatorStep(o) ==
  \/ ReleaseReserved(o)
  \/ \E tx \in TxId \ {0} : RecordRelayTransactionEvidence(o, tx)
  \/ \E tx \in TxId : RecoverExpiredProofReady(o, tx)
  \/ \E from \in Status, tx \in TxId : MarkFailed(o, from, tx)
  \/ \E to \in Status : ResolveManualReview(o, to)
  \/ \E N \in SUBSET Note : MakeAvailable(o, N)

Next ==
  \/ \E m \in Manager, o \in Op : WorkerStep(m, o)
  \/ \E o \in Op : OperatorStep(o)
  \/ \E S \in SUBSET Note : \E by \in [S -> SpendEvidence] : ReconcileSpent(S, by)
  \/ Tick
  \/ \E m \in Manager : Crash(m)

Spec == Init /\ [][Next]_vars

------------------------------------------------------------------------------
(* What the store promises.                                                *)

StatusType == status \in [Op -> [Note -> Status \cup {NoRecord}]]
LeaseType == lease \in [Op -> [Note -> Lease]]
BroadcastType == broadcast \in [Op -> [Note -> Broadcast]]
EvidenceType == evidence \in [Op -> [Note -> SUBSET Tag]]
OutcomeType == outcome \in [Op -> [Note -> OperationStatus]]
ClaimType == claim \in [Manager -> SUBSET Op]

(* The fields of every record stay in their ranges, whatever calls are made. *)
TypeOK ==
  /\ StatusType /\ LeaseType /\ BroadcastType
  /\ EvidenceType /\ OutcomeType /\ ClaimType

(* activeConflict and confirmedSpentConflict at work: at most one operation *)
(* locks a note, and none locks a note already known to be spent, although *)
(* inactive records of other operations on the note may be revived at any  *)
(* time and the chain may consume it under anybody.                        *)
Exclusive ==
  \A o1, o2 \in Op, n \in Note :
    o1 # o2 /\ status[o1][n] \in Active =>
      status[o2][n] \notin Active \cup {"ConfirmedSpent"}

(* OPERATION_STATE_MIXED never arises by the store's own doing: the records *)
(* of an operation not consumed by the chain share one status, but for     *)
(* Released records made Available one by one.                             *)
OperationInStep ==
  \A o \in Op : \A n1, n2 \in Live(o) :
    \/ status[o][n1] = status[o][n2]
    \/ {status[o][n1], status[o][n2]} = {"Released", "Available"}

(* A worker lease exists exactly while there is work under it, and an      *)
(* in-flight mark only while a worker may still be at the boundary.        *)
LeaseMatchesStatus ==
  \A o \in Op, n \in Note :
    /\ lease[o][n].owner # NoManager <=> status[o][n] \in {"Proving", "ProofReady"}
    /\ broadcast[o][n].inFlight => status[o][n] = "ProofReady"

(* The payload of an operation crosses one external boundary at most once: *)
(* one local attempt or a relay handoff, never both; the count a relayed   *)
(* record carries is the relay's own included transaction.                 *)
SingleBroadcast ==
  \A o \in Op, n \in Note :
    LET b == broadcast[o][n]
    IN  /\ b.count <= 1
        /\ b.handedOff /\ b.count = 1 => "included" \in evidence[o][n]

(* No silent reuse: an operation whose payload may have reached the chain  *)
(* lets go of its note, or prepares again, only on a definitive rejection, *)
(* the exact failure of a transaction it recorded, or an operator's word.  *)
Sent(o, n) == broadcast[o][n].count > 0 \/ broadcast[o][n].handedOff

NoSilentReuse ==
  \A o \in Op, n \in Note :
    /\ Sent(o, n) /\ status[o][n] \in
         {"Failed", "ReplanRequired", "Released", "Available", "Reserved", "Proving"}
       => evidence[o][n] \cap {"broadcast_rejected", "exact_failure", "operator_approved"} # {}
    /\ "exact_failure" \in evidence[o][n] => Identities(o, n) # {}

(* The three together: what a broadcast leaves in the records is enough to *)
(* say what may happen to the notes, and by whom.                          *)
BroadcastAccountedFor == LeaseMatchesStatus /\ SingleBroadcast /\ NoSilentReuse

(* An operation evaluated as Succeeded succeeded as a whole: every input   *)
(* is spent, every record says so, and each recorded the transaction that  *)
(* the evidence named.                                                     *)
SuccessIsWhole ==
  \A o \in Op :
    PriorSuccess(o) =>
      /\ \A n \in Linked(o) : status[o][n] = "ConfirmedSpent" /\ outcome[o][n] = "Succeeded"
      /\ \A n \in Linked(o) : Identities(o, n) # {}

(* An operation is one thing: its records move together, and it succeeds   *)
(* as a whole.                                                             *)
OperationIsWhole == OperationInStep /\ SuccessIsWhole

(* What recovery relies on after a restart is never lost or rewritten: the *)
(* payload and transaction identities, the broadcast marks, the evidence   *)
(* of inclusion or failure, a spent note, a success.                       *)
EvidenceIsPermanent ==
  [][\A o \in Op, n \in Note :
       LET b == broadcast[o][n]
           b2 == broadcast'[o][n]
       IN  /\ b.payload # 0 => b2.payload = b.payload
           /\ b.bytes # 0 => b2.bytes = b.bytes
           /\ b.submitted # 0 => b2.submitted = b.submitted
           /\ b.signDoc => b2.signDoc
           /\ b.handedOff => b2.handedOff
           /\ b.count <= b2.count
           /\ evidence[o][n] \subseteq evidence'[o][n]
           /\ status[o][n] = "ConfirmedSpent" => status'[o][n] = "ConfirmedSpent"
           /\ outcome[o][n] = "Succeeded" => outcome'[o][n] = "Succeeded"]_vars

(* While the lease of a vanished worker runs, nobody takes its operation   *)
(* over: only the chain can, by a spent input or the relayed transaction.  *)
CrashedLeaseRespected ==
  [][\A o \in Op, n \in Note :
       /\ status[o][n] \in {"Proving", "ProofReady"}
       /\ lease[o][n].ttl > 0
       /\ o \notin claim[lease[o][n].owner]
       /\ status'[o][n] # status[o][n]
       => \/ status'[o][n] = "ConfirmedSpent"
          \/ status'[o][n] = "Submitted" /\ "included" \in evidence'[o][n]]_vars

(* docs/reservation-state-machine.md, safety rule 2: an expired lease is   *)
(* dealt with by reconciliation, ManualReview or the evidence-gated        *)
(* expired-ProofReady recovery, not by a generic transition.               *)
ExpiredLeaseIsIsolated ==
  [][\A o \in Op, n \in Note :
       /\ status[o][n] = "Proving"
       /\ lease[o][n].ttl = 0
       /\ status'[o][n] # status[o][n]
       => status'[o][n] \in {"ManualReview", "ConfirmedSpent"}]_vars

------------------------------------------------------------------------------
(* The records, read as who has each note.                                 *)

HolderOf(n) ==
  IF \E o \in Op : status[o][n] = "ConfirmedSpent" THEN Spent
  ELSE IF \E o \in Op : status[o][n] \in Active
  THEN CHOOSE o \in Op : status[o][n] \in Active
  ELSE Free

Ownership == INSTANCE NoteOwnership WITH holder <- [n \in Note |-> HolderOf(n)]

(* The store implements note ownership: notes change hands only by an      *)
(* operation taking free notes, giving all of its own back, or the chain   *)
(* consuming some.                                                         *)
ImplementsOwnership == Ownership!Spec
==============================================================================
