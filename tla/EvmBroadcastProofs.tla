-------------------------- MODULE EvmBroadcastProofs --------------------------
(***************************************************************************)
(* Proofs about CosmosBroadcast and EvmBroadcast: for any sessions, calls, *)
(* payments, notes and transactions, whatever overlaps, fails, is lost or  *)
(* is cut off by a crash.  The variables are typed, every step is a step   *)
(* of the store (so the theorems about the store hold here), and then one  *)
(* inductive invariant, IInv, gives the promises of the two clients:       *)
(*   - NetFits and TaskFits: what is on the records once a node may have a *)
(*     transaction, and what each await has established on the way there;  *)
(*   - CallsFit: of two calls for a payment one at most is between its mark*)
(*     and its RPC, because the store takes a first attempt only;          *)
(*   - HeldFits and PayFits: from its mark until it can no longer be       *)
(*     included a payment is Open, and what is open holds its notes;       *)
(*   - RecordFits: what a record says of a transaction is true of it.      *)
(* A step is looked at three times: what it writes in the records          *)
(* (Changes, Leaves), what it does on the chain (ChainMoves) and where it  *)
(* takes the calls.                                                        *)
(***************************************************************************)
EXTENDS EvmBroadcast, TLAPS

Records == INSTANCE ReservationStoreProofs

(* The theorems about the store are of Records; the calls of the clients   *)
(* are of Store: the same definitions, of the same variables.              *)
LEMMA SameReading ==
  /\ Store!TypeOK <=> Records!TypeOK
  /\ Store!Init <=> Records!Init
  /\ Store!TxId = Records!TxId
  /\ Store!Status = Records!Status
  /\ Store!NoEvidence = Records!NoEvidence
  /\ \A o : Store!Linked(o) = Records!Linked(o) /\ Store!Live(o) = Records!Live(o)
BY DEF Records!TypeOK, Store!TypeOK, Records!StatusType, Store!StatusType,
       Records!LeaseType, Store!LeaseType, Records!BroadcastType, Store!BroadcastType,
       Records!EvidenceType, Store!EvidenceType, Records!OutcomeType, Store!OutcomeType,
       Records!ClaimType, Store!ClaimType, Records!Lease, Store!Lease,
       Records!Broadcast, Store!Broadcast, Records!Tag, Store!Tag,
       Records!Status, Store!Status, Records!NoRecord, Store!NoRecord,
       Records!OperationStatus, Store!OperationStatus, Records!TxId, Store!TxId,
       Records!PayloadId, Store!PayloadId, Records!Init, Store!Init,
       Records!NoLease, Store!NoLease, Records!NoBroadcast, Store!NoBroadcast,
       Records!Linked, Store!Linked, Records!Live, Store!Live,
       Records!NoEvidence, Store!NoEvidence

LEMMA SameCalls ==
  ASSUME NEW m, NEW o, NEW N, NEW x, NEW y
  PROVE  /\ Store!ReserveNotes(m, o, N) <=> Records!ReserveNotes(m, o, N)
         /\ Store!MarkProving(m, o) <=> Records!MarkProving(m, o)
         /\ \A signed : Store!MarkProofReady(m, o, x, signed, y)
                          <=> Records!MarkProofReady(m, o, x, signed, y)
         /\ Store!RenewLease(m, o, x) <=> Records!RenewLease(m, o, x)
         /\ Store!ReleaseReserved(o) <=> Records!ReleaseReserved(o)
         /\ Store!MarkManualReview(m, o, x) <=> Records!MarkManualReview(m, o, x)
         /\ \A signed, local : Store!MarkBroadcastAttempting(m, o, x, y, signed, local)
              <=> Records!MarkBroadcastAttempting(m, o, x, y, signed, local)
         /\ Store!MarkBroadcastRejected(m, o, x) <=> Records!MarkBroadcastRejected(m, o, x)
         /\ Store!MarkSubmitted(m, o, x, y) <=> Records!MarkSubmitted(m, o, x, y)
         /\ Store!MarkUnknown(m, o, x, y) <=> Records!MarkUnknown(m, o, x, y)
         /\ Store!MarkBroadcastFailed(m, o, x) <=> Records!MarkBroadcastFailed(m, o, x)
         /\ Store!RecoverExpiredProofReady(o, x) <=> Records!RecoverExpiredProofReady(o, x)
         /\ Store!MarkReplanRequired(m, o, x, y) <=> Records!MarkReplanRequired(m, o, x, y)
         /\ Store!ResolveManualReview(o, x) <=> Records!ResolveManualReview(o, x)
         /\ Store!ReconcileSpent(x, y) <=> Records!ReconcileSpent(x, y)
         /\ Store!Tick <=> Records!Tick
         /\ Store!Crash(m) <=> Records!Crash(m)
<1> USE DEF Records!NoRecord, Store!NoRecord, Records!NoLease, Store!NoLease,
            Records!Linked, Store!Linked, Records!Live, Store!Live,
            Records!AllIn, Store!AllIn, Records!Active, Store!Active,
            Records!Blocked, Store!Blocked, Records!HoldsLease, Store!HoldsLease,
            Records!OnLive, Store!OnLive, Records!MoveTo, Store!MoveTo,
            Records!DropLease, Store!DropLease
<1>1. Store!ReserveNotes(m, o, N) <=> Records!ReserveNotes(m, o, N)
  BY DEF Records!ReserveNotes, Store!ReserveNotes, Records!Fresh, Store!Fresh
<1>2. Store!MarkProving(m, o) <=> Records!MarkProving(m, o)
  BY DEF Records!MarkProving, Store!MarkProving
<1>3. ASSUME NEW signed
      PROVE  Store!MarkProofReady(m, o, x, signed, y)
               <=> Records!MarkProofReady(m, o, x, signed, y)
  BY DEF Records!MarkProofReady, Store!MarkProofReady, Records!WriteBroadcast,
         Store!WriteBroadcast, Records!AddEvidence, Store!AddEvidence
<1>4. Store!RenewLease(m, o, x) <=> Records!RenewLease(m, o, x)
  BY DEF Records!RenewLease, Store!RenewLease, Records!Later, Store!Later
<1>5. Store!ReleaseReserved(o) <=> Records!ReleaseReserved(o)
  BY DEF Records!ReleaseReserved, Store!ReleaseReserved
<1>6. Store!Tick <=> Records!Tick
  BY DEF Records!Tick, Store!Tick
<1>7. Store!Crash(m) <=> Records!Crash(m)
  BY DEF Records!Crash, Store!Crash
<1> USE DEF Records!WriteBroadcast, Store!WriteBroadcast,
            Records!AddEvidence, Store!AddEvidence,
            Records!SettleBroadcast, Store!SettleBroadcast,
            Records!LeaseExpired, Store!LeaseExpired,
            Records!LeaseAllows, Store!LeaseAllows,
            Records!LeaseRequired, Store!LeaseRequired,
            Records!ExpiredLeaseRecovery, Store!ExpiredLeaseRecovery,
            Records!CanTransition, Store!CanTransition,
            Records!AllowedTransitions, Store!AllowedTransitions,
            Records!Identities, Store!Identities,
            Records!HasBroadcastEvidence, Store!HasBroadcastEvidence,
            Records!ExactFailure, Store!ExactFailure,
            Records!NeedsFailure, Store!NeedsFailure,
            Records!Keeps, Store!Keeps, Records!Merge, Store!Merge,
            Records!Unsent, Store!Unsent, Records!Attempted, Store!Attempted,
            Records!AttemptDurable, Store!AttemptDurable,
            Records!AfterAttempt, Store!AfterAttempt
<1>8. Store!MarkManualReview(m, o, x) <=> Records!MarkManualReview(m, o, x)
  BY DEF Records!MarkManualReview, Store!MarkManualReview
<1>9. ASSUME NEW signed, NEW local
      PROVE  Store!MarkBroadcastAttempting(m, o, x, y, signed, local)
               <=> Records!MarkBroadcastAttempting(m, o, x, y, signed, local)
  BY DEF Records!MarkBroadcastAttempting, Store!MarkBroadcastAttempting
<1>10. Store!MarkBroadcastRejected(m, o, x) <=> Records!MarkBroadcastRejected(m, o, x)
  BY DEF Records!MarkBroadcastRejected, Store!MarkBroadcastRejected
<1>11. Store!MarkSubmitted(m, o, x, y) <=> Records!MarkSubmitted(m, o, x, y)
  BY DEF Records!MarkSubmitted, Store!MarkSubmitted
<1>12. Store!MarkUnknown(m, o, x, y) <=> Records!MarkUnknown(m, o, x, y)
  BY DEF Records!MarkUnknown, Store!MarkUnknown
<1>13. Store!MarkBroadcastFailed(m, o, x) <=> Records!MarkBroadcastFailed(m, o, x)
  BY DEF Records!MarkBroadcastFailed, Store!MarkBroadcastFailed
<1>14. Store!RecoverExpiredProofReady(o, x) <=> Records!RecoverExpiredProofReady(o, x)
  BY DEF Records!RecoverExpiredProofReady, Store!RecoverExpiredProofReady
<1>15. Store!MarkReplanRequired(m, o, x, y) <=> Records!MarkReplanRequired(m, o, x, y)
  BY DEF Records!MarkReplanRequired, Store!MarkReplanRequired
<1>16. Store!ResolveManualReview(o, x) <=> Records!ResolveManualReview(o, x)
  BY DEF Records!ResolveManualReview, Store!ResolveManualReview
<1>17. Store!ReconcileSpent(x, y) <=> Records!ReconcileSpent(x, y)
  BY DEF Records!ReconcileSpent, Store!ReconcileSpent, Records!PriorSuccess,
         Store!PriorSuccess, Records!Required, Store!Required, Records!Reconcilable,
         Store!Reconcilable, Records!NoEvidence, Store!NoEvidence, Records!Proves,
         Store!Proves, Records!OutcomeOf, Store!OutcomeOf
<1>18. QED
  BY <1>1, <1>2, <1>3, <1>4, <1>5, <1>6, <1>7, <1>8, <1>9, <1>10, <1>11, <1>12,
     <1>13, <1>14, <1>15, <1>16, <1>17

------------------------------------------------------------------------------
(* The variables and what a task is about.                                 *)

SignedPoint ==
  {"signed", "renewed", "unspent", "fresh", "marked", "sending", "waiting",
   "included", "unclear", "aborted_before_rpc", "check_tx_rejected",
   "asked", "hashed", "opaque"}

TaskTyped(t) ==
  /\ pc[t] # "idle" => op[t] \in Op
  /\ pc[t] \in SignedPoint => tx[t] \in Tx

Typed == EvmTypeOK /\ \A t \in Task : TaskTyped(t)

LEMMA TxIds == Tx \subseteq Records!TxId /\ 0 \in Records!TxId /\ Artifact \in Tx
BY RecordAssumption, CallAssumption DEF Tx, Records!TxId, Artifact

LEMMA StoreAssumptions == Records!StoreAssumption
BY RecordAssumption DEF Records!StoreAssumption

(* One step of a worker of the store, done by a task.                      *)
LEMMA WorkerCall ==
  ASSUME NEW m \in Manager, NEW o \in Op, Records!WorkerStep(m, o)
  PROVE  Records!Next
BY DEF Records!Next

LEMMA RenewCall ==
  ASSUME NEW t \in Task, NEW o \in Op, Renew(t, o)
  PROVE  Records!WorkerStep(SessionOf[t], o)
<1>1. Records!RenewLease(SessionOf[t], o, LeaseDuration)
  BY SameCalls DEF Renew
<1>2. LeaseDuration \in 1 .. LeaseDuration
  BY RecordAssumption
<1>3. QED
  BY <1>1, <1>2 DEF Records!WorkerStep

LEMMA TaskStore ==
  ASSUME Typed, NEW t \in Task, TaskStep(t)
  PROVE  Records!Next \/ UNCHANGED storeVars
<1> SessionOf[t] \in Manager
  BY CallAssumption
<1> DEFINE m == SessionOf[t]
<1>0. /\ pc[t] # "idle" => op[t] \in Op
      /\ tx[t] \in Records!TxId
      /\ pc[t] \in SignedPoint => tx[t] \in Tx
  BY SameReading DEF Typed, TaskTyped, EvmTypeOK
<1>1. CASE \E o \in Op, N \in SUBSET Note : Reserve(t, o, N)
  <2>1. PICK o \in Op, N \in SUBSET Note : Reserve(t, o, N)
    BY <1>1
  <2>2. Records!ReserveNotes(m, o, N)
    BY <2>1, SameCalls DEF Reserve
  <2>3. QED
    BY <2>2, WorkerCall DEF Records!WorkerStep
<1>2. CASE StartProving(t)
  BY <1>0, <1>2, SameCalls, WorkerCall DEF StartProving, Records!WorkerStep
<1>3. CASE FinishProof(t)
  <2>1. PICK payload \in 1 .. MaxPayload :
          Records!MarkProofReady(m, op[t], payload, TRUE, 0)
    BY <1>3, SameCalls DEF FinishProof
  <2>2. payload \in Records!PayloadId
    BY RecordAssumption DEF Records!PayloadId
  <2>3. QED
    BY <1>0, <1>3, <2>1, <2>2, TxIds, WorkerCall DEF FinishProof, Records!WorkerStep
<1>4. CASE PrepareFails(t) \/ Rollback(t) \/ WalletSigns(t) \/ WalletRejects(t)
           \/ CheckNullifiers(t) \/ CheckFreshness(t) \/ AbortBeforeRpc(t) \/ Send(t)
           \/ Answer(t) \/ WaitForTx(t) \/ Throw(t)
  BY <1>4 DEF PrepareFails, Rollback, WalletSigns, WalletRejects, CheckNullifiers,
              CheckFreshness, AbortBeforeRpc, Send, Answer, WaitForTx, Throw
<1>5. CASE ReleaseOwn(t)
  <2>1. Records!ReleaseReserved(op[t]) /\ op[t] \in Op
    BY <1>0, <1>5, SameCalls DEF ReleaseOwn
  <2>2. QED
    BY <2>1 DEF Records!Next, Records!OperatorStep
<1>6. CASE IsolateOwn(t)
  <2>1. PICK from \in Records!Status : Records!MarkManualReview(m, op[t], from)
    BY <1>6, SameCalls, SameReading DEF IsolateOwn
  <2>2. op[t] \in Op
    BY <1>0, <1>6 DEF IsolateOwn
  <2>3. QED
    BY <2>1, <2>2, WorkerCall DEF Records!WorkerStep
<1>7. CASE (\E o \in Op : Start(t, o)) \/ Heartbeat(t) \/ RenewAfterWallet(t)
  <2>1. \E o \in Op : Renew(t, o)
    BY <1>0, <1>7 DEF Start, Heartbeat, RenewAfterWallet
  <2>2. QED
    BY <2>1, RenewCall, WorkerCall
<1>8. CASE Mark(t)
  <2>1. Records!MarkBroadcastAttempting(m, op[t], tx[t], tx[t], TRUE, FALSE)
    BY <1>8, SameCalls DEF Mark
  <2>2. op[t] \in Op
    BY <1>0, <1>8 DEF Mark
  <2>3. QED
    BY <1>0, <2>1, <2>2, WorkerCall DEF Records!WorkerStep
<1>9. CASE RecordSubmitted(t)
  <2>1. Records!MarkSubmitted(m, op[t], tx[t], tx[t]) /\ op[t] \in Op
    BY <1>0, <1>9, SameCalls DEF RecordSubmitted
  <2>2. QED
    BY <1>0, <2>1, WorkerCall DEF Records!WorkerStep
<1>10. CASE RecordUnknown(t)
  <2>1. Records!MarkUnknown(m, op[t], tx[t], tx[t]) /\ op[t] \in Op
    BY <1>0, <1>10, SameCalls DEF RecordUnknown
  <2>2. QED
    BY <1>0, <2>1, WorkerCall DEF Records!WorkerStep
<1>11. CASE RecordRejection(t)
  <2>1. Records!MarkBroadcastRejected(m, op[t], pc[t])
    BY <1>11, SameCalls DEF RecordRejection
  <2>2. op[t] \in Op /\ pc[t] \in {"wallet_rejected", "aborted_before_rpc", "check_tx_rejected"}
    BY <1>0, <1>11 DEF RecordRejection, Refusal
  <2>3. QED
    BY <2>1, <2>2, WorkerCall DEF Records!WorkerStep
<1>12. QED
  BY <1>1, <1>2, <1>3, <1>4, <1>5, <1>6, <1>7, <1>8, <1>9, <1>10, <1>11 DEF TaskStep

LEMMA EvmTaskStore ==
  ASSUME Typed, NEW t \in Task, EvmTaskStep(t)
  PROVE  Records!Next \/ UNCHANGED storeVars
<1> SessionOf[t] \in Manager
  BY CallAssumption
<1> DEFINE m == SessionOf[t]
<1>0. /\ pc[t] # "idle" => op[t] \in Op
      /\ tx[t] \in Records!TxId
      /\ pc[t] \in SignedPoint => tx[t] \in Tx
  BY SameReading DEF Typed, TaskTyped, EvmTypeOK
<1>1. CASE EvmFinishProof(t)
  <2>1. PICK payload \in 1 .. MaxPayload :
          Records!MarkProofReady(m, op[t], payload, FALSE, Artifact)
    BY <1>1, SameCalls DEF EvmFinishProof
  <2>2. payload \in Records!PayloadId
    BY RecordAssumption DEF Records!PayloadId
  <2>3. QED
    BY <1>0, <1>1, <2>1, <2>2, TxIds, WorkerCall DEF EvmFinishProof, Records!WorkerStep
<1>2. CASE (\E o \in Op : EvmStart(t, o)) \/ EvmCheckNullifiers(t) \/ WalletRefuses(t)
           \/ WalletSends(t) \/ WalletAnswers(t) \/ EvmThrow(t)
  BY <1>2 DEF EvmStart, EvmCheckNullifiers, WalletRefuses, WalletSends, WalletAnswers, EvmThrow
<1>3. CASE EvmMark(t)
  <2>1. Records!MarkBroadcastAttempting(m, op[t], 0, Artifact, FALSE, FALSE)
    BY <1>3, SameCalls DEF EvmMark
  <2>2. op[t] \in Op
    BY <1>0, <1>3 DEF EvmMark
  <2>3. QED
    BY <2>1, <2>2, TxIds, WorkerCall DEF Records!WorkerStep
<1>4. CASE EvmRecordSubmitted(t)
  <2>1. Records!MarkSubmitted(m, op[t], tx[t], 0) /\ op[t] \in Op
    BY <1>0, <1>4, SameCalls DEF EvmRecordSubmitted
  <2>2. QED
    BY <1>0, <2>1, TxIds, WorkerCall DEF Records!WorkerStep
<1>5. CASE EvmRecordRejection(t)
  <2>1. Records!MarkBroadcastRejected(m, op[t], "wallet_rejected") /\ op[t] \in Op
    BY <1>0, <1>5, SameCalls DEF EvmRecordRejection
  <2>2. QED
    BY <2>1, WorkerCall DEF Records!WorkerStep
<1>6. CASE EvmIsolate(t)
  <2>1. PICK from \in Records!Status : Records!MarkManualReview(m, op[t], from)
    BY <1>6, SameCalls, SameReading DEF EvmIsolate
  <2>2. op[t] \in Op
    BY <1>0, <1>6 DEF EvmIsolate
  <2>3. QED
    BY <2>1, <2>2, WorkerCall DEF Records!WorkerStep
<1>7. QED
  BY <1>1, <1>2, <1>3, <1>4, <1>5, <1>6 DEF EvmTaskStep

LEMMA RecoveryStore ==
  ASSUME NEW o \in Op, RecoveryStep(o)
  PROVE  Records!Next
<1>1. CASE Cancel(o) \/ (\E k \in Tx : RecoverExpired(o, k))
           \/ (\E to \in Store!Status : Resolve(o, to))
  <2>1. Records!OperatorStep(o)
    BY <1>1, SameCalls, SameReading, TxIds
       DEF Cancel, RecoverExpired, Resolve, Records!OperatorStep
  <2>2. QED
    BY <2>1 DEF Records!Next
<1>2. CASE \E m \in Manager, k \in Tx : ReportFailure(m, o, k)
  <2>1. PICK m \in Manager, k \in Tx : Records!MarkBroadcastFailed(m, o, k)
    BY <1>2, SameCalls DEF ReportFailure
  <2>2. QED
    BY <2>1, TxIds, WorkerCall DEF Records!WorkerStep
<1>3. CASE \E m \in Manager, from \in Store!Status, k \in Store!TxId : Replan(m, o, from, k)
  <2>1. PICK m \in Manager, from \in Records!Status, k \in Records!TxId :
          Records!MarkReplanRequired(m, o, from, k)
    BY <1>3, SameCalls, SameReading DEF Replan
  <2>2. QED
    BY <2>1, WorkerCall DEF Records!WorkerStep
<1>4. CASE \E m \in Manager, from \in Store!Status : Isolate(m, o, from)
  <2>1. PICK m \in Manager, from \in Records!Status : Records!MarkManualReview(m, o, from)
    BY <1>4, SameCalls, SameReading DEF Isolate
  <2>2. QED
    BY <2>1, WorkerCall DEF Records!WorkerStep
<1>5. QED
  BY <1>1, <1>2, <1>3, <1>4 DEF RecoveryStep

LEMMA ReconcileStore ==
  ASSUME Typed, NEW S \in SUBSET spent, Reconcile(S)
  PROVE  Records!Next
<1>1. S \in SUBSET Note
  BY DEF Typed, EvmTypeOK
<1>2. PICK by \in [S -> UNION {Found(n) : n \in S}] :
        (\A n \in S : by[n] \in Found(n)) /\ Records!ReconcileSpent(S, by)
  BY SameCalls DEF Reconcile
<1>3. \A n \in S : Found(n) \subseteq Records!SpendEvidence
  BY SameReading DEF Found, Records!SpendEvidence, Tx
<1>4. by \in [S -> Records!SpendEvidence]
  BY <1>2, <1>3
<1>5. QED
  BY <1>1, <1>2, <1>4 DEF Records!Next

LEMMA StoreStep ==
  ASSUME Typed, [EvmNext]_vars
  PROVE  [Records!Next]_storeVars
<1>1. CASE \E t \in Task : TaskStep(t) \/ EvmTaskStep(t)
  BY <1>1, TaskStore, EvmTaskStore
<1>2. CASE \E o \in Op : RecoveryStep(o) \/ ChainStep(o) \/ Expire(o)
  BY <1>2, RecoveryStore DEF ChainStep, Include, FailTx, Expire
<1>3. CASE \E S \in SUBSET spent : Reconcile(S)
  BY <1>3, ReconcileStore
<1>4. CASE \E n \in Note : SpendElsewhere(n)
  BY <1>4 DEF SpendElsewhere
<1>5. CASE Tick \/ \E m \in Manager : Crash(m)
  BY <1>5, SameCalls DEF Tick, Crash, Records!Next
<1>6. CASE UNCHANGED vars
  BY <1>6 DEF vars
<1>7. QED
  BY <1>1, <1>2, <1>3, <1>4, <1>5, <1>6 DEF EvmNext, Next

LEMMA StoreTyping ==
  ASSUME Typed, [EvmNext]_vars
  PROVE  Store!TypeOK' /\ Records!TypeOK /\ Records!TypeOK'
<1>1. Records!TypeOK
  BY SameReading DEF Typed, EvmTypeOK
<1>2. [Records!Next]_Records!vars
  BY StoreStep DEF storeVars, Records!vars
<1>3. Records!TypeOK'
  BY <1>1, <1>2, Records!NextType, StoreAssumptions
<1>4. Store!TypeOK' <=> Records!TypeOK'
  BY SameReading, PTL
<1>5. QED
  BY <1>1, <1>3, <1>4

(* What a step leaves in the variables of the tasks.                       *)
TasksTyped ==
  /\ pc \in [Task -> Point \cup EvmPoint]
  /\ op \in [Task -> Op \cup {NoOp}]
  /\ tx \in [Task -> Store!TxId]
  /\ \A t \in Task : TaskTyped(t)

ChainTyped == net \in [Op -> [Tx -> Net]] /\ expired \subseteq Op /\ spent \subseteq Note

LEMMA GotoTyped ==
  ASSUME TasksTyped, NEW t \in Task, NEW point \in Point \cup EvmPoint, Goto(t, point),
         pc[t] # "idle", point \in SignedPoint => tx[t] \in Tx
  PROVE  TasksTyped'
<1>1. pc' \in [Task -> Point \cup EvmPoint]
  BY DEF TasksTyped, Goto
<1>2. ASSUME NEW u \in Task
      PROVE  TaskTyped(u)'
  BY DEF TasksTyped, TaskTyped, Goto
<1>3. QED
  BY <1>1, <1>2 DEF TasksTyped, Goto

LEMMA FinishTyped ==
  ASSUME TasksTyped, NEW t \in Task, Finish(t)
  PROVE  TasksTyped'
<1>1. pc' \in [Task -> Point \cup EvmPoint]
  BY DEF TasksTyped, Finish, Point
<1>2. op' \in [Task -> Op \cup {NoOp}] /\ tx' \in [Task -> Store!TxId]
  BY TxIds, SameReading DEF TasksTyped, Finish
<1>3. ASSUME NEW u \in Task
      PROVE  TaskTyped(u)'
  BY DEF TasksTyped, TaskTyped, Finish, SignedPoint
<1>4. QED
  BY <1>1, <1>2, <1>3 DEF TasksTyped

LEMMA SameTasksTyped ==
  ASSUME TasksTyped, UNCHANGED taskVars
  PROVE  TasksTyped'
BY DEF TasksTyped, TaskTyped, taskVars

LEMMA BeginTyped ==
  ASSUME TasksTyped, NEW t \in Task, NEW o \in Op,
         NEW point \in {"reserved", "signing", "checking"},
         pc' = [pc EXCEPT ![t] = point], op' = [op EXCEPT ![t] = o], UNCHANGED tx
  PROVE  TasksTyped'
<1>1. pc' \in [Task -> Point \cup EvmPoint]
  BY DEF TasksTyped, Point, EvmPoint
<1>2. op' \in [Task -> Op \cup {NoOp}]
  BY DEF TasksTyped
<1>3. ASSUME NEW u \in Task
      PROVE  TaskTyped(u)'
  BY DEF TasksTyped, TaskTyped, SignedPoint
<1>4. QED
  BY <1>1, <1>2, <1>3 DEF TasksTyped

LEMMA SignTyped ==
  ASSUME TasksTyped, NEW t \in Task, NEW k \in Tx, NEW point \in {"signed", "asked"},
         pc[t] # "idle",
         pc' = [pc EXCEPT ![t] = point], tx' = [tx EXCEPT ![t] = k], UNCHANGED op
  PROVE  TasksTyped'
<1>1. pc' \in [Task -> Point \cup EvmPoint]
  BY DEF TasksTyped, Point, EvmPoint
<1>2. tx' \in [Task -> Store!TxId]
  BY TxIds, SameReading DEF TasksTyped
<1>3. ASSUME NEW u \in Task
      PROVE  TaskTyped(u)'
  BY DEF TasksTyped, TaskTyped
<1>4. QED
  BY <1>1, <1>2, <1>3 DEF TasksTyped

LEMMA TaskStepTyped ==
  ASSUME TasksTyped, NEW t \in Task, TaskStep(t)
  PROVE  TasksTyped'
<1>0. pc[t] \in SignedPoint => tx[t] \in Tx
  BY DEF TasksTyped, TaskTyped
<1>1. CASE (\E o \in Op, N \in SUBSET Note : Reserve(t, o, N)) \/ \E o \in Op : Start(t, o)
  BY <1>1, BeginTyped DEF Reserve, Start
<1>2. CASE StartProving(t) \/ PrepareFails(t) \/ WalletRejects(t)
  BY <1>2, GotoTyped DEF StartProving, PrepareFails, WalletRejects, Point, SignedPoint
<1>3. CASE FinishProof(t) \/ ReleaseOwn(t) \/ IsolateOwn(t) \/ RecordSubmitted(t)
           \/ RecordUnknown(t) \/ RecordRejection(t) \/ Throw(t)
  BY <1>3, FinishTyped DEF FinishProof, ReleaseOwn, IsolateOwn, RecordSubmitted,
                           RecordUnknown, RecordRejection, Throw
<1>4. CASE Rollback(t)
  BY <1>4, GotoTyped, FinishTyped DEF Rollback, Point, SignedPoint
<1>5. CASE Heartbeat(t)
  BY <1>5, SameTasksTyped DEF Heartbeat
<1>6. CASE WalletSigns(t)
  BY <1>6, SignTyped DEF WalletSigns
<1>7. CASE RenewAfterWallet(t) \/ Mark(t) \/ AbortBeforeRpc(t) \/ Send(t)
  BY <1>0, <1>7, GotoTyped DEF RenewAfterWallet, Mark, AbortBeforeRpc, Send, Point, SignedPoint
<1>8. CASE CheckNullifiers(t) \/ CheckFreshness(t)
  BY <1>0, <1>8, GotoTyped, FinishTyped DEF CheckNullifiers, CheckFreshness, Point, SignedPoint
<1>9. CASE Answer(t) \/ WaitForTx(t)
  BY <1>0, <1>9, GotoTyped DEF Answer, WaitForTx, Point, SignedPoint
<1>10. QED
  BY <1>1, <1>2, <1>3, <1>4, <1>5, <1>6, <1>7, <1>8, <1>9 DEF TaskStep

LEMMA EvmTaskStepTyped ==
  ASSUME TasksTyped, NEW t \in Task, EvmTaskStep(t)
  PROVE  TasksTyped'
<1>0. pc[t] \in SignedPoint => tx[t] \in Tx
  BY DEF TasksTyped, TaskTyped
<1>1. CASE \E o \in Op : EvmStart(t, o)
  BY <1>1, BeginTyped DEF EvmStart
<1>2. CASE EvmFinishProof(t) \/ EvmRecordSubmitted(t) \/ EvmRecordRejection(t)
           \/ EvmIsolate(t) \/ EvmThrow(t)
  BY <1>2, FinishTyped DEF EvmFinishProof, EvmRecordSubmitted, EvmRecordRejection,
                           EvmIsolate, EvmThrow
<1>3. CASE EvmCheckNullifiers(t)
  BY <1>3, GotoTyped, FinishTyped DEF EvmCheckNullifiers, EvmPoint, SignedPoint
<1>4. CASE EvmMark(t) \/ WalletRefuses(t)
  BY <1>4, GotoTyped DEF EvmMark, WalletRefuses, EvmPoint, SignedPoint
<1>5. CASE WalletSends(t)
  BY <1>5, SignTyped DEF WalletSends
<1>6. CASE WalletAnswers(t)
  BY <1>0, <1>6, GotoTyped DEF WalletAnswers, EvmPoint, SignedPoint
<1>7. QED
  BY <1>1, <1>2, <1>3, <1>4, <1>5, <1>6 DEF EvmTaskStep

LEMMA CrashTyped ==
  ASSUME TasksTyped, NEW m \in Manager, Crash(m)
  PROVE  TasksTyped'
<1>1. pc' \in [Task -> Point \cup EvmPoint]
  BY DEF TasksTyped, Crash, Point
<1>2. op' \in [Task -> Op \cup {NoOp}]
  BY DEF TasksTyped, Crash
<1>3. tx' \in [Task -> Store!TxId]
  BY TxIds, SameReading DEF TasksTyped, Crash
<1>4. ASSUME NEW u \in Task
      PROVE  TaskTyped(u)'
  BY DEF TasksTyped, TaskTyped, Crash, SignedPoint
<1>5. QED
  BY <1>1, <1>2, <1>3, <1>4 DEF TasksTyped

LEMMA OthersKeepTasks ==
  ASSUME NEW o \in Op, RecoveryStep(o) \/ ChainStep(o) \/ Expire(o)
  PROVE  UNCHANGED taskVars
BY DEF RecoveryStep, Cancel, ReportFailure, RecoverExpired, Replan, Isolate, Resolve,
       ChainStep, Include, FailTx, Expire

LEMMA TasksStep ==
  ASSUME TasksTyped, [EvmNext]_vars
  PROVE  TasksTyped'
<1>1. CASE \E t \in Task : TaskStep(t) \/ EvmTaskStep(t)
  BY <1>1, TaskStepTyped, EvmTaskStepTyped
<1>2. CASE \E o \in Op : RecoveryStep(o) \/ ChainStep(o) \/ Expire(o)
  BY <1>2, OthersKeepTasks, SameTasksTyped
<1>3. CASE (\E S \in SUBSET spent : Reconcile(S)) \/ (\E n \in Note : SpendElsewhere(n))
           \/ Tick \/ UNCHANGED vars
  BY <1>3, SameTasksTyped DEF Reconcile, SpendElsewhere, Tick, vars
<1>4. CASE \E m \in Manager : Crash(m)
  BY <1>4, CrashTyped
<1>5. QED
  BY <1>1, <1>2, <1>3, <1>4 DEF EvmNext, Next

------------------------------------------------------------------------------
(* What a step may do on the chain.                                        *)

(* The next step of a task here gives a transaction to a node.             *)
Boundary == {"marked", "asking"}

GivenBy(t, o, k) ==
  /\ pc[t] \in Boundary /\ pc'[t] \in {"sending", "asked"}
  /\ op[t] = o
  /\ pc[t] = "marked" => tx[t] = k
  /\ pc[t] = "asking" => tx'[t] = k

Moves(o, k) ==
  \/ net'[o][k] = net[o][k]
  \/ /\ net[o][k] = "unsent" /\ net'[o][k] \in {"pending", "refused", "lost"}
     /\ \E t \in Task : GivenBy(t, o, k)
  \/ net[o][k] = "pending" /\ net'[o][k] \in {"failed", "lost"}
  \/ net[o][k] = "pending" /\ net'[o][k] = "included" /\ o \notin expired

ChainMoves ==
  /\ \A o \in Op, k \in Tx : Moves(o, k)
  /\ \A o \in Op : \A k1, k2 \in Tx :
       net'[o][k1] # net[o][k1] /\ net'[o][k2] # net[o][k2] => k1 = k2
  /\ expired \subseteq expired'

LEMMA SameChain ==
  ASSUME ChainTyped, UNCHANGED <<net, expired>>
  PROVE  ChainMoves
BY DEF ChainMoves, Moves

LEMMA SendMoves ==
  ASSUME TasksTyped, ChainTyped, NEW t \in Task, Send(t) \/ WalletSends(t)
  PROVE  ChainTyped' /\ ChainMoves
<1>0. op[t] \in Op /\ (pc[t] = "marked" => tx[t] \in Tx)
  BY DEF TasksTyped, TaskTyped, Send, WalletSends, SignedPoint
<1>1. PICK k \in Tx, fate \in {"pending", "refused", "lost"} :
        /\ net[op[t]][k] = "unsent"
        /\ net' = [net EXCEPT ![op[t]][k] = fate]
        /\ GivenBy(t, op[t], k)
  <2>1. CASE Send(t)
    BY <1>0, <2>1 DEF Send, Goto, GivenBy, Boundary, TasksTyped
  <2>2. CASE WalletSends(t)
    BY <2>2 DEF WalletSends, GivenBy, Boundary, TasksTyped
  <2>3. QED
    BY <2>1, <2>2
<1>2. fate \in Net
  BY DEF Net
<1>3. /\ net' \in [Op -> [Tx -> Net]] /\ net'[op[t]][k] = fate
      /\ \A p \in Op, j \in Tx : p # op[t] \/ j # k => net'[p][j] = net[p][j]
  BY <1>0, <1>1, <1>2 DEF ChainTyped
<1>4. UNCHANGED <<expired, spent>>
  BY DEF Send, WalletSends
<1>5. \A p \in Op, j \in Tx : Moves(p, j)
  BY <1>1, <1>3 DEF Moves
<1>6. QED
  BY <1>3, <1>4, <1>5 DEF ChainMoves, ChainTyped

LEMMA IncludeMoves ==
  ASSUME ChainTyped, NEW o \in Op, NEW k \in Tx, Include(o, k) \/ FailTx(o, k)
  PROVE  ChainTyped' /\ ChainMoves
<1>1. PICK fate \in {"included", "failed", "lost"} :
        /\ net' = [net EXCEPT ![o][k] = fate]
        /\ fate = "included" => o \notin expired
  BY DEF Include, FailTx
<1>2. fate \in Net /\ net[o][k] = "pending"
  BY DEF Net, Include, FailTx
<1>3. /\ net' \in [Op -> [Tx -> Net]] /\ net'[o][k] = fate
      /\ \A p \in Op, j \in Tx : p # o \/ j # k => net'[p][j] = net[p][j]
  BY <1>1, <1>2 DEF ChainTyped
<1>4. expired' = expired /\ spent' \subseteq Note
  BY DEF Include, FailTx, ChainTyped, Inputs, Store!Linked
<1>5. \A p \in Op, j \in Tx : Moves(p, j)
  BY <1>1, <1>2, <1>3 DEF Moves
<1>6. QED
  BY <1>3, <1>4, <1>5 DEF ChainMoves, ChainTyped

LEMMA TaskKeepsChain ==
  ASSUME NEW t \in Task, TaskStep(t) \/ EvmTaskStep(t)
  PROVE  Send(t) \/ WalletSends(t) \/ UNCHANGED chainVars
<1>1. CASE TaskStep(t)
  BY <1>1 DEF TaskStep, Reserve, StartProving, FinishProof, PrepareFails, Rollback,
              ReleaseOwn, IsolateOwn, Start, Heartbeat, WalletSigns, WalletRejects,
              RenewAfterWallet, CheckNullifiers, CheckFreshness, Mark, AbortBeforeRpc,
              Answer, WaitForTx, RecordSubmitted, RecordUnknown, RecordRejection, Throw
<1>2. CASE EvmTaskStep(t)
  BY <1>2 DEF EvmTaskStep, EvmFinishProof, EvmStart, EvmCheckNullifiers, EvmMark,
              WalletRefuses, WalletAnswers, EvmRecordSubmitted, EvmRecordRejection,
              EvmIsolate, EvmThrow
<1>3. QED
  BY <1>1, <1>2

LEMMA ChainSteps ==
  ASSUME TasksTyped, ChainTyped, [EvmNext]_vars
  PROVE  ChainTyped' /\ ChainMoves
<1>0. ASSUME UNCHANGED chainVars PROVE ChainTyped' /\ ChainMoves
  BY <1>0, SameChain DEF chainVars, ChainTyped
<1>1. CASE \E t \in Task : TaskStep(t) \/ EvmTaskStep(t)
  BY <1>0, <1>1, TaskKeepsChain, SendMoves
<1>2. CASE \E o \in Op : RecoveryStep(o)
  BY <1>0, <1>2 DEF RecoveryStep, Cancel, ReportFailure, RecoverExpired, Replan, Isolate,
                    Resolve
<1>3. CASE \E o \in Op : ChainStep(o)
  BY <1>3, IncludeMoves DEF ChainStep
<1>4. CASE \E o \in Op : Expire(o)
  BY <1>4 DEF Expire, ChainTyped, ChainMoves, Moves
<1>5. CASE \E n \in Note : SpendElsewhere(n)
  BY <1>5 DEF SpendElsewhere, ChainTyped, ChainMoves, Moves
<1>6. CASE (\E S \in SUBSET spent : Reconcile(S)) \/ Tick \/ (\E m \in Manager : Crash(m))
           \/ UNCHANGED vars
  BY <1>0, <1>6 DEF Reconcile, Tick, Crash, vars
<1>7. QED
  BY <1>1, <1>2, <1>3, <1>4, <1>5, <1>6 DEF EvmNext, Next

LEMMA TypedParts == Typed <=> Store!TypeOK /\ TasksTyped /\ ChainTyped
BY DEF Typed, EvmTypeOK, TasksTyped, ChainTyped

LEMMA TypedStep ==
  ASSUME Typed, [EvmNext]_vars
  PROVE  Typed'
<1>1. Store!TypeOK' /\ TasksTyped' /\ ChainTyped'
  BY StoreTyping, TasksStep, ChainSteps, TypedParts
<1>2. QED
  BY <1>1 DEF Typed, EvmTypeOK, TasksTyped, ChainTyped

LEMMA TypedInit == Init => Typed
<1> SUFFICES ASSUME Init PROVE Typed
  OBVIOUS
<1>1. Store!TypeOK
  <2>1. Records!Init
    BY SameReading DEF Init
  <2>2. Records!TypeOK
    BY <2>1, StoreAssumptions
       DEF Records!Init, Records!TypeOK, Records!StatusType, Records!LeaseType,
           Records!BroadcastType, Records!EvidenceType, Records!OutcomeType,
           Records!ClaimType, Records!Lease, Records!NoLease, Records!Broadcast,
           Records!NoBroadcast, Records!TxId, Records!PayloadId,
           Records!OperationStatus, Records!StoreAssumption
  <2>3. QED
    BY <2>2, SameReading
<1>2. TasksTyped
  BY TxIds, SameReading DEF Init, TasksTyped, TaskTyped, SignedPoint, Point
<1>3. ChainTyped
  BY DEF Init, ChainTyped, Net
<1>4. QED
  BY <1>1, <1>2, <1>3, TypedParts

(* The variables of the workflow keep their ranges: a task is at a known   *)
(* await of a known operation with a transaction it signed, whatever calls *)
(* overlap, fail or are cut off by a crash.                                *)
THEOREM BroadcastTyping == EvmSpec => []EvmTypeOK
<1>1. Typed /\ [EvmNext]_vars => Typed'
  BY TypedStep
<1>2. Typed => EvmTypeOK
  BY DEF Typed
<1>3. QED
  BY TypedInit, <1>1, <1>2, PTL DEF EvmSpec

(* Every run of the two transports is, for the records, a run of the store:*)
(* what the store guarantees it guarantees under them.                     *)
THEOREM BroadcastsUseTheStore == EvmSpec => Records!Spec
<1>1. Init => Records!Init
  BY SameReading DEF Init
<1>2. Typed /\ [EvmNext]_vars => [Records!Next]_Records!vars
  BY StoreStep DEF storeVars, Records!vars
<1>3. Typed /\ [EvmNext]_vars => Typed'
  BY TypedStep
<1>4. QED
  BY TypedInit, <1>1, <1>2, <1>3, PTL DEF EvmSpec, Records!Spec

------------------------------------------------------------------------------
(* The inductive invariant: what every await of a task says of the records *)
(* and of the chain.                                                       *)

BeforeMark == {"signing", "signed", "renewed", "unspent", "fresh", "wallet_rejected"}
AfterMark ==
  {"marked", "sending", "waiting", "included", "unclear", "aborted_before_rpc",
   "check_tx_rejected"}
CosmosCall == BeforeMark \cup AfterMark
EvmAfterMark == {"asking", "asked", "hashed", "opaque", "declined"}

(* No transaction of o was ever given to a node.                           *)
Silent(o) == \A k \in Tx : net[o][k] = "unsent"

(* Every input of o carries the attempt with the k-th transaction, or the  *)
(* attempt with the transaction an EVM wallet is asked for.                *)
Marked(o, k) ==
  \A n \in Inputs(o) :
    LET b == broadcast[o][n]
    IN  b.count >= 1 /\ b.submitted = k /\ b.bytes = k /\ b.signDoc
Bound(o) == \A n \in Inputs(o) : broadcast[o][n].bytes = Artifact
Counted(o) == \A n \in Inputs(o) : broadcast[o][n].count >= 1

Unrefused(o) == \A n \in Inputs(o) : "broadcast_rejected" \notin evidence[o][n]

(* A call at point p about payment o with transaction k.                   *)
FitsAt(p, o, k) ==
  /\ p # "idle" => Inputs(o) # {}
  /\ p \in CosmosCall => o \notin EvmOp
  /\ p \in AfterMark => Marked(o, k)
  /\ p \in EvmPoint => o \in EvmOp /\ Bound(o)
  /\ p \in EvmAfterMark => Counted(o)
  /\ p \in {"asked", "hashed", "opaque"} => net[o][k] # "unsent"
  /\ p = "included" => net[o][k] = "included"
  /\ p = "check_tx_rejected" => net[o][k] = "refused"
  /\ p \in Boundary \cup {"declined"} => Silent(o)
  /\ p \in BeforeMark \cup {"aborted_before_rpc"} /\ o \notin AsksAgain => Silent(o)
  /\ p = "asking" => Unrefused(o)

TaskFits(t) == FitsAt(pc[t], op[t], tx[t])

(* Two calls for one payment: one of them at most is past its mark and not *)
(* yet past its RPC, and a payment asked for once has one call.            *)
CallsFit(t, u) ==
  t # u /\ op[t] = op[u] =>
    /\ pc[t] \in Boundary => pc[u] \notin Boundary \cup {"declined"}
    /\ pc[t] \in CosmosCall /\ pc[u] \in CosmosCall => op[t] \in AsksAgain

RecordFits(o, n) ==
  LET b == broadcast[o][n]
      refused == "broadcast_rejected" \in evidence[o][n]
  IN  /\ o \in EvmOp =>
           /\ ~b.signDoc
           /\ b.submitted # 0 => net[o][b.submitted] # "unsent"
           /\ refused => n \in Inputs(o) /\ b.count >= 1 /\ Silent(o)
      /\ o \notin EvmOp =>
           /\ b.submitted = b.bytes
           /\ status[o][n] = "Submitted" =>
                b.submitted # 0 /\ net[o][b.submitted] = "included"

NetFits(o) ==
  /\ \A k \in Tx : net[o][k] # "unsent" =>
       /\ Inputs(o) # {}
       /\ o \notin EvmOp => Marked(o, k)
       /\ o \in EvmOp => Bound(o) /\ Counted(o)
  /\ \A k1, k2 \in Tx : net[o][k1] # "unsent" /\ net[o][k2] # "unsent" => k1 = k2

(* A payment that may still happen, or is about to be sent.                *)
AtBoundary(o) == \E t \in Task : pc[t] \in Boundary /\ op[t] = o
Open(o) == (\E k \in Tx : MayPay(o, k)) \/ (o \notin expired /\ AtBoundary(o))

HeldFits(o) ==
  Open(o) => \A n \in Inputs(o) : status[o][n] \in Holding \/ Excused(o, n)

PayFits(p, q) ==
  p # q /\ Open(p) /\ Open(q) =>
    \A n \in Inputs(p) \cap Inputs(q) : Excused(p, n) \/ Excused(q, n)

ClaimsFit == \A m \in Manager : \A o \in claim[m] : Inputs(o) # {}

IInv ==
  /\ Typed
  /\ \A t \in Task : TaskFits(t)
  /\ \A t, u \in Task : CallsFit(t, u)
  /\ \A o \in Op, n \in Note : RecordFits(o, n)
  /\ \A o \in Op : NetFits(o) /\ HeldFits(o)
  /\ \A p, q \in Op : PayFits(p, q)
  /\ ClaimsFit

------------------------------------------------------------------------------
(* What every step leaves as it was.                                       *)

InputsKept(o) == Inputs(o) # {} => Inputs(o)' = Inputs(o)

RecordKept(o, n) ==
  LET b == broadcast[o][n]
      b2 == broadcast'[o][n]
  IN  /\ b.bytes # 0 => b2.bytes = b.bytes
      /\ b.submitted # 0 => b2.submitted = b.submitted
      /\ b.signDoc => b2.signDoc
      /\ b.count <= b2.count
      /\ evidence[o][n] \subseteq evidence'[o][n]

RecordsKept ==
  /\ \A o \in Op : InputsKept(o)
  /\ \A o \in Op, n \in Note : RecordKept(o, n)

LEMMA InputsLinked ==
  ASSUME NEW o
  PROVE  Inputs(o) = Records!Linked(o) /\ Inputs(o)' = Records!Linked(o)'
BY DEF Inputs, Store!Linked, Records!Linked, Store!NoRecord, Records!NoRecord

LEMMA StepKeepsRecords ==
  ASSUME Typed, [EvmNext]_vars
  PROVE  RecordsKept
<1>1. Records!TypeOK /\ [Records!Next]_Records!vars
  BY StoreTyping, StoreStep DEF storeVars, Records!vars
<1>2. ASSUME NEW o \in Op
      PROVE  InputsKept(o)
  <2>1. Records!Linked(o) # {} => Records!Linked(o)' = Records!Linked(o)
    BY <1>1, Records!InputsAreFixed, StoreAssumptions DEF Records!TypeOK
  <2>2. QED
    BY <2>1, InputsLinked DEF InputsKept
<1>3. ASSUME NEW o \in Op, NEW n \in Note
      PROVE  RecordKept(o, n)
  <2>1. Records!RecordStep(o, n)
    BY <1>1, Records!NextRecords, StoreAssumptions DEF Records!RecordsStep
  <2>2. /\ Records!KeepsIdentity(broadcast[o][n], broadcast'[o][n])
        /\ broadcast[o][n].count <= broadcast'[o][n].count
        /\ evidence[o][n] \subseteq evidence'[o][n]
    BY <1>1, <2>1, Records!RecordStepKeeps, StoreAssumptions
  <2>3. QED
    BY <2>2 DEF RecordKept, Records!KeepsIdentity
<1>4. QED
  BY <1>2, <1>3 DEF RecordsKept

------------------------------------------------------------------------------
(* What a step writes in the records, and who did it.                      *)

Rejecter == Refusal \cup {"declined"}

Changes(o, n) ==
  LET b == broadcast[o][n]
      b2 == broadcast'[o][n]
  IN  /\ o \in EvmOp /\ b2.signDoc => b.signDoc
      /\ o \in EvmOp /\ b2.submitted # b.submitted =>
           \E t \in Task : pc[t] = "hashed" /\ op[t] = o /\ tx[t] = b2.submitted
      /\ o \notin EvmOp /\ b.submitted = b.bytes => b2.submitted = b2.bytes
      /\ o \notin EvmOp /\ status'[o][n] = "Submitted" /\ status[o][n] # "Submitted" =>
           n \in Inputs(o) /\ \E t \in Task : pc[t] = "included" /\ op[t] = o
      /\ ~Records!NotRefused(o, n) =>
           /\ n \in Inputs(o) /\ UNCHANGED net
           /\ \E t \in Task : pc[t] \in Rejecter /\ op[t] = o

LEMMA QuietChanges ==
  ASSUME NEW o, NEW n, Records!Quiet(o, n)
  PROVE  Changes(o, n)
BY DEF Changes, Records!Quiet, Records!SameIds

LEMMA IdleChanges ==
  ASSUME UNCHANGED storeVars, NEW o, NEW n
  PROVE  Changes(o, n) /\ Records!StaysSecured(o, n)
<1>1. Records!Untouched(o, n)
  BY Records!IdleCall, StoreAssumptions DEF storeVars
<1>2. QED
  BY <1>1, QuietChanges DEF Records!Untouched, Records!StaysSecured, Records!SameStatus

LEMMA LiveInputs ==
  ASSUME NEW o
  PROVE  Records!Live(o) \subseteq Inputs(o) /\ Inputs(o) \subseteq Note
BY DEF Inputs, Store!Linked, Records!Live, Records!Linked, Store!NoRecord, Records!NoRecord

LEMMA RenewChanges ==
  ASSUME NEW t \in Task, NEW p \in Op, Renew(t, p), NEW o, NEW n
  PROVE  Changes(o, n) /\ Records!StaysSecured(o, n)
<1>1. Records!RenewLease(SessionOf[t], p, LeaseDuration)
  BY SameCalls DEF Renew
<1>2. Records!Untouched(o, n)
  BY <1>1, Records!IdleCall, StoreAssumptions DEF Records!RenewLease
<1>3. QED
  BY <1>2, QuietChanges DEF Records!Untouched, Records!StaysSecured, Records!SameStatus

LEMMA TaskChanges ==
  ASSUME Typed, \A u \in Task : TaskFits(u), NEW t \in Task, TaskStep(t),
         NEW o \in Op, NEW n \in Note
  PROVE  Changes(o, n) /\ (RecordRejection(t) \/ Records!StaysSecured(o, n))
<1> SessionOf[t] \in Manager
  BY CallAssumption
<1> DEFINE m == SessionOf[t]
<1>0. /\ pc[t] # "idle" => op[t] \in Op
      /\ tx[t] \in Records!TxId
      /\ pc[t] \in SignedPoint => tx[t] \in Tx
      /\ pc[t] \in CosmosCall => op[t] \notin EvmOp
      /\ Records!TypeOK
  BY SameReading DEF Typed, TaskTyped, EvmTypeOK, TaskFits, FitsAt
<1>1. CASE \E p \in Op, N \in SUBSET Note : Reserve(t, p, N)
  <2>1. PICK p \in Op, N \in SUBSET Note : Records!ReserveNotes(m, p, N)
    BY <1>1, SameCalls DEF Reserve
  <2>2. QED
    BY <1>0, <2>1, Records!ReserveCall, StoreAssumptions, QuietChanges
<1>2. CASE StartProving(t) \/ ReleaseOwn(t)
  <2>1. op[t] \in Op /\ (Records!MarkProving(m, op[t]) \/ Records!ReleaseReserved(op[t]))
    BY <1>0, <1>2, SameCalls DEF StartProving, ReleaseOwn
  <2>2. QED
    BY <1>0, <2>1, Records!EarlyCall, StoreAssumptions, QuietChanges
<1>3. CASE FinishProof(t)
  <2>1. op[t] \in Op /\ op[t] \notin EvmOp
    BY <1>0, <1>3 DEF FinishProof
  <2>2. PICK payload \in 1 .. MaxPayload :
          Records!MarkProofReady(m, op[t], payload, TRUE, 0)
    BY <1>3, SameCalls DEF FinishProof
  <2>3. /\ Records!StaysSecured(o, n) /\ Records!NotRefused(o, n)
        /\ status'[o][n] = "Submitted" => status[o][n] = "Submitted"
        /\ broadcast'[o][n].submitted = broadcast[o][n].submitted
        /\ broadcast'[o][n].bytes = broadcast[o][n].bytes
        /\ broadcast'[o][n].signDoc => broadcast[o][n].signDoc \/ o = op[t]
    BY <1>0, <2>1, <2>2, Records!CosmosProofCall, StoreAssumptions
  <2>4. QED
    BY <2>1, <2>3 DEF Changes
<1>4. CASE PrepareFails(t) \/ Rollback(t) \/ WalletSigns(t) \/ WalletRejects(t)
           \/ CheckNullifiers(t) \/ CheckFreshness(t) \/ AbortBeforeRpc(t) \/ Send(t)
           \/ Answer(t) \/ WaitForTx(t) \/ Throw(t)
  BY <1>4, IdleChanges
     DEF PrepareFails, Rollback, WalletSigns, WalletRejects, CheckNullifiers,
         CheckFreshness, AbortBeforeRpc, Send, Answer, WaitForTx, Throw
<1>5. CASE IsolateOwn(t)
  <2>1. PICK from \in Records!Status : Records!MarkManualReview(m, op[t], from)
    BY <1>5, SameCalls, SameReading DEF IsolateOwn
  <2>2. op[t] \in Op
    BY <1>0, <1>5 DEF IsolateOwn
  <2>3. QED
    BY <1>0, <2>1, <2>2, Records!ReviewCall, StoreAssumptions, QuietChanges
<1>6. CASE (\E p \in Op : Start(t, p)) \/ Heartbeat(t) \/ RenewAfterWallet(t)
  <2>1. PICK p \in Op : Renew(t, p)
    BY <1>0, <1>6 DEF Start, Heartbeat, RenewAfterWallet
  <2>2. QED
    BY <2>1, RenewChanges
<1>7. CASE Mark(t)
  <2>0. op[t] \in Op /\ op[t] \notin EvmOp /\ tx[t] # 0
    BY <1>0, <1>7 DEF Mark, CosmosCall, BeforeMark, SignedPoint, Tx
  <2>1. PICK signed \in BOOLEAN, local \in BOOLEAN :
          Records!MarkBroadcastAttempting(m, op[t], tx[t], tx[t], signed, local)
    BY <1>7, SameCalls DEF Mark
  <2>2. /\ Records!SameStatus(o, n) /\ Records!NotRefused(o, n)
        /\ ~(o = op[t] /\ n \in Records!Live(o)) => Records!SameIds(o, n)
        /\ o = op[t] /\ n \in Records!Live(o) =>
             broadcast'[o][n].submitted = tx[t] /\ broadcast'[o][n].bytes = tx[t]
    BY <1>0, <2>0, <2>1, Records!AttemptCall, StoreAssumptions
  <2>3. QED
    BY <2>0, <2>2 DEF Changes, Records!SameIds, Records!SameStatus, Records!StaysSecured
<1>8. CASE RecordSubmitted(t) \/ RecordUnknown(t)
  <2>1. /\ \/ Records!MarkSubmitted(m, op[t], tx[t], tx[t]) /\ pc[t] = "included"
           \/ Records!MarkUnknown(m, op[t], tx[t], tx[t])
        /\ op[t] \in Op /\ op[t] \notin EvmOp
    BY <1>0, <1>8, SameCalls DEF RecordSubmitted, RecordUnknown, CosmosCall, AfterMark
  <2>2. /\ Records!StaysSecured(o, n) /\ Records!NotRefused(o, n)
        /\ ~(o = op[t] /\ n \in Records!Live(o)) =>
             Records!SameIds(o, n) /\ Records!SameStatus(o, n)
        /\ o = op[t] /\ n \in Records!Live(o) =>
             /\ Records!MarkUnknown(m, op[t], tx[t], tx[t]) => status'[o][n] = "Unknown"
             /\ broadcast'[o][n].submitted = Records!Merge(broadcast[o][n].submitted, tx[t])
             /\ broadcast'[o][n].bytes = Records!Merge(broadcast[o][n].bytes, tx[t])
    BY <1>0, <2>1, Records!AnswerCall, StoreAssumptions
  <2>3. QED
    BY <2>1, <2>2, LiveInputs DEF Changes, Records!SameIds, Records!SameStatus
<1>9. CASE RecordRejection(t)
  <2>1. Records!MarkBroadcastRejected(m, op[t], pc[t]) /\ op[t] \in Op /\ UNCHANGED net
    BY <1>0, <1>9, SameCalls DEF RecordRejection, Refusal, chainVars
  <2>2. /\ Records!SameIds(o, n)
        /\ status'[o][n] = "Submitted" => status[o][n] = "Submitted"
        /\ ~(o = op[t] /\ n \in Records!Live(o)) => Records!NotRefused(o, n)
    BY <1>0, <2>1, Records!RefusalCall, StoreAssumptions
  <2>3. pc[t] \in Rejecter
    BY <1>9 DEF RecordRejection, Rejecter
  <2>4. QED
    BY <1>9, <2>1, <2>2, <2>3, LiveInputs DEF Changes, Records!SameIds
<1>10. QED
  BY <1>1, <1>2, <1>3, <1>4, <1>5, <1>6, <1>7, <1>8, <1>9 DEF TaskStep

LEMMA EvmTaskChanges ==
  ASSUME Typed, \A u \in Task : TaskFits(u), NEW t \in Task, EvmTaskStep(t),
         NEW o \in Op, NEW n \in Note
  PROVE  Changes(o, n) /\ (EvmRecordRejection(t) \/ Records!StaysSecured(o, n))
<1> SessionOf[t] \in Manager
  BY CallAssumption
<1> DEFINE m == SessionOf[t]
<1>0. /\ pc[t] # "idle" => op[t] \in Op
      /\ pc[t] \in SignedPoint => tx[t] \in Tx
      /\ pc[t] \in EvmPoint => op[t] \in EvmOp
      /\ Records!TypeOK
  BY SameReading DEF Typed, TaskTyped, EvmTypeOK, TaskFits, FitsAt
<1>1. CASE EvmFinishProof(t)
  <2>1. op[t] \in Op /\ op[t] \in EvmOp
    BY <1>0, <1>1 DEF EvmFinishProof
  <2>2. PICK payload, artifact :
          /\ payload \in 1 .. MaxPayload
          /\ Records!MarkProofReady(m, op[t], payload, FALSE, artifact)
    BY <1>1, SameCalls DEF EvmFinishProof
  <2>3. /\ Records!StaysSecured(o, n) /\ Records!NotRefused(o, n)
        /\ status'[o][n] = "Submitted" => status[o][n] = "Submitted"
        /\ broadcast'[o][n].submitted = broadcast[o][n].submitted
        /\ o # op[t] => broadcast'[o][n].bytes = broadcast[o][n].bytes
        /\ broadcast'[o][n].signDoc => broadcast[o][n].signDoc
    BY <1>0, <2>1, <2>2, Records!EvmProofCall, StoreAssumptions
  <2>4. QED
    BY <2>1, <2>3 DEF Changes
<1>2. CASE (\E p \in Op : EvmStart(t, p)) \/ EvmCheckNullifiers(t) \/ WalletRefuses(t)
           \/ WalletSends(t) \/ WalletAnswers(t) \/ EvmThrow(t)
  BY <1>2, IdleChanges
     DEF EvmStart, EvmCheckNullifiers, WalletRefuses, WalletSends, WalletAnswers, EvmThrow
<1>3. CASE EvmMark(t)
  <2>0. op[t] \in Op /\ op[t] \in EvmOp
    BY <1>0, <1>3 DEF EvmMark, EvmPoint
  <2>1. PICK signed \in BOOLEAN, local \in BOOLEAN :
          signed = FALSE /\ Records!MarkBroadcastAttempting(m, op[t], 0, Artifact, signed, local)
    BY <1>3, SameCalls DEF EvmMark
  <2>2. /\ Records!SameStatus(o, n) /\ Records!NotRefused(o, n)
        /\ ~(o = op[t] /\ n \in Records!Live(o)) => Records!SameIds(o, n)
        /\ o = op[t] /\ n \in Records!Live(o) =>
             /\ broadcast'[o][n].submitted = broadcast[o][n].submitted
             /\ broadcast'[o][n].signDoc <=> broadcast[o][n].signDoc \/ signed
    BY <1>0, <2>0, <2>1, Records!AttemptCall, StoreAssumptions
  <2>3. QED
    BY <2>0, <2>1, <2>2
       DEF Changes, Records!SameIds, Records!SameStatus, Records!StaysSecured
<1>4. CASE EvmRecordSubmitted(t)
  <2>0. pc[t] = "hashed" /\ op[t] \in Op /\ op[t] \in EvmOp /\ tx[t] # 0
    BY <1>0, <1>4 DEF EvmRecordSubmitted, EvmPoint, SignedPoint, Tx
  <2>1. Records!MarkSubmitted(m, op[t], tx[t], 0)
    BY <1>4, SameCalls DEF EvmRecordSubmitted
  <2>2. /\ Records!StaysSecured(o, n) /\ Records!NotRefused(o, n)
        /\ ~(o = op[t] /\ n \in Records!Live(o)) =>
             Records!SameIds(o, n) /\ Records!SameStatus(o, n)
        /\ o = op[t] /\ n \in Records!Live(o) =>
             /\ Records!Keeps(broadcast[o][n].submitted, tx[t])
             /\ broadcast'[o][n].submitted = Records!Merge(broadcast[o][n].submitted, tx[t])
             /\ broadcast'[o][n].signDoc <=> broadcast[o][n].signDoc
    BY <1>0, <2>0, <2>1, Records!AnswerCall, StoreAssumptions
  <2>3. QED
    BY <2>0, <2>2
       DEF Changes, Records!SameIds, Records!SameStatus, Records!Keeps, Records!Merge
<1>5. CASE EvmRecordRejection(t)
  <2>1. /\ Records!MarkBroadcastRejected(m, op[t], "wallet_rejected")
        /\ op[t] \in Op /\ UNCHANGED net
    BY <1>0, <1>5, SameCalls DEF EvmRecordRejection, chainVars
  <2>2. /\ Records!SameIds(o, n)
        /\ status'[o][n] = "Submitted" => status[o][n] = "Submitted"
        /\ ~(o = op[t] /\ n \in Records!Live(o)) => Records!NotRefused(o, n)
    BY <1>0, <2>1, Records!RefusalCall, StoreAssumptions
  <2>3. pc[t] \in Rejecter
    BY <1>5 DEF EvmRecordRejection, Rejecter
  <2>4. QED
    BY <1>5, <2>1, <2>2, <2>3, LiveInputs DEF Changes, Records!SameIds
<1>6. CASE EvmIsolate(t)
  <2>1. PICK from \in Records!Status : Records!MarkManualReview(m, op[t], from)
    BY <1>6, SameCalls, SameReading DEF EvmIsolate
  <2>2. op[t] \in Op
    BY <1>0, <1>6 DEF EvmIsolate
  <2>3. QED
    BY <1>0, <2>1, <2>2, Records!ReviewCall, StoreAssumptions, QuietChanges
<1>7. QED
  BY <1>1, <1>2, <1>3, <1>4, <1>5, <1>6 DEF EvmTaskStep

(* Another session reports or accepts that a payment failed.               *)
GivesUp(o) ==
  \/ \E m \in Manager, k \in Tx : ReportFailure(m, o, k)
  \/ \E k \in Tx : RecoverExpired(o, k)
  \/ \E m \in Manager, from \in Store!Status, k \in Store!TxId : Replan(m, o, from, k)

LEMMA RecoveryChanges ==
  ASSUME Typed, NEW p \in Op, RecoveryStep(p), NEW o \in Op, NEW n \in Note
  PROVE  /\ Changes(o, n)
         /\ \/ Records!StaysSecured(o, n)
            \/ "operator_approved" \in evidence'[o][n]
            \/ GivesUp(p) /\ o = p /\ n \in Records!Live(p)
<1>0. Records!TypeOK
  BY SameReading DEF Typed, EvmTypeOK
<1>1. CASE Cancel(p)
  <2>1. Records!ReleaseReserved(p)
    BY <1>1, SameCalls DEF Cancel
  <2>2. QED
    BY <1>0, <2>1, Records!EarlyCall, StoreAssumptions, QuietChanges
<1>2. CASE GivesUp(p)
  <2>1. \E m, from, k : \/ Records!MarkBroadcastFailed(m, p, k)
                        \/ Records!RecoverExpiredProofReady(p, k)
                        \/ Records!MarkReplanRequired(m, p, from, k)
    BY <1>2, SameCalls DEF GivesUp, ReportFailure, RecoverExpired, Replan
  <2>2. Records!Quiet(o, n) /\ (Records!SameStatus(o, n) \/ (o = p /\ n \in Records!Live(p)))
    BY <1>0, <2>1, Records!FailureCall, StoreAssumptions
  <2>3. QED
    BY <1>2, <2>2, QuietChanges DEF Records!SameStatus, Records!StaysSecured
<1>3. CASE \E m \in Manager, from \in Store!Status : Isolate(m, p, from)
  <2>1. PICK m \in Manager, from \in Records!Status : Records!MarkManualReview(m, p, from)
    BY <1>3, SameCalls, SameReading DEF Isolate
  <2>2. QED
    BY <1>0, <2>1, Records!ReviewCall, StoreAssumptions, QuietChanges
<1>4. CASE \E to \in Store!Status : Resolve(p, to)
  <2>1. PICK to \in Store!Status : Records!ResolveManualReview(p, to)
    BY <1>4, SameCalls DEF Resolve
  <2>2. /\ Records!Quiet(o, n)
        /\ Records!SameStatus(o, n) \/ "operator_approved" \in evidence'[o][n]
    BY <1>0, <2>1, Records!ResolveCall, StoreAssumptions
  <2>3. QED
    BY <2>2, QuietChanges DEF Records!SameStatus, Records!StaysSecured
<1>5. QED
  BY <1>1, <1>2, <1>3, <1>4 DEF RecoveryStep, GivesUp

LEMMA OtherChanges ==
  ASSUME Typed,
         \/ \E p \in Op : ChainStep(p) \/ Expire(p)
         \/ \E S \in SUBSET spent : Reconcile(S)
         \/ \E i \in Note : SpendElsewhere(i)
         \/ Tick \/ (\E m \in Manager : Crash(m)) \/ UNCHANGED vars,
         NEW o \in Op, NEW n \in Note
  PROVE  Changes(o, n) /\ Records!StaysSecured(o, n)
<1>0. Records!TypeOK
  BY SameReading DEF Typed, EvmTypeOK
<1>1. CASE (\E p \in Op : ChainStep(p) \/ Expire(p)) \/ (\E i \in Note : SpendElsewhere(i))
           \/ UNCHANGED vars
  BY <1>1, IdleChanges DEF ChainStep, Include, FailTx, Expire, SpendElsewhere, vars
<1>2. CASE \E S \in SUBSET spent : Reconcile(S)
  <2>1. PICK S \in SUBSET spent : Reconcile(S)
    BY <1>2
  <2>2. S \in SUBSET Note
    BY DEF Typed, EvmTypeOK
  <2>3. PICK by \in [S -> UNION {Found(i) : i \in S}] :
          (\A i \in S : by[i] \in Found(i)) /\ Records!ReconcileSpent(S, by)
    BY <2>1, SameCalls DEF Reconcile
  <2>4. \A i \in S : Found(i) \subseteq Records!SpendEvidence
    BY SameReading DEF Found, Records!SpendEvidence, Tx
  <2>5. by \in [S -> Records!SpendEvidence]
    BY <2>3, <2>4
  <2>6. QED
    BY <1>0, <2>2, <2>3, <2>5, Records!ReconcileCall, StoreAssumptions, QuietChanges
<1>3. CASE Tick \/ \E m \in Manager : Crash(m)
  <2>1. UNCHANGED <<status, broadcast, evidence>>
    BY <1>3, SameCalls DEF Tick, Crash, Records!Tick, Records!Crash
  <2>2. Records!Untouched(o, n)
    BY <2>1, Records!IdleCall, StoreAssumptions
  <2>3. QED
    BY <2>2, QuietChanges DEF Records!Untouched, Records!StaysSecured, Records!SameStatus
<1>4. QED
  BY <1>1, <1>2, <1>3

------------------------------------------------------------------------------
(* A note leaves the hands of a payment only when the payment is over.     *)

Leaves(o, n) ==
  n \in Inputs(o) /\ status[o][n] \in Holding /\ status'[o][n] \notin Holding =>
    \/ "operator_approved" \in evidence'[o][n]
    \/ o \in AsksAgain /\ "broadcast_rejected" \in evidence'[o][n]
    \/ ~Open(o)

LEMMA SecuredStays ==
  ASSUME NEW o, NEW n, Records!StaysSecured(o, n)
  PROVE  Leaves(o, n)
BY DEF Leaves, Records!StaysSecured, Records!Secured, Holding

(* At the boundary, and after it, the attempt is on the records.           *)
LEMMA BoundaryFits ==
  ASSUME NEW t \in Task, TaskFits(t), pc[t] \in Boundary
  PROVE  /\ Silent(op[t]) /\ Inputs(op[t]) # {} /\ Counted(op[t])
         /\ pc[t] = "marked" => op[t] \notin EvmOp /\ Marked(op[t], tx[t])
         /\ pc[t] = "asking" => op[t] \in EvmOp /\ Bound(op[t]) /\ Unrefused(op[t])
BY DEF TaskFits, FitsAt, Boundary, CosmosCall, AfterMark, EvmPoint, EvmAfterMark, Marked, Counted

LEMMA SentFits ==
  ASSUME NEW o \in Op, NetFits(o), NEW k \in Tx, net[o][k] # "unsent"
  PROVE  /\ Inputs(o) # {} /\ Counted(o)
         /\ o \notin EvmOp => Marked(o, k)
         /\ o \in EvmOp => Bound(o)
         /\ \A j \in Tx : net[o][j] # "unsent" => j = k
BY DEF NetFits, Marked, Counted

LEMMA OpenIsCounted ==
  ASSUME NEW o \in Op, NetFits(o), \A t \in Task : TaskFits(t), Open(o)
  PROVE  Counted(o)
<1>1. CASE \E k \in Tx : MayPay(o, k)
  BY <1>1, SentFits DEF MayPay
<1>2. CASE AtBoundary(o)
  BY <1>2, BoundaryFits DEF AtBoundary
<1>3. QED
  BY <1>1, <1>2 DEF Open

LEMMA FailedIsClosed ==
  ASSUME NEW o \in Op, NetFits(o), \A t \in Task : TaskFits(t),
         NEW n \in Inputs(o), RecordFits(o, n),
         NEW k \in Tx, Records!ExactFailure(o, n, k), ConfirmedFailed(o, k)
  PROVE  ~Open(o)
<1> DEFINE b == broadcast[o][n]
<1>1. k = b.submitted
  BY DEF Records!ExactFailure, Records!Identities, RecordFits
<1>2. ~MayPay(o, k)
  BY DEF ConfirmedFailed, MayPay
<1>3. ASSUME NEW j \in Tx, MayPay(o, j) PROVE FALSE
  <2>0. net[o][j] # "unsent"
    BY <1>3 DEF MayPay
  <2>1. o \notin EvmOp => j = k
    BY <1>1, <2>0, SentFits DEF Marked
  <2>2. o \in EvmOp => net[o][k] # "unsent"
    BY <1>1 DEF RecordFits, Tx
  <2>3. j = k
    BY <2>0, <2>1, <2>2, SentFits
  <2>4. QED
    BY <1>2, <1>3, <2>3
<1>4. ASSUME NEW t \in Task, pc[t] \in Boundary, op[t] = o, o \notin expired PROVE FALSE
  <2>1. Silent(o) /\ (pc[t] = "asking" => o \in EvmOp)
    BY <1>4, BoundaryFits
  <2>2. net[o][k] = "failed"
    BY <1>4 DEF ConfirmedFailed
  <2>3. QED
    BY <2>1, <2>2 DEF Silent
<1>5. QED
  BY <1>3, <1>4 DEF Open, AtBoundary

LEMMA GivesUpLeaves ==
  ASSUME IInv, NEW o \in Op, GivesUp(o), NEW n \in Records!Live(o)
  PROVE  Leaves(o, n)
<1>0. /\ n \in Inputs(o) /\ n \in Note
      /\ NetFits(o) /\ RecordFits(o, n) /\ \A t \in Task : TaskFits(t)
  BY LiveInputs DEF IInv
<1>1. CASE \E m \in Manager, k \in Tx : ReportFailure(m, o, k)
  <2>1. PICK m \in Manager, k \in Tx :
          Records!MarkBroadcastFailed(m, o, k) /\ ConfirmedFailed(o, k)
    BY <1>1, SameCalls DEF ReportFailure
  <2>2. Records!ExactFailure(o, n, k)
    BY <2>1 DEF Records!MarkBroadcastFailed
  <2>3. QED
    BY <1>0, <2>1, <2>2, FailedIsClosed DEF Leaves
<1>2. CASE \E k \in Tx : RecoverExpired(o, k)
  <2>1. PICK k \in Tx : Records!RecoverExpiredProofReady(o, k) /\ ConfirmedFailed(o, k)
    BY <1>2, SameCalls DEF RecoverExpired, ConfirmedFailed
  <2>2. Records!ExactFailure(o, n, k)
    BY <2>1 DEF Records!RecoverExpiredProofReady, Records!ExactFailure, Records!Identities
  <2>3. QED
    BY <1>0, <2>1, <2>2, FailedIsClosed DEF Leaves
<1>3. CASE \E m \in Manager, from \in Store!Status, k \in Store!TxId : Replan(m, o, from, k)
  <2>1. PICK m \in Manager, from \in Store!Status, k \in Store!TxId :
          Records!MarkReplanRequired(m, o, from, k) /\ (k # 0 => ConfirmedFailed(o, k))
    BY <1>3, SameCalls DEF Replan
  <2>2. /\ status[o][n] = from /\ from # "ManualReview"
        /\ Records!CanTransition(from, "ReplanRequired")
        /\ IF Records!NeedsFailure(o, n, from) THEN Records!ExactFailure(o, n, k) ELSE k = 0
    BY <2>1, Records!AllInRecord, StoreAssumptions DEF Records!MarkReplanRequired
  <2>3. CASE Records!NeedsFailure(o, n, from)
    <3>1. Records!ExactFailure(o, n, k) /\ ConfirmedFailed(o, k) /\ k \in Tx
      BY <2>1, <2>2, <2>3 DEF Records!ExactFailure, ConfirmedFailed
    <3>2. QED
      BY <1>0, <3>1, FailedIsClosed DEF Leaves
  <2>4. CASE ~Records!NeedsFailure(o, n, from) /\ from \in Holding
    <3>1. from \in {"Reserved", "Proving", "ProofReady", "Submitted", "Unknown",
                    "ManualReview", "Failed"}
      BY <2>2, Records!ComesFrom, StoreAssumptions
    <3>2. from = "ProofReady"
      BY <2>2, <2>4, <3>1 DEF Records!NeedsFailure, Holding
    <3>3. ~(broadcast[o][n].count > 0)
      BY <2>4, <3>2 DEF Records!NeedsFailure, Records!HasBroadcastEvidence
    <3>4. broadcast[o][n].count \in Nat
      BY SameReading, <1>0
         DEF IInv, Typed, EvmTypeOK, Records!TypeOK, Records!BroadcastType, Records!Broadcast
    <3>5. ~Counted(o)
      BY <1>0, <3>3, <3>4 DEF Counted
    <3>6. QED
      BY <1>0, <3>5, OpenIsCounted DEF Leaves
  <2>5. QED
    BY <2>2, <2>3, <2>4 DEF Leaves
<1>4. QED
  BY <1>1, <1>2, <1>3 DEF GivesUp

LEMMA RejectionLeaves ==
  ASSUME IInv, NEW t \in Task, RecordRejection(t), NEW o \in Op, NEW n \in Note
  PROVE  Leaves(o, n)
<1>0. /\ pc[t] \in Refusal /\ op[t] \in Op /\ op[t] \notin EvmOp
      /\ Records!TypeOK /\ TaskFits(t)
      /\ pc[t] = "wallet_rejected" => pc[t] \in BeforeMark
      /\ pc[t] \in CosmosCall
      /\ Records!MarkBroadcastRejected(SessionOf[t], op[t], pc[t])
  BY SameReading, SameCalls
     DEF IInv, Typed, TaskTyped, EvmTypeOK, RecordRejection, Refusal, TaskFits, FitsAt,
         CosmosCall, BeforeMark, AfterMark
<1>1. /\ ~(o = op[t] /\ n \in Records!Live(o)) => Records!SameStatus(o, n)
      /\ n \in Records!Live(op[t]) => "broadcast_rejected" \in evidence'[op[t]][n]
  <2>1. ~(o = op[t] /\ n \in Records!Live(o)) => Records!SameStatus(o, n)
    BY <1>0, Records!RefusalCall, StoreAssumptions
  <2>2. n \in Records!Live(op[t]) => "broadcast_rejected" \in evidence'[op[t]][n]
    BY <1>0, Records!RefusalCall, StoreAssumptions
  <2>3. QED
    BY <2>1, <2>2
<1>2. CASE ~(o = op[t] /\ n \in Records!Live(o))
  BY <1>1, <1>2 DEF Leaves, Records!SameStatus
<1>3. CASE o = op[t] /\ n \in Records!Live(o) /\ o \in AsksAgain
  BY <1>1, <1>3 DEF Leaves
<1>4. CASE o = op[t] /\ n \in Records!Live(o) /\ o \notin AsksAgain
  <2>1. ASSUME NEW k \in Tx, MayPay(o, k) PROVE FALSE
    <3>1. net[o][k] # "unsent" /\ net[o][k] # "refused"
      BY <2>1 DEF MayPay
    <3>2. CASE pc[t] = "check_tx_rejected"
      <4>1. net[o][tx[t]] = "refused" /\ tx[t] \in Tx
        BY <1>0, <1>4, <3>2 DEF TaskFits, FitsAt, IInv, Typed, TaskTyped, SignedPoint
      <4>2. QED
        BY <3>1, <4>1, SentFits DEF IInv
    <3>3. CASE pc[t] \in {"wallet_rejected", "aborted_before_rpc"}
      BY <1>0, <1>4, <3>1, <3>3 DEF TaskFits, FitsAt, Silent
    <3>4. QED
      BY <1>0, <3>2, <3>3 DEF Refusal
  <2>2. ASSUME NEW u \in Task, pc[u] \in Boundary, op[u] = o PROVE FALSE
    <3>1. u # t
      BY <1>0, <2>2 DEF Boundary, Refusal
    <3>2. pc[u] \in CosmosCall
      BY <1>0, <1>4, <2>2, BoundaryFits DEF IInv, Boundary, CosmosCall, AfterMark
    <3>3. QED
      BY <1>0, <1>4, <2>2, <3>1, <3>2 DEF IInv, CallsFit
  <2>3. QED
    BY <2>1, <2>2 DEF Leaves, Open, AtBoundary
<1>5. QED
  BY <1>2, <1>3, <1>4

LEMMA EvmRejectionLeaves ==
  ASSUME IInv, NEW t \in Task, EvmRecordRejection(t), NEW o \in Op, NEW n \in Note
  PROVE  Leaves(o, n)
<1>0. /\ pc[t] = "declined" /\ op[t] \in Op /\ Records!TypeOK
      /\ Silent(op[t])
      /\ Records!MarkBroadcastRejected(SessionOf[t], op[t], "wallet_rejected")
  BY SameReading, SameCalls
     DEF IInv, Typed, TaskTyped, EvmTypeOK, EvmRecordRejection, TaskFits, FitsAt
<1>1. ~(o = op[t] /\ n \in Records!Live(o)) => Records!SameStatus(o, n)
  BY <1>0, Records!RefusalCall, StoreAssumptions
<1>2. CASE ~(o = op[t] /\ n \in Records!Live(o))
  BY <1>1, <1>2 DEF Leaves, Records!SameStatus
<1>3. CASE o = op[t]
  <2>1. ASSUME NEW k \in Tx, MayPay(o, k) PROVE FALSE
    BY <1>0, <1>3, <2>1 DEF MayPay, Silent
  <2>2. ASSUME NEW u \in Task, pc[u] \in Boundary, op[u] = o PROVE FALSE
    <3>1. CallsFit(u, t) /\ u # t
      BY <1>0, <2>2 DEF Boundary, IInv
    <3>2. QED
      BY <1>0, <1>3, <2>2, <3>1 DEF CallsFit
  <2>3. QED
    BY <2>1, <2>2 DEF Leaves, Open, AtBoundary
<1>4. QED
  BY <1>2, <1>3

(* Every step writes as Changes says and lets go as Leaves says.           *)
LEMMA StepRecords ==
  ASSUME IInv, [EvmNext]_vars, NEW o \in Op, NEW n \in Note
  PROVE  Changes(o, n) /\ Leaves(o, n)
<1>0. Typed /\ \A u \in Task : TaskFits(u)
  BY DEF IInv
<1>1. CASE \E t \in Task : TaskStep(t)
  BY <1>0, <1>1, TaskChanges, SecuredStays, RejectionLeaves
<1>2. CASE \E t \in Task : EvmTaskStep(t)
  BY <1>0, <1>2, EvmTaskChanges, SecuredStays, EvmRejectionLeaves
<1>3. CASE \E p \in Op : RecoveryStep(p)
  <2>1. PICK p \in Op : RecoveryStep(p)
    BY <1>3
  <2>2. /\ Changes(o, n)
        /\ \/ Records!StaysSecured(o, n)
           \/ "operator_approved" \in evidence'[o][n]
           \/ GivesUp(p) /\ o = p /\ n \in Records!Live(p)
    BY <1>0, <2>1, RecoveryChanges
  <2>3. "operator_approved" \in evidence'[o][n] => Leaves(o, n)
    BY DEF Leaves
  <2>4. QED
    BY <2>2, <2>3, SecuredStays, GivesUpLeaves
<1>4. CASE \/ \E p \in Op : ChainStep(p) \/ Expire(p)
           \/ \E S \in SUBSET spent : Reconcile(S)
           \/ \E i \in Note : SpendElsewhere(i)
           \/ Tick \/ (\E m \in Manager : Crash(m)) \/ UNCHANGED vars
  BY <1>0, <1>4, OtherChanges, SecuredStays
<1>5. QED
  BY <1>1, <1>2, <1>3, <1>4 DEF EvmNext, Next

------------------------------------------------------------------------------
(* What was true at an await stays true while others take their steps.     *)

LEMMA InputsStay ==
  ASSUME RecordsKept, NEW o \in Op, Inputs(o) # {}
  PROVE  Inputs(o)' = Inputs(o) /\ Inputs(o)' # {} /\ Inputs(o) \subseteq Note
BY LiveInputs DEF RecordsKept, InputsKept

LEMMA MarkedStays ==
  ASSUME RecordsKept, Typed, Typed', NEW o \in Op, Inputs(o) # {}, NEW k \in Tx, Marked(o, k)
  PROVE  Marked(o, k)'
<1>1. SUFFICES ASSUME NEW n \in Inputs(o)
               PROVE  LET b == broadcast'[o][n]
                      IN  b.count >= 1 /\ b.submitted = k /\ b.bytes = k /\ b.signDoc
  BY InputsStay DEF Marked
<1>2. RecordKept(o, n) /\ n \in Note
  BY InputsStay DEF RecordsKept
<1>3. broadcast[o][n].count \in Nat /\ broadcast'[o][n].count \in Nat
  BY <1>2 DEF Typed, EvmTypeOK, Store!TypeOK, Store!BroadcastType, Store!Broadcast
<1>4. QED
  BY <1>2, <1>3 DEF RecordKept, Marked, Tx

LEMMA BoundStays ==
  ASSUME RecordsKept, NEW o \in Op, Inputs(o) # {}, Bound(o)
  PROVE  Bound(o)'
BY InputsStay DEF Bound, RecordsKept, RecordKept, Artifact

LEMMA CountedStays ==
  ASSUME RecordsKept, Typed, Typed', NEW o \in Op, Inputs(o) # {}, Counted(o)
  PROVE  Counted(o)'
<1>1. SUFFICES ASSUME NEW n \in Inputs(o) PROVE broadcast'[o][n].count >= 1
  BY InputsStay DEF Counted
<1>2. RecordKept(o, n) /\ n \in Note
  BY InputsStay DEF RecordsKept
<1>3. broadcast[o][n].count \in Nat /\ broadcast'[o][n].count \in Nat
  BY <1>2 DEF Typed, EvmTypeOK, Store!TypeOK, Store!BroadcastType, Store!Broadcast
<1>4. QED
  BY <1>2, <1>3 DEF RecordKept, Counted

LEMMA NetStays ==
  ASSUME ChainMoves, NEW o \in Op, NEW k \in Tx
  PROVE  /\ net[o][k] # "unsent" => net'[o][k] # "unsent"
         /\ net[o][k] \in {"included", "refused"} => net'[o][k] = net[o][k]
BY DEF ChainMoves, Moves

LEMMA SilentStays ==
  ASSUME ChainMoves, NEW o \in Op, Silent(o)
  PROVE  Silent(o)' \/ \E t \in Task, k \in Tx : GivenBy(t, o, k)
BY DEF ChainMoves, Moves, Silent

LEMMA UnrefusedStays ==
  ASSUME RecordsKept, NEW o \in Op, Inputs(o) # {}, Unrefused(o),
         \A n \in Note : Changes(o, n)
  PROVE  Unrefused(o)' \/ \E t \in Task : pc[t] \in Rejecter /\ op[t] = o
BY InputsStay DEF Unrefused, Changes, Records!NotRefused

(* A call that did not move.                                               *)
LEMMA StillFits ==
  ASSUME IInv, Typed', RecordsKept, ChainMoves, \A o \in Op, n \in Note : Changes(o, n),
         NEW u \in Task, NEW p, NEW o, NEW k,
         pc[u] = p, op[u] = o, tx[u] = k, pc'[u] = pc[u]
  PROVE  FitsAt(p, o, k)'
<1>0. /\ Typed /\ TaskFits(u) /\ FitsAt(p, o, k) /\ \A t \in Task : TaskFits(t) /\ CallsFit(t, u)
      /\ \A t \in Task : CallsFit(u, t)
  BY DEF IInv, TaskFits
<1>1. CASE p = "idle"
  BY <1>1 DEF FitsAt, CosmosCall, BeforeMark, AfterMark, EvmPoint, EvmAfterMark, Boundary
<1>2. CASE p # "idle"
  <2>0. o \in Op /\ Inputs(o) # {} /\ (p \in SignedPoint => k \in Tx)
    BY <1>0, <1>2 DEF Typed, TaskTyped, FitsAt
  <2>1. Inputs(o)' # {}
    BY <2>0, InputsStay
  <2>2. p \in AfterMark => Marked(o, k)'
    BY <1>0, <2>0, MarkedStays DEF FitsAt, AfterMark, SignedPoint
  <2>3. p \in EvmPoint => Bound(o)'
    BY <1>0, <2>0, BoundStays DEF FitsAt
  <2>4. p \in EvmAfterMark => Counted(o)'
    BY <1>0, <2>0, CountedStays DEF FitsAt
  <2>5. /\ p \in {"asked", "hashed", "opaque"} => net'[o][k] # "unsent"
        /\ p = "included" => net'[o][k] = "included"
        /\ p = "check_tx_rejected" => net'[o][k] = "refused"
    BY <1>0, <2>0, NetStays DEF FitsAt, SignedPoint
  <2>6. ASSUME NEW t \in Task, pc[t] \in Boundary, op[t] = o, t # u
        PROVE  /\ p \notin Boundary \cup {"declined"}
               /\ ~(p \in BeforeMark \cup {"aborted_before_rpc"} /\ o \notin AsksAgain)
    <3>1. p \notin Boundary \cup {"declined"}
      BY <1>0, <2>6 DEF CallsFit
    <3>2. ASSUME p \in BeforeMark \cup {"aborted_before_rpc"} PROVE o \in AsksAgain
      <4>1. p \in CosmosCall /\ o \notin EvmOp
        BY <1>0, <3>2 DEF CosmosCall, AfterMark, FitsAt
      <4>2. pc[t] \in CosmosCall
        BY <1>0, <2>6, <4>1, BoundaryFits DEF Boundary, CosmosCall, AfterMark
      <4>3. QED
        BY <1>0, <2>6, <4>1, <4>2 DEF CallsFit
    <3>3. QED
      BY <3>1, <3>2
  <2>7. ASSUME NEW t \in Task, NEW j \in Tx, GivenBy(t, o, j)
        PROVE  t # u /\ pc[t] \in Boundary /\ op[t] = o
    BY <2>7 DEF GivenBy, Boundary
  <2>8. /\ p \in Boundary \cup {"declined"} => Silent(o)'
        /\ p \in BeforeMark \cup {"aborted_before_rpc"} /\ o \notin AsksAgain => Silent(o)'
    <3>1. Silent(o) => Silent(o)' \/ \E t \in Task, j \in Tx : GivenBy(t, o, j)
      BY <2>0, SilentStays
    <3>2. QED
      BY <1>0, <2>6, <2>7, <3>1 DEF FitsAt
  <2>9. p = "asking" => Unrefused(o)'
    <3>1. SUFFICES ASSUME p = "asking", NEW t \in Task, pc[t] \in Rejecter, op[t] = o
                   PROVE  FALSE
      BY <1>0, <2>0, UnrefusedStays DEF FitsAt
    <3>2. o \in EvmOp
      BY <1>0, <3>1 DEF FitsAt, EvmPoint
    <3>3. pc[t] = "declined"
      BY <1>0, <3>1, <3>2
         DEF TaskFits, FitsAt, Rejecter, Refusal, CosmosCall, BeforeMark, AfterMark
    <3>4. QED
      BY <1>0, <3>1, <3>3 DEF CallsFit, Boundary
  <2>10. QED
    BY <1>0, <2>1, <2>2, <2>3, <2>4, <2>5, <2>8, <2>9 DEF FitsAt
<1>3. QED
  BY <1>1, <1>2

(* A call that moved on with the same payment and transaction.             *)
LEMMA GotoFits ==
  ASSUME IInv, Typed', RecordsKept, UNCHANGED net,
         NEW t \in Task, NEW p, NEW o, NEW k, op[t] = o, tx[t] = k,
         pc[t] # "idle", p # "asking",
         p \in CosmosCall => pc[t] \in CosmosCall,
         p \in AfterMark => pc[t] \in AfterMark,
         p \in EvmPoint => pc[t] \in EvmPoint,
         p \in EvmAfterMark => pc[t] \in EvmAfterMark,
         p \in {"asked", "hashed", "opaque"} => pc[t] = "asked",
         p = "included" => net[o][k] = "included",
         p = "check_tx_rejected" => net[o][k] = "refused",
         p \in Boundary \cup {"declined"} => pc[t] \in Boundary,
         p \in BeforeMark \cup {"aborted_before_rpc"} => pc[t] \in BeforeMark \cup {"marked"}
  PROVE  FitsAt(p, o, k)'
<1>0. Typed /\ FitsAt(pc[t], o, k)
  BY DEF IInv, TaskFits
<1>1. o \in Op /\ Inputs(o) # {} /\ (pc[t] \in SignedPoint => k \in Tx)
  BY <1>0 DEF Typed, TaskTyped, FitsAt
<1>2. Inputs(o)' # {}
  BY <1>1, InputsStay
<1>3. p \in AfterMark => Marked(o, k)'
  BY <1>0, <1>1, MarkedStays DEF FitsAt, AfterMark, SignedPoint
<1>4. p \in EvmPoint => Bound(o)'
  BY <1>0, <1>1, BoundStays DEF FitsAt
<1>5. p \in EvmAfterMark => Counted(o)'
  BY <1>0, <1>1, CountedStays DEF FitsAt
<1>6. Silent(o) => Silent(o)'
  BY DEF Silent
<1>7. QED
  BY <1>0, <1>2, <1>3, <1>4, <1>5, <1>6 DEF FitsAt, Boundary

LEMMA FitsNext ==
  ASSUME NEW t \in Task, NEW p, NEW o, NEW k, pc'[t] = p, op'[t] = o, tx'[t] = k,
         FitsAt(p, o, k)'
  PROVE  TaskFits(t)'
BY DEF TaskFits, FitsAt, Marked, Bound, Counted, Silent, Unrefused, Inputs, Store!Linked

(* The calls that do not move when t takes a step.                         *)
LEMMA OthersWait ==
  ASSUME TasksTyped, NEW t \in Task, TaskStep(t) \/ EvmTaskStep(t), NEW u \in Task, u # t
  PROVE  pc'[u] = pc[u] /\ op'[u] = op[u] /\ tx'[u] = tx[u]
<1>1. CASE TaskStep(t)
  BY <1>1 DEF TasksTyped, TaskStep, Goto, Finish, Reserve, StartProving, FinishProof,
              PrepareFails, Rollback, ReleaseOwn, IsolateOwn, Start, Heartbeat, WalletSigns,
              WalletRejects, RenewAfterWallet, CheckNullifiers, CheckFreshness, Mark,
              AbortBeforeRpc, Send, Answer, WaitForTx, RecordSubmitted, RecordUnknown,
              RecordRejection, Throw, taskVars
<1>2. CASE EvmTaskStep(t)
  BY <1>2 DEF TasksTyped, EvmTaskStep, Goto, Finish, EvmFinishProof, EvmStart,
              EvmCheckNullifiers, EvmMark, WalletRefuses, WalletSends, WalletAnswers,
              EvmRecordSubmitted, EvmRecordRejection, EvmIsolate, EvmThrow
<1>3. QED
  BY <1>1, <1>2

LEMMA FinishFits ==
  ASSUME TasksTyped, NEW t \in Task, Finish(t)
  PROVE  TaskFits(t)'
<1>1. pc'[t] = "idle"
  BY DEF Finish, TasksTyped
<1>2. QED
  BY <1>1 DEF TaskFits, FitsAt, CosmosCall, BeforeMark, AfterMark, EvmPoint, EvmAfterMark,
              Boundary

(* No attempt on the records: nothing was sent, and nothing is about to be.*)
LEMMA UncountedIsSilent ==
  ASSUME NEW o \in Op, NetFits(o), NEW n \in Inputs(o), broadcast[o][n].count = 0
  PROVE  Silent(o)
BY SentFits DEF Silent, Counted

LEMMA GotoMoves ==
  ASSUME IInv, Typed', RecordsKept, NEW t \in Task, NEW p, Goto(t, p), UNCHANGED net,
         pc[t] # "idle", p # "asking",
         p \in CosmosCall => pc[t] \in CosmosCall,
         p \in AfterMark => pc[t] \in AfterMark,
         p \in EvmPoint => pc[t] \in EvmPoint,
         p \in EvmAfterMark => pc[t] \in EvmAfterMark,
         p \in {"asked", "hashed", "opaque"} => pc[t] = "asked",
         p = "included" => net[op[t]][tx[t]] = "included",
         p = "check_tx_rejected" => net[op[t]][tx[t]] = "refused",
         p \in Boundary \cup {"declined"} => pc[t] \in Boundary,
         p \in BeforeMark \cup {"aborted_before_rpc"} => pc[t] \in BeforeMark \cup {"marked"}
  PROVE  TaskFits(t)'
<1>1. PICK o, k : o = op[t] /\ k = tx[t]
  OBVIOUS
<1>2. pc'[t] = p /\ op'[t] = o /\ tx'[t] = k
  BY <1>1 DEF Goto, IInv, Typed, EvmTypeOK
<1>3. FitsAt(p, o, k)'
  BY <1>1, GotoFits
<1>4. QED
  BY <1>2, <1>3, FitsNext

LEMMA BeginMoves ==
  ASSUME IInv, NEW t \in Task, NEW o \in Op,
         NEW p \in {"reserved", "signing", "checking"},
         pc' = [pc EXCEPT ![t] = p], op' = [op EXCEPT ![t] = o], UNCHANGED tx,
         Inputs(o)' # {},
         p = "signing" => o \notin EvmOp /\ (o \in AsksAgain \/ Silent(o)'),
         p = "checking" => o \in EvmOp /\ Bound(o)'
  PROVE  TaskFits(t)'
<1>1. PICK k : k = tx[t]
  OBVIOUS
<1>2. pc'[t] = p /\ op'[t] = o /\ tx'[t] = k
  BY <1>1 DEF IInv, Typed, EvmTypeOK
<1>3. FitsAt(p, o, k)'
  BY DEF FitsAt, CosmosCall, BeforeMark, AfterMark, EvmPoint, EvmAfterMark, Boundary
<1>4. QED
  BY <1>2, <1>3, FitsNext

LEMMA ReserveMoves ==
  ASSUME IInv, NEW t \in Task, NEW o \in Op, NEW N \in SUBSET Note, Reserve(t, o, N)
  PROVE  TaskFits(t)'
<1>0. Records!TypeOK /\ SessionOf[t] \in Manager
  BY SameReading, CallAssumption DEF IInv, Typed, EvmTypeOK
<1>1. Records!ReserveNotes(SessionOf[t], o, N)
  BY SameCalls DEF Reserve
<1>2. N # {} /\ \A n \in N : status'[o][n] = "Reserved"
  BY <1>1 DEF Records!ReserveNotes, IInv, Typed, EvmTypeOK, Store!TypeOK, Store!StatusType
<1>3. Inputs(o)' # {}
  BY <1>2 DEF Inputs, Store!Linked, Store!NoRecord
<1>4. QED
  BY <1>3, BeginMoves DEF Reserve

LEMMA StartMoves ==
  ASSUME IInv, RecordsKept, NEW t \in Task, NEW o \in Op, Start(t, o)
  PROVE  TaskFits(t)'
<1>0. NetFits(o) /\ \A n \in Note : RecordFits(o, n)
  BY DEF IInv
<1>1. Inputs(o) # {}
  BY SameCalls, LiveInputs DEF Start, Renew, Records!RenewLease
<1>2. PICK n \in Inputs(o) : n \in Note
  BY <1>1, LiveInputs
<1>3. o \notin EvmOp
  BY <1>0, <1>2 DEF Start, RecordFits
<1>4. o \in AsksAgain \/ Silent(o)
  BY <1>0, <1>2, UncountedIsSilent DEF Start, FirstCall
<1>5. Silent(o) => Silent(o)'
  BY DEF Silent, Start, chainVars
<1>6. Inputs(o)' # {}
  BY <1>1, InputsStay
<1>7. QED
  BY <1>3, <1>4, <1>5, <1>6, BeginMoves DEF Start

LEMMA EvmStartMoves ==
  ASSUME IInv, RecordsKept, NEW t \in Task, NEW o \in Op, EvmStart(t, o)
  PROVE  TaskFits(t)'
<1>1. Inputs(o) # {}
  BY CallAssumption DEF IInv, ClaimsFit, EvmStart
<1>2. Bound(o)
  BY DEF Bound, EvmStart
<1>3. Inputs(o)' # {} /\ Bound(o)'
  BY <1>1, <1>2, InputsStay, BoundStays
<1>4. QED
  BY <1>3, BeginMoves DEF EvmStart

(* beginBroadcastReservation of some session with an identity.             *)
Attempts(m, o, hash, k) ==
  \E signed, local \in BOOLEAN :
    Records!MarkBroadcastAttempting(m, o, hash, k, signed, local)

(* What it finds and leaves on every input.                                *)
LEMMA MarkWrites ==
  ASSUME IInv, RecordsKept, NEW t \in Task, NEW o \in Op, o = op[t], NEW hash, NEW k,
         Attempts(SessionOf[t], o, hash, k), Whole(o), UNCHANGED net
  PROVE  /\ Inputs(o) # {} /\ Silent(o)' /\ Silent(o)
         /\ \A u \in Task : op[u] = o => pc[u] \notin Boundary
         /\ \A n \in Inputs(o) :
              /\ status[o][n] = "ProofReady"
              /\ broadcast[o][n].count = 0 /\ broadcast'[o][n].count = 1
              /\ Records!NotRefused(o, n)
<1>0. /\ Records!TypeOK /\ SessionOf[t] \in Manager /\ NetFits(o)
      /\ \A u \in Task : TaskFits(u)
  BY SameReading, CallAssumption DEF IInv, Typed, EvmTypeOK
<1>1. PICK signed \in BOOLEAN, local \in BOOLEAN :
        Records!MarkBroadcastAttempting(SessionOf[t], o, hash, k, signed, local)
  BY DEF Attempts
<1>2. Records!Live(o) = Inputs(o) /\ Inputs(o) \subseteq Note /\ Inputs(o) # {}
  BY <1>1, SameReading, LiveInputs
     DEF Whole, Inputs, Records!MarkBroadcastAttempting, Records!AllIn
<1>3. ASSUME NEW n \in Inputs(o)
      PROVE  /\ status[o][n] = "ProofReady"
             /\ broadcast[o][n].count = 0 /\ broadcast'[o][n].count = 1
             /\ Records!NotRefused(o, n)
  <2>1. n \in Records!Live(o) /\ n \in Note
    BY <1>2
  <2>2. status[o][n] = "ProofReady" /\ Records!NotRefused(o, n)
    BY <1>0, <1>1, <2>1, Records!AttemptCall, StoreAssumptions
  <2>3. broadcast[o][n].count = 0 /\ broadcast'[o][n].count = 1
    BY <1>0, <1>1, <2>1, Records!AttemptCall, StoreAssumptions
  <2>4. QED
    BY <2>2, <2>3
<1>4. Silent(o)
  BY <1>0, <1>2, <1>3, UncountedIsSilent
<1>5. Silent(o)'
  BY <1>4 DEF Silent
<1>6. ASSUME NEW u \in Task, op[u] = o, pc[u] \in Boundary PROVE FALSE
  <2>1. Counted(o)
    BY <1>0, <1>6, BoundaryFits
  <2>2. QED
    BY <1>2, <1>3, <2>1 DEF Counted
<1>7. QED
  BY <1>2, <1>3, <1>4, <1>5, <1>6

LEMMA MarkMoves ==
  ASSUME IInv, RecordsKept, NEW t \in Task, Mark(t)
  PROVE  TaskFits(t)'
<1>1. PICK o \in Op, k \in Tx : o = op[t] /\ k = tx[t]
  BY DEF IInv, Typed, TaskTyped, Mark, SignedPoint
<1>2. /\ pc'[t] = "marked" /\ op'[t] = o /\ tx'[t] = k
      /\ o \notin EvmOp /\ Whole(o) /\ UNCHANGED net
  BY <1>1 DEF Goto, IInv, Typed, EvmTypeOK, Mark, TaskFits, FitsAt, CosmosCall, BeforeMark,
              chainVars
<1>3. PICK signed \in BOOLEAN, local \in BOOLEAN :
        /\ signed = TRUE
        /\ Records!MarkBroadcastAttempting(SessionOf[t], o, k, k, signed, local)
  BY <1>1, SameCalls DEF Mark
<1>4. /\ Inputs(o) # {} /\ Silent(o)'
      /\ \A n \in Inputs(o) : broadcast'[o][n].count = 1
  <2>1. Attempts(SessionOf[t], o, k, k)
    BY <1>3 DEF Attempts
  <2>2. QED
    BY <1>1, <1>2, <2>1, MarkWrites
<1>5. Inputs(o)' = Inputs(o) /\ Records!Live(o) = Inputs(o) /\ Inputs(o) \subseteq Note
  BY <1>2, <1>4, InputsStay, SameReading DEF Whole, Inputs
<1>6. ASSUME NEW n \in Inputs(o)
      PROVE  /\ broadcast'[o][n].submitted = k /\ broadcast'[o][n].bytes = k
             /\ broadcast'[o][n].signDoc
  <2>1. Records!TypeOK
    BY SameReading DEF IInv, Typed, EvmTypeOK
  <2>2. n \in Records!Live(o) /\ n \in Note
    BY <1>5
  <2>3. k # 0
    BY DEF Tx
  <2>4. Records!MarkBroadcastAttempting(SessionOf[t], o, k, k, signed, local)
    BY <1>3
  <2>5. o = o /\ n \in Records!Live(o) =>
          broadcast'[o][n].submitted = k /\ broadcast'[o][n].bytes = k
    BY <2>1, <2>2, <2>3, <2>4, Records!AttemptCall, StoreAssumptions
  <2>6. Records!MarkBroadcastAttempting(SessionOf[t], o, k, k, TRUE, FALSE)
    BY <1>1, SameCalls DEF Mark
  <2>7. broadcast'[o][n].signDoc
    BY <2>1, <2>2, <2>6, Records!CosmosAttemptCall, StoreAssumptions
  <2>8. QED
    BY <2>2, <2>5, <2>7
<1>7. Marked(o, k)'
  BY <1>4, <1>5, <1>6 DEF Marked
<1>8. FitsAt("marked", o, k)'
  BY <1>2, <1>4, <1>5, <1>7
     DEF FitsAt, CosmosCall, BeforeMark, AfterMark, EvmPoint, EvmAfterMark
<1>9. QED
  BY <1>2, <1>8, FitsNext

LEMMA EvmMarkMoves ==
  ASSUME IInv, RecordsKept, NEW t \in Task, EvmMark(t)
  PROVE  TaskFits(t)'
<1>1. PICK o, k : o \in Op /\ o = op[t] /\ k = tx[t]
  BY DEF IInv, Typed, TaskTyped, EvmMark
<1>2. /\ pc'[t] = "asking" /\ op'[t] = o /\ tx'[t] = k
      /\ o \in EvmOp /\ Bound(o) /\ Whole(o) /\ UNCHANGED net
  BY <1>1 DEF Goto, IInv, Typed, EvmTypeOK, EvmMark, TaskFits, FitsAt, EvmPoint, chainVars
<1>3. Attempts(SessionOf[t], o, 0, Artifact)
  BY <1>1, SameCalls DEF EvmMark, Attempts
<1>4. /\ Inputs(o) # {} /\ Silent(o)'
      /\ \A n \in Inputs(o) : /\ broadcast[o][n].count = 0
                              /\ broadcast'[o][n].count = 1
                              /\ Records!NotRefused(o, n)
  BY <1>1, <1>2, <1>3, MarkWrites
<1>5. Inputs(o)' = Inputs(o) /\ Inputs(o) \subseteq Note /\ Bound(o)'
  BY <1>1, <1>2, <1>4, InputsStay, BoundStays
<1>6. Counted(o)'
  BY <1>4, <1>5 DEF Counted
<1>7. Unrefused(o)'
  <2>1. \A n \in Inputs(o) : RecordFits(o, n)
    BY <1>1, <1>5 DEF IInv
  <2>2. QED
    BY <1>1, <1>2, <1>4, <1>5, <2>1 DEF Unrefused, RecordFits, Records!NotRefused
<1>8. FitsAt("asking", o, k)'
  BY <1>2, <1>4, <1>5, <1>6, <1>7 DEF FitsAt, CosmosCall, BeforeMark, AfterMark
<1>9. QED
  BY <1>2, <1>8, FitsNext

LEMMA WalletSignsMoves ==
  ASSUME IInv, RecordsKept, NEW t \in Task, WalletSigns(t)
  PROVE  TaskFits(t)'
<1>1. PICK o \in Op, k \in Tx : o = op[t] /\ tx' = [tx EXCEPT ![t] = k]
  BY DEF IInv, Typed, TaskTyped, WalletSigns
<1>2. pc'[t] = "signed" /\ op'[t] = o /\ tx'[t] = k /\ UNCHANGED net
  BY <1>1 DEF WalletSigns, IInv, Typed, EvmTypeOK, chainVars
<1>3. /\ o \notin EvmOp /\ Inputs(o) # {}
      /\ o \in AsksAgain \/ Silent(o)
  BY <1>1 DEF IInv, WalletSigns, TaskFits, FitsAt, CosmosCall, BeforeMark
<1>4. Inputs(o)' # {} /\ (Silent(o) => Silent(o)')
  BY <1>2, <1>3, InputsStay DEF Silent
<1>5. FitsAt("signed", o, k)'
  BY <1>3, <1>4 DEF FitsAt, CosmosCall, BeforeMark, AfterMark, EvmPoint, EvmAfterMark, Boundary
<1>6. QED
  BY <1>2, <1>5, FitsNext

LEMMA SendMovesTask ==
  ASSUME IInv, Typed', RecordsKept, NEW t \in Task, Send(t)
  PROVE  TaskFits(t)'
<1>1. PICK o \in Op, k \in Tx : o = op[t] /\ k = tx[t]
  BY DEF IInv, Typed, TaskTyped, Send, SignedPoint
<1>2. pc'[t] = "sending" /\ op'[t] = o /\ tx'[t] = k
  BY <1>1 DEF Send, Goto, IInv, Typed, EvmTypeOK
<1>3. o \notin EvmOp /\ Inputs(o) # {} /\ Marked(o, k)
  BY <1>1, BoundaryFits DEF IInv, Send, Boundary
<1>4. Inputs(o)' # {} /\ Marked(o, k)'
  BY <1>3, InputsStay, MarkedStays DEF IInv
<1>5. FitsAt("sending", o, k)'
  BY <1>3, <1>4 DEF FitsAt, CosmosCall, BeforeMark, AfterMark, EvmPoint, EvmAfterMark, Boundary
<1>6. QED
  BY <1>2, <1>5, FitsNext

LEMMA WalletSendsMoves ==
  ASSUME IInv, Typed', RecordsKept, NEW t \in Task, WalletSends(t)
  PROVE  TaskFits(t)'
<1>1. PICK o \in Op, k \in Tx, fate \in {"pending", "refused", "lost"} :
        /\ o = op[t] /\ tx' = [tx EXCEPT ![t] = k]
        /\ net' = [net EXCEPT ![o][k] = fate]
  BY DEF IInv, Typed, TaskTyped, WalletSends
<1>2. pc'[t] = "asked" /\ op'[t] = o /\ tx'[t] = k /\ net'[o][k] # "unsent"
  BY <1>1 DEF WalletSends, IInv, Typed, EvmTypeOK
<1>3. o \in EvmOp /\ Inputs(o) # {} /\ Bound(o) /\ Counted(o)
  BY <1>1, BoundaryFits DEF IInv, WalletSends, Boundary
<1>4. Inputs(o)' # {} /\ Bound(o)' /\ Counted(o)'
  BY <1>3, InputsStay, BoundStays, CountedStays DEF IInv
<1>5. FitsAt("asked", o, k)'
  BY <1>2, <1>3, <1>4 DEF FitsAt, CosmosCall, BeforeMark, AfterMark, Boundary
<1>6. QED
  BY <1>2, <1>5, FitsNext

(* The call that takes a step, and then every call.                        *)
LEMMA TaskStepFits ==
  ASSUME IInv, Typed', RecordsKept, ChainMoves, \A o \in Op, n \in Note : Changes(o, n),
         NEW t \in Task, TaskStep(t)
  PROVE  TaskFits(t)'
<1>0. TasksTyped
  BY TypedParts DEF IInv
<1>1. CASE \E o \in Op, N \in SUBSET Note : Reserve(t, o, N)
  BY <1>1, ReserveMoves
<1>2. CASE \E o \in Op : Start(t, o)
  BY <1>2, StartMoves
<1>3. CASE FinishProof(t) \/ ReleaseOwn(t) \/ IsolateOwn(t) \/ RecordSubmitted(t)
           \/ RecordUnknown(t) \/ RecordRejection(t) \/ Throw(t)
  BY <1>0, <1>3, FinishFits DEF FinishProof, ReleaseOwn, IsolateOwn, RecordSubmitted,
                                RecordUnknown, RecordRejection, Throw
<1>4. CASE Heartbeat(t)
  <2>1. PICK p, o, k : p = pc[t] /\ o = op[t] /\ k = tx[t]
    OBVIOUS
  <2>2. pc'[t] = p /\ op'[t] = o /\ tx'[t] = k
    BY <1>4, <2>1 DEF Heartbeat, taskVars
  <2>3. FitsAt(p, o, k)'
    BY <2>1, <2>2, StillFits
  <2>4. QED
    BY <2>2, <2>3, FitsNext
<1>5. CASE WalletSigns(t)
  BY <1>5, WalletSignsMoves
<1>6. CASE Mark(t)
  BY <1>6, MarkMoves
<1>7. CASE Send(t)
  BY <1>7, SendMovesTask
<1> USE DEF CosmosCall, BeforeMark, AfterMark, EvmPoint, EvmAfterMark, Boundary
<1>8. CASE StartProving(t)
  <2>1. Goto(t, "proving") /\ UNCHANGED net /\ pc[t] = "reserved"
    BY <1>8 DEF StartProving, chainVars
  <2>2. QED
    BY <2>1, GotoMoves
<1>9. CASE PrepareFails(t)
  <2>1. Goto(t, "rollback") /\ UNCHANGED net /\ pc[t] \in {"reserved", "proving"}
    BY <1>9 DEF PrepareFails, chainVars
  <2>2. QED
    BY <2>1, GotoMoves
<1>10. CASE Rollback(t)
  <2>1. /\ Goto(t, "releasing") \/ Goto(t, "isolating") \/ Finish(t)
        /\ UNCHANGED net /\ pc[t] = "rollback"
    BY <1>10 DEF Rollback, chainVars
  <2>2. Goto(t, "releasing") => TaskFits(t)'
    BY <2>1, GotoMoves
  <2>3. Goto(t, "isolating") => TaskFits(t)'
    BY <2>1, GotoMoves
  <2>4. QED
    BY <1>0, <2>1, <2>2, <2>3, FinishFits
<1>11. CASE WalletRejects(t)
  <2>1. Goto(t, "wallet_rejected") /\ UNCHANGED net /\ pc[t] = "signing"
    BY <1>11 DEF WalletRejects, chainVars
  <2>2. QED
    BY <2>1, GotoMoves
<1>12. CASE RenewAfterWallet(t)
  <2>1. Goto(t, "renewed") /\ UNCHANGED net /\ pc[t] = "signed"
    BY <1>12 DEF RenewAfterWallet, chainVars
  <2>2. QED
    BY <2>1, GotoMoves
<1>13. CASE CheckNullifiers(t)
  <2>1. (Goto(t, "unspent") \/ Finish(t)) /\ UNCHANGED net /\ pc[t] = "renewed"
    BY <1>13 DEF CheckNullifiers, chainVars
  <2>2. Goto(t, "unspent") => TaskFits(t)'
    BY <2>1, GotoMoves
  <2>3. QED
    BY <1>0, <2>1, <2>2, FinishFits
<1>14. CASE CheckFreshness(t)
  <2>1. (Goto(t, "fresh") \/ Finish(t)) /\ UNCHANGED net /\ pc[t] = "unspent"
    BY <1>14 DEF CheckFreshness, chainVars
  <2>2. Goto(t, "fresh") => TaskFits(t)'
    BY <2>1, GotoMoves
  <2>3. QED
    BY <1>0, <2>1, <2>2, FinishFits
<1>15. CASE AbortBeforeRpc(t)
  <2>1. Goto(t, "aborted_before_rpc") /\ UNCHANGED net /\ pc[t] = "marked"
    BY <1>15 DEF AbortBeforeRpc, chainVars
  <2>2. QED
    BY <2>1, GotoMoves
<1>16. CASE Answer(t)
  <2>1. /\ \/ Goto(t, "waiting")
           \/ net[op[t]][tx[t]] = "refused" /\ Goto(t, "check_tx_rejected")
           \/ Goto(t, "unclear")
        /\ UNCHANGED net /\ pc[t] = "sending"
    BY <1>16 DEF Answer, chainVars
  <2>2. Goto(t, "waiting") => TaskFits(t)'
    BY <2>1, GotoMoves
  <2>3. net[op[t]][tx[t]] = "refused" /\ Goto(t, "check_tx_rejected") => TaskFits(t)'
    BY <2>1, GotoMoves
  <2>4. Goto(t, "unclear") => TaskFits(t)'
    BY <2>1, GotoMoves
  <2>5. QED
    BY <2>1, <2>2, <2>3, <2>4
<1>17. CASE WaitForTx(t)
  <2>1. /\ \/ net[op[t]][tx[t]] = "included" /\ Goto(t, "included")
           \/ Goto(t, "unclear")
        /\ UNCHANGED net /\ pc[t] = "waiting"
    BY <1>17 DEF WaitForTx, chainVars
  <2>2. net[op[t]][tx[t]] = "included" /\ Goto(t, "included") => TaskFits(t)'
    BY <2>1, GotoMoves
  <2>3. Goto(t, "unclear") => TaskFits(t)'
    BY <2>1, GotoMoves
  <2>4. QED
    BY <2>1, <2>2, <2>3
<1>18. QED
  BY <1>1, <1>2, <1>3, <1>4, <1>5, <1>6, <1>7, <1>8, <1>9, <1>10, <1>11, <1>12, <1>13,
     <1>14, <1>15, <1>16, <1>17 DEF TaskStep

LEMMA EvmTaskStepFits ==
  ASSUME IInv, Typed', RecordsKept, NEW t \in Task, EvmTaskStep(t)
  PROVE  TaskFits(t)'
<1>0. TasksTyped
  BY TypedParts DEF IInv
<1>1. CASE EvmFinishProof(t) \/ EvmRecordSubmitted(t) \/ EvmRecordRejection(t)
           \/ EvmIsolate(t) \/ EvmThrow(t)
  BY <1>0, <1>1, FinishFits DEF EvmFinishProof, EvmRecordSubmitted, EvmRecordRejection,
                                EvmIsolate, EvmThrow
<1>2. CASE \E o \in Op : EvmStart(t, o)
  BY <1>2, EvmStartMoves
<1>3. CASE EvmMark(t)
  BY <1>3, EvmMarkMoves
<1>4. CASE WalletSends(t)
  BY <1>4, WalletSendsMoves
<1> USE DEF CosmosCall, BeforeMark, AfterMark, EvmPoint, EvmAfterMark, Boundary
<1>5. CASE EvmCheckNullifiers(t)
  <2>1. (Goto(t, "ready") \/ Finish(t)) /\ UNCHANGED net /\ pc[t] = "checking"
    BY <1>5 DEF EvmCheckNullifiers, chainVars
  <2>2. Goto(t, "ready") => TaskFits(t)'
    BY <2>1, GotoMoves
  <2>3. QED
    BY <1>0, <2>1, <2>2, FinishFits
<1>6. CASE WalletRefuses(t)
  <2>1. Goto(t, "declined") /\ UNCHANGED net /\ pc[t] = "asking"
    BY <1>6 DEF WalletRefuses, chainVars
  <2>2. QED
    BY <2>1, GotoMoves
<1>7. CASE WalletAnswers(t)
  <2>1. (Goto(t, "hashed") \/ Goto(t, "opaque")) /\ UNCHANGED net /\ pc[t] = "asked"
    BY <1>7 DEF WalletAnswers, chainVars
  <2>2. Goto(t, "hashed") => TaskFits(t)'
    BY <2>1, GotoMoves
  <2>3. Goto(t, "opaque") => TaskFits(t)'
    BY <2>1, GotoMoves
  <2>4. QED
    BY <2>1, <2>2, <2>3
<1>8. QED
  BY <1>1, <1>2, <1>3, <1>4, <1>5, <1>6, <1>7 DEF EvmTaskStep

LEMMA CrashFits ==
  ASSUME IInv, Typed', RecordsKept, ChainMoves, \A o \in Op, n \in Note : Changes(o, n),
         NEW m \in Manager, Crash(m), NEW u \in Task
  PROVE  TaskFits(u)'
<1>1. CASE SessionOf[u] = m
  BY <1>1 DEF Crash, TaskFits, FitsAt, CosmosCall, BeforeMark, AfterMark, EvmPoint,
              EvmAfterMark, Boundary
<1>2. CASE SessionOf[u] # m
  <2>1. PICK p, o, k : p = pc[u] /\ o = op[u] /\ k = tx[u]
    OBVIOUS
  <2>2. pc'[u] = p /\ op'[u] = o /\ tx'[u] = k
    BY <1>2, <2>1 DEF Crash
  <2>3. FitsAt(p, o, k)'
    BY <2>1, <2>2, StillFits
  <2>4. QED
    BY <2>2, <2>3, FitsNext
<1>3. QED
  BY <1>1, <1>2

(* Whoever is cut off by a crash: the other calls, and other steps.        *)
LEMMA CallsMove ==
  ASSUME TasksTyped, [EvmNext]_vars
  PROVE  \/ \E t \in Task : /\ TaskStep(t) \/ EvmTaskStep(t)
                            /\ \A u \in Task \ {t} :
                                 pc'[u] = pc[u] /\ op'[u] = op[u] /\ tx'[u] = tx[u]
         \/ UNCHANGED taskVars
         \/ \E m \in Manager : Crash(m)
<1>1. CASE \E t \in Task : TaskStep(t) \/ EvmTaskStep(t)
  BY <1>1, OthersWait
<1>2. CASE \E o \in Op : RecoveryStep(o) \/ ChainStep(o) \/ Expire(o)
  BY <1>2, OthersKeepTasks
<1>3. CASE (\E S \in SUBSET spent : Reconcile(S)) \/ (\E n \in Note : SpendElsewhere(n))
           \/ Tick \/ UNCHANGED vars
  BY <1>3 DEF Reconcile, SpendElsewhere, Tick, vars
<1>4. QED
  BY <1>1, <1>2, <1>3 DEF EvmNext, Next

LEMMA TasksFit ==
  ASSUME IInv, Typed', RecordsKept, ChainMoves, \A o \in Op, n \in Note : Changes(o, n),
         [EvmNext]_vars, NEW u \in Task
  PROVE  TaskFits(u)'
<1>0. TasksTyped
  BY TypedParts DEF IInv
<1>1. ASSUME pc'[u] = pc[u] /\ op'[u] = op[u] /\ tx'[u] = tx[u]
      PROVE  TaskFits(u)'
  <2>1. PICK p, o, k : p = pc[u] /\ o = op[u] /\ k = tx[u]
    OBVIOUS
  <2>2. FitsAt(p, o, k)'
    BY <1>1, <2>1, StillFits
  <2>3. QED
    BY <1>1, <2>1, <2>2, FitsNext
<1>2. CASE \E t \in Task : /\ TaskStep(t) \/ EvmTaskStep(t)
                           /\ \A v \in Task \ {t} :
                                pc'[v] = pc[v] /\ op'[v] = op[v] /\ tx'[v] = tx[v]
  BY <1>1, <1>2, TaskStepFits, EvmTaskStepFits
<1>3. CASE UNCHANGED taskVars
  BY <1>1, <1>3 DEF taskVars
<1>4. CASE \E m \in Manager : Crash(m)
  BY <1>4, CrashFits
<1>5. QED
  BY <1>0, <1>2, <1>3, <1>4, CallsMove

------------------------------------------------------------------------------
(* Two calls about one payment.                                            *)

(* What a mark finds, on either transport: nobody else has marked.         *)
LEMMA MarkFinds ==
  ASSUME IInv, RecordsKept, NEW t \in Task, Mark(t) \/ EvmMark(t), NEW o \in Op, o = op[t]
  PROVE  /\ Inputs(o) # {} /\ Silent(o)
         /\ \A u \in Task : op[u] = o => pc[u] \notin Boundary \cup {"declined"}
         /\ \A n \in Inputs(o) : status[o][n] = "ProofReady"
<1>1. Whole(o) /\ UNCHANGED net
  BY DEF Mark, EvmMark, chainVars
<1>2. PICK hash, k : Attempts(SessionOf[t], o, hash, k)
  BY SameCalls DEF Mark, EvmMark, Attempts
<1>3. /\ Inputs(o) # {} /\ Silent(o)
      /\ \A u \in Task : op[u] = o => pc[u] \notin Boundary
      /\ \A n \in Inputs(o) : status[o][n] = "ProofReady" /\ broadcast[o][n].count = 0
  BY <1>1, <1>2, MarkWrites
<1>4. ASSUME NEW u \in Task, op[u] = o, pc[u] = "declined" PROVE FALSE
  BY <1>3, <1>4 DEF IInv, TaskFits, FitsAt, EvmAfterMark, Counted
<1>5. QED
  BY <1>3, <1>4

CallKept(v) ==
  /\ pc'[v] \in CosmosCall => pc[v] \in CosmosCall /\ op'[v] = op[v]
  /\ pc'[v] \in Boundary => pc[v] \in Boundary /\ op'[v] = op[v]
  /\ pc'[v] = "declined" => pc[v] \in {"asking", "declined"} /\ op'[v] = op[v]

LEMMA CallsKept ==
  ASSUME TasksTyped, NEW t \in Task, TaskStep(t) \/ EvmTaskStep(t),
         ~(\E o \in Op : Start(t, o)), ~Mark(t), ~EvmMark(t)
  PROVE  CallKept(t)
<1> USE DEF CallKept, CosmosCall, BeforeMark, AfterMark, Boundary, TasksTyped
<1>1. CASE TaskStep(t)
  <2>1. CASE \/ \E o \in Op, N \in SUBSET Note : Reserve(t, o, N)
             \/ StartProving(t) \/ FinishProof(t) \/ PrepareFails(t) \/ Rollback(t)
             \/ ReleaseOwn(t) \/ IsolateOwn(t)
    BY <2>1 DEF Reserve, StartProving, FinishProof, PrepareFails, Rollback, ReleaseOwn,
                IsolateOwn, Goto, Finish
  <2>2. CASE Heartbeat(t) \/ WalletSigns(t) \/ WalletRejects(t) \/ RenewAfterWallet(t)
             \/ CheckNullifiers(t) \/ CheckFreshness(t)
    BY <2>2 DEF Heartbeat, WalletSigns, WalletRejects, RenewAfterWallet, CheckNullifiers,
                CheckFreshness, Goto, Finish, taskVars
  <2>3. CASE AbortBeforeRpc(t) \/ Send(t) \/ Answer(t) \/ WaitForTx(t)
    BY <2>3 DEF AbortBeforeRpc, Send, Answer, WaitForTx, Goto
  <2>4. CASE RecordSubmitted(t) \/ RecordUnknown(t) \/ RecordRejection(t) \/ Throw(t)
    BY <2>4 DEF RecordSubmitted, RecordUnknown, RecordRejection, Throw, Finish
  <2>5. QED
    BY <1>1, <2>1, <2>2, <2>3, <2>4 DEF TaskStep
<1>2. CASE EvmTaskStep(t)
  BY <1>2 DEF EvmTaskStep, EvmFinishProof, EvmStart, EvmCheckNullifiers, WalletRefuses,
              WalletSends, WalletAnswers, EvmRecordSubmitted, EvmRecordRejection, EvmIsolate,
              EvmThrow, Goto, Finish
<1>3. QED
  BY <1>1, <1>2

LEMMA KeptCallsFit ==
  ASSUME NEW t \in Task, NEW u \in Task, CallsFit(t, u), CallsFit(u, t),
         CallKept(t), CallKept(u)
  PROVE  CallsFit(t, u)'
BY DEF CallsFit, CallKept, CosmosCall, BeforeMark, AfterMark, Boundary

LEMMA StartCallsFit ==
  ASSUME IInv, NEW t \in Task, NEW o \in Op, Start(t, o), NEW u \in Task, u # t,
         pc'[u] = pc[u], op'[u] = op[u]
  PROVE  CallsFit(t, u)' /\ CallsFit(u, t)'
<1>1. pc'[t] = "signing" /\ op'[t] = o
  BY DEF IInv, Typed, EvmTypeOK, Start
<1>2. o \in AsksAgain \/ (op[u] = o => pc[u] \in Preparing)
  BY DEF Start, FirstCall
<1>3. QED
  BY <1>1, <1>2 DEF CallsFit, Preparing, CosmosCall, BeforeMark, AfterMark, Boundary

LEMMA MarkCallsFit ==
  ASSUME IInv, RecordsKept, NEW t \in Task, Mark(t) \/ EvmMark(t), NEW u \in Task, u # t,
         pc'[u] = pc[u], op'[u] = op[u]
  PROVE  CallsFit(t, u)' /\ CallsFit(u, t)'
<1>1. PICK o \in Op : o = op[t]
  BY DEF IInv, Typed, TaskTyped, Mark, EvmMark
<1>2. op[u] = o => pc[u] \notin Boundary \cup {"declined"}
  BY <1>1, MarkFinds
<1>3. /\ op'[t] = o /\ pc'[t] \in Boundary
      /\ pc'[t] \in CosmosCall => pc[t] \in CosmosCall
  BY <1>1 DEF Mark, EvmMark, Goto, IInv, Typed, EvmTypeOK, CosmosCall, BeforeMark, AfterMark,
              Boundary
<1>4. pc[t] \in CosmosCall /\ pc[u] \in CosmosCall /\ op[u] = o => o \in AsksAgain
  BY <1>1 DEF IInv, CallsFit
<1>5. QED
  BY <1>2, <1>3, <1>4 DEF CallsFit, Boundary

LEMMA CallsStayFit ==
  ASSUME IInv, RecordsKept, [EvmNext]_vars, NEW t \in Task, NEW u \in Task
  PROVE  CallsFit(t, u)'
<1>0. TasksTyped /\ CallsFit(t, u) /\ CallsFit(u, t)
  BY TypedParts DEF IInv
<1>1. CASE t = u
  BY <1>1 DEF CallsFit
<1>2. CASE t # u /\ \E v \in Task : /\ TaskStep(v) \/ EvmTaskStep(v)
                                    /\ \A w \in Task \ {v} :
                                         pc'[w] = pc[w] /\ op'[w] = op[w] /\ tx'[w] = tx[w]
  <2>1. PICK v \in Task : /\ TaskStep(v) \/ EvmTaskStep(v)
                          /\ \A w \in Task \ {v} : pc'[w] = pc[w] /\ op'[w] = op[w]
    BY <1>2
  <2>2. ASSUME NEW w \in Task, w # v PROVE CallKept(w)
    BY <2>1, <2>2 DEF CallKept
  <2>3. CASE CallKept(v)
    <3>1. CallKept(t) /\ CallKept(u)
      BY <2>2, <2>3
    <3>2. QED
      BY <1>0, <3>1, KeptCallsFit
  <2>4. CASE t # v /\ u # v
    <3>1. CallKept(t) /\ CallKept(u)
      BY <2>2, <2>4
    <3>2. QED
      BY <1>0, <3>1, KeptCallsFit
  <2>5. CASE (t = v \/ u = v) /\ \E o \in Op : Start(v, o)
    BY <1>2, <2>1, <2>5, StartCallsFit
  <2>6. CASE (t = v \/ u = v) /\ (Mark(v) \/ EvmMark(v))
    BY <1>2, <2>1, <2>6, MarkCallsFit
  <2>7. QED
    BY <1>0, <2>1, <2>3, <2>4, <2>5, <2>6, CallsKept
<1>3. CASE UNCHANGED taskVars
  BY <1>0, <1>3 DEF taskVars, CallsFit
<1>4. CASE \E m \in Manager : Crash(m)
  <2>1. ASSUME NEW w \in Task PROVE CallKept(w)
    BY <1>4 DEF Crash, CallKept, CosmosCall, BeforeMark, AfterMark, Boundary
  <2>2. QED
    BY <1>0, <2>1, KeptCallsFit
<1>5. QED
  BY <1>0, <1>1, <1>2, <1>3, <1>4, CallsMove

------------------------------------------------------------------------------
(* The records and the chain.                                              *)

LEMMA RecordTyped ==
  ASSUME Typed, NEW o \in Op, NEW n \in Note
  PROVE  /\ broadcast[o][n].submitted # 0 => broadcast[o][n].submitted \in Tx
         /\ broadcast[o][n].count \in Nat
BY DEF Typed, EvmTypeOK, Store!TypeOK, Store!BroadcastType, Store!Broadcast, Store!TxId, Tx

LEMMA RefusedIsDeclined ==
  ASSUME NEW t \in Task, TaskFits(t), pc[t] \in Rejecter, op[t] \in EvmOp
  PROVE  pc[t] = "declined" /\ Counted(op[t]) /\ Silent(op[t])
BY DEF TaskFits, FitsAt, Rejecter, Refusal, CosmosCall, BeforeMark, AfterMark, EvmAfterMark

LEMMA EvmRecordFits ==
  ASSUME IInv, Typed', RecordsKept, ChainMoves, NEW o \in Op, NEW n \in Note,
         Changes(o, n), o \in EvmOp
  PROVE  RecordFits(o, n)'
<1> DEFINE b == broadcast[o][n]
           b2 == broadcast'[o][n]
<1>0. Typed /\ RecordFits(o, n) /\ RecordKept(o, n) /\ \A t \in Task : TaskFits(t)
  BY DEF IInv, RecordsKept
<1>1. ~b2.signDoc
  BY <1>0 DEF RecordFits, Changes
<1>2. b2.submitted # 0 => net'[o][b2.submitted] # "unsent"
  <2>1. CASE b2.submitted = b.submitted
    BY <1>0, <2>1, RecordTyped, NetStays DEF RecordFits
  <2>2. CASE b2.submitted # b.submitted
    <3>1. PICK t \in Task : pc[t] = "hashed" /\ op[t] = o /\ tx[t] = b2.submitted
      BY <2>2 DEF Changes
    <3>2. net[o][tx[t]] # "unsent" /\ tx[t] \in Tx
      BY <1>0, <3>1 DEF TaskFits, FitsAt, Typed, TaskTyped, SignedPoint
    <3>3. QED
      BY <3>1, <3>2, NetStays
  <2>3. QED
    BY <2>1, <2>2
<1>3. ASSUME "broadcast_rejected" \in evidence'[o][n]
      PROVE  n \in Inputs(o) /\ b.count >= 1 /\ Silent(o)'
  <2>1. CASE Records!NotRefused(o, n)
    <3>1. /\ "broadcast_rejected" \in evidence[o][n]
          /\ n \in Inputs(o) /\ b.count >= 1 /\ Silent(o)
      BY <1>0, <1>3, <2>1 DEF Records!NotRefused, RecordFits
    <3>2. ASSUME NEW t \in Task, NEW k \in Tx, GivenBy(t, o, k) PROVE FALSE
      <4>1. Unrefused(o)
        BY <1>0, <3>2, BoundaryFits DEF GivenBy, Boundary
      <4>2. QED
        BY <3>1, <4>1 DEF Unrefused
    <3>3. QED
      BY <3>1, <3>2, SilentStays
  <2>2. CASE ~Records!NotRefused(o, n)
    <3>1. PICK t \in Task : pc[t] \in Rejecter /\ op[t] = o
      BY <2>2 DEF Changes
    <3>2. n \in Inputs(o) /\ UNCHANGED net
      BY <2>2 DEF Changes
    <3>3. Counted(o) /\ Silent(o)
      BY <1>0, <3>1, RefusedIsDeclined
    <3>4. QED
      BY <3>2, <3>3 DEF Counted, Silent
  <2>3. QED
    BY <2>1, <2>2
<1>4. ASSUME "broadcast_rejected" \in evidence'[o][n]
      PROVE  n \in Inputs(o)' /\ b2.count >= 1
  <2>1. n \in Inputs(o)'
    BY <1>3, <1>4, InputsStay
  <2>2. b.count \in Nat /\ b2.count \in Nat
    BY <1>0, RecordTyped DEF Typed, EvmTypeOK, Store!TypeOK, Store!BroadcastType, Store!Broadcast
  <2>3. QED
    BY <1>0, <1>3, <1>4, <2>1, <2>2 DEF RecordKept
<1>5. QED
  BY <1>1, <1>2, <1>3, <1>4 DEF RecordFits

LEMMA CosmosRecordFits ==
  ASSUME IInv, RecordsKept, ChainMoves, NEW o \in Op, NEW n \in Note,
         Changes(o, n), o \notin EvmOp
  PROVE  RecordFits(o, n)'
<1> DEFINE b == broadcast[o][n]
           b2 == broadcast'[o][n]
<1>0. Typed /\ RecordFits(o, n) /\ RecordKept(o, n) /\ \A t \in Task : TaskFits(t)
  BY DEF IInv, RecordsKept
<1>1. b2.submitted = b2.bytes
  BY <1>0 DEF RecordFits, Changes
<1>2. ASSUME status'[o][n] = "Submitted"
      PROVE  b.submitted # 0 /\ net[o][b.submitted] = "included"
  <2>1. CASE status[o][n] = "Submitted"
    BY <1>0, <2>1 DEF RecordFits
  <2>2. CASE status[o][n] # "Submitted"
    <3>1. n \in Inputs(o) /\ \E t \in Task : pc[t] = "included" /\ op[t] = o
      BY <1>2, <2>2 DEF Changes
    <3>2. PICK t \in Task : pc[t] = "included" /\ op[t] = o
      BY <3>1
    <3>3. Marked(o, tx[t]) /\ net[o][tx[t]] = "included" /\ tx[t] \in Tx
      BY <1>0, <3>2 DEF TaskFits, FitsAt, AfterMark, Typed, TaskTyped, SignedPoint
    <3>4. QED
      BY <3>1, <3>3 DEF Marked, Tx
  <2>3. QED
    BY <2>1, <2>2
<1>3. ASSUME status'[o][n] = "Submitted"
      PROVE  b2.submitted # 0 /\ net'[o][b2.submitted] = "included"
  BY <1>0, <1>2, <1>3, RecordTyped, NetStays DEF RecordKept
<1>4. QED
  BY <1>1, <1>3 DEF RecordFits

(* Where a transaction comes from: it was sent before, or a call past its  *)
(* mark sends it now.                                                      *)
LEMMA SentSource ==
  ASSUME IInv, ChainMoves, NEW o \in Op, NEW k \in Tx, net'[o][k] # "unsent"
  PROVE  /\ Inputs(o) # {} /\ Counted(o)
         /\ o \notin EvmOp => Marked(o, k)
         /\ o \in EvmOp => Bound(o)
         /\ net[o][k] = "unsent" => Silent(o)
<1>1. CASE net[o][k] # "unsent"
  BY <1>1, SentFits DEF IInv
<1>2. CASE net[o][k] = "unsent"
  <2>1. PICK t \in Task : GivenBy(t, o, k)
    BY <1>2 DEF ChainMoves, Moves
  <2>2. pc[t] \in Boundary /\ op[t] = o /\ (pc[t] = "marked" => tx[t] = k)
    BY <2>1 DEF GivenBy
  <2>3. QED
    BY <2>2, BoundaryFits DEF IInv, Boundary
<1>3. QED
  BY <1>1, <1>2

LEMMA NetStaysFit ==
  ASSUME IInv, Typed', RecordsKept, ChainMoves, NEW o \in Op
  PROVE  NetFits(o)'
<1>0. Typed /\ NetFits(o)
  BY DEF IInv
<1>1. ASSUME NEW k \in Tx, net'[o][k] # "unsent"
      PROVE  /\ Inputs(o)' # {}
             /\ o \notin EvmOp => Marked(o, k)'
             /\ o \in EvmOp => Bound(o)' /\ Counted(o)'
  BY <1>0, <1>1, SentSource, InputsStay, MarkedStays, BoundStays, CountedStays
<1>2. ASSUME NEW k1 \in Tx, NEW k2 \in Tx, net'[o][k1] # "unsent", net'[o][k2] # "unsent"
      PROVE  k1 = k2
  <2>1. CASE net[o][k1] # "unsent" /\ net[o][k2] # "unsent"
    BY <1>0, <2>1 DEF NetFits
  <2>2. CASE net[o][k1] = "unsent" /\ net[o][k2] = "unsent"
    BY <1>2, <2>2 DEF ChainMoves
  <2>3. CASE net[o][k1] = "unsent" /\ net[o][k2] # "unsent"
    BY <1>2, <2>3, SentSource DEF Silent
  <2>4. CASE net[o][k1] # "unsent" /\ net[o][k2] = "unsent"
    BY <1>2, <2>4, SentSource DEF Silent
  <2>5. QED
    BY <2>1, <2>2, <2>3, <2>4
<1>3. QED
  BY <1>1, <1>2 DEF NetFits

------------------------------------------------------------------------------
(* What the payments hold.                                                 *)

LEMMA ClaimsStayFit ==
  ASSUME IInv, RecordsKept, [EvmNext]_vars, Typed'
  PROVE  ClaimsFit'
<1>1. SUFFICES ASSUME NEW m \in Manager, NEW o \in claim'[m] PROVE Inputs(o)' # {}
  BY DEF ClaimsFit
<1>2. Records!TypeOK /\ [Records!Next]_Records!vars /\ o \in Op
  BY StoreTyping, StoreStep, SameReading
     DEF IInv, storeVars, Records!vars, Typed, EvmTypeOK, Store!TypeOK, Store!ClaimType
<1>3. o \in claim[m] \/ Records!Linked(o)' # {}
  BY <1>2, Records!ClaimsComeFromReserving, StoreAssumptions DEF Records!TypeOK
<1>4. o \in claim[m] => Inputs(o) # {}
  BY DEF IInv, ClaimsFit
<1>5. QED
  BY <1>2, <1>3, <1>4, InputsLinked, InputsStay

(* A payment starts to be open with its mark.                              *)
LEMMA BoundaryComes ==
  ASSUME TasksTyped, [EvmNext]_vars, NEW o \in Op, AtBoundary(o)'
  PROVE  AtBoundary(o) \/ \E t \in Task : (Mark(t) \/ EvmMark(t)) /\ op[t] = o
<1>1. PICK u \in Task : pc'[u] \in Boundary /\ op'[u] = o
  BY DEF AtBoundary
<1>2. CASE \E v \in Task : /\ TaskStep(v) \/ EvmTaskStep(v)
                           /\ \A w \in Task \ {v} :
                                pc'[w] = pc[w] /\ op'[w] = op[w] /\ tx'[w] = tx[w]
  <2>1. PICK v \in Task : /\ TaskStep(v) \/ EvmTaskStep(v)
                          /\ \A w \in Task \ {v} : pc'[w] = pc[w] /\ op'[w] = op[w]
    BY <1>2
  <2>2. CASE u # v
    BY <1>1, <2>1, <2>2 DEF AtBoundary
  <2>3. CASE u = v /\ CallKept(v)
    BY <1>1, <2>3 DEF CallKept, AtBoundary
  <2>4. CASE u = v /\ \E p \in Op : Start(v, p)
    BY <1>1, <2>4 DEF Start, TasksTyped, Boundary
  <2>5. CASE u = v /\ (Mark(v) \/ EvmMark(v))
    BY <1>1, <2>5 DEF Mark, EvmMark, Goto
  <2>6. QED
    BY <2>1, <2>2, <2>3, <2>4, <2>5, CallsKept
<1>3. CASE UNCHANGED taskVars
  BY <1>1, <1>3 DEF taskVars, AtBoundary
<1>4. CASE \E m \in Manager : Crash(m)
  BY <1>1, <1>4 DEF Crash, AtBoundary, Boundary
<1>5. QED
  BY <1>2, <1>3, <1>4, CallsMove

LEMMA OpenComes ==
  ASSUME TasksTyped, ChainMoves, [EvmNext]_vars, NEW o \in Op, Open(o)'
  PROVE  Open(o) \/ \E t \in Task : (Mark(t) \/ EvmMark(t)) /\ op[t] = o
<1>0. o \in expired => o \in expired'
  BY DEF ChainMoves
<1>1. CASE \E k \in Tx : MayPay(o, k)'
  <2>1. PICK k \in Tx : MayPay(o, k)'
    BY <1>1
  <2>2. net'[o][k] = "included" \/ (net'[o][k] = "pending" /\ o \notin expired')
    BY <2>1 DEF MayPay
  <2>3. Moves(o, k)
    BY DEF ChainMoves
  <2>4. CASE MayPay(o, k)
    BY <2>4 DEF Open
  <2>5. CASE \E t \in Task : GivenBy(t, o, k) /\ net'[o][k] # "included"
    BY <1>0, <2>2, <2>5 DEF GivenBy, Open, AtBoundary
  <2>6. QED
    BY <1>0, <2>2, <2>3, <2>4, <2>5 DEF Moves, MayPay
<1>2. CASE AtBoundary(o)' /\ o \notin expired'
  BY <1>0, <1>2, BoundaryComes DEF Open
<1>3. QED
  BY <1>1, <1>2 DEF Open

LEMMA OpenFits ==
  ASSUME IInv, NEW o \in Op, Open(o)
  PROVE  Inputs(o) # {}
<1>1. CASE \E k \in Tx : MayPay(o, k)
  BY <1>1, SentFits DEF MayPay, IInv
<1>2. CASE AtBoundary(o)
  BY <1>2, BoundaryFits DEF AtBoundary, IInv
<1>3. QED
  BY <1>1, <1>2 DEF Open

LEMMA ExcusedStays ==
  ASSUME RecordsKept, NEW o \in Op, NEW n \in Note, Excused(o, n)
  PROVE  Excused(o, n)'
BY DEF RecordsKept, RecordKept, Excused

LEMMA HeldStaysFit ==
  ASSUME IInv, RecordsKept, ChainMoves, [EvmNext]_vars, NEW o \in Op,
         \A n \in Note : Leaves(o, n)
  PROVE  HeldFits(o)'
<1>0. TasksTyped /\ HeldFits(o)
  BY TypedParts DEF IInv
<1>1. SUFFICES ASSUME Open(o)', NEW n \in Inputs(o)'
               PROVE  status'[o][n] \in Holding \/ Excused(o, n)'
  BY DEF HeldFits
<1>2. CASE Open(o)
  <2>1. n \in Inputs(o) /\ n \in Note
    BY <1>1, <1>2, OpenFits, InputsStay, LiveInputs
  <2>2. status[o][n] \in Holding \/ Excused(o, n)
    BY <1>0, <1>2, <2>1 DEF HeldFits
  <2>3. Leaves(o, n)
    BY <2>1
  <2>4. CASE status[o][n] \in Holding
    BY <1>2, <2>1, <2>3, <2>4 DEF Leaves, Excused
  <2>5. QED
    BY <2>1, <2>2, <2>4, ExcusedStays
<1>3. CASE \E t \in Task : (Mark(t) \/ EvmMark(t)) /\ op[t] = o
  <2>1. PICK t \in Task : (Mark(t) \/ EvmMark(t)) /\ op[t] = o
    BY <1>3
  <2>2. Inputs(o) # {} /\ \A i \in Inputs(o) : status[o][i] = "ProofReady"
    BY <2>1, MarkFinds
  <2>3. UNCHANGED status
    BY <2>1, SameCalls DEF Mark, EvmMark, Records!MarkBroadcastAttempting
  <2>4. QED
    BY <1>1, <2>2, <2>3, InputsStay DEF Holding
<1>4. QED
  BY <1>0, <1>1, <1>2, <1>3, OpenComes

(* The marked payment holds its notes alone.                               *)
LEMMA MarkedHoldsAlone ==
  ASSUME IInv, RecordsKept, Records!Exclusive, NEW t \in Task, Mark(t) \/ EvmMark(t),
         NEW p \in Op, op[t] = p, NEW q \in Op, q # p, Open(q),
         NEW n \in Inputs(p) \cap Inputs(q)
  PROVE  Excused(q, n)
<1>1. status[p][n] = "ProofReady"
  BY MarkFinds
<1>2. n \in Note
  BY LiveInputs
<1>3. status[q][n] \notin Records!Active \cup {"ConfirmedSpent"}
  BY <1>1, <1>2 DEF Records!Exclusive, Records!Active
<1>4. status[q][n] \notin Holding
  BY <1>3 DEF Records!Active, Holding
<1>5. QED
  BY <1>4 DEF IInv, HeldFits

LEMMA OneMark ==
  ASSUME TasksTyped, NEW t \in Task, Mark(t) \/ EvmMark(t),
         NEW u \in Task, Mark(u) \/ EvmMark(u)
  PROVE  t = u
<1>1. pc[t] \in {"fresh", "ready"} /\ pc'[t] \in {"marked", "asking"}
  BY DEF TasksTyped, Mark, EvmMark, Goto
<1>2. u # t => pc'[t] = pc[t]
  BY DEF TasksTyped, Mark, EvmMark, Goto
<1>3. QED
  BY <1>1, <1>2

LEMMA PayStaysFit ==
  ASSUME IInv, RecordsKept, ChainMoves, [EvmNext]_vars, Records!Exclusive,
         NEW p \in Op, NEW q \in Op
  PROVE  PayFits(p, q)'
<1>0. TasksTyped /\ PayFits(p, q) /\ PayFits(q, p)
  BY TypedParts DEF IInv
<1>1. SUFFICES ASSUME p # q, Open(p)', Open(q)', NEW n \in Inputs(p)' \cap Inputs(q)'
               PROVE  Excused(p, n)' \/ Excused(q, n)'
  BY DEF PayFits
<1> DEFINE MarkedNow(o) == \E t \in Task : (Mark(t) \/ EvmMark(t)) /\ op[t] = o
<1>2. (Open(p) \/ MarkedNow(p)) /\ (Open(q) \/ MarkedNow(q))
  BY <1>0, <1>1, OpenComes
<1>3. Inputs(p) # {} /\ Inputs(q) # {}
  BY <1>2, OpenFits, MarkFinds
<1>4. n \in Inputs(p) \cap Inputs(q) /\ n \in Note
  BY <1>1, <1>3, InputsStay, LiveInputs
<1>5. SUFFICES Excused(p, n) \/ Excused(q, n)
  BY <1>4, ExcusedStays
<1>6. CASE Open(p) /\ Open(q)
  BY <1>0, <1>1, <1>4, <1>6 DEF PayFits
<1>7. CASE MarkedNow(p) /\ Open(q)
  BY <1>1, <1>4, <1>7, MarkedHoldsAlone
<1>8. CASE Open(p) /\ MarkedNow(q)
  BY <1>1, <1>4, <1>8, MarkedHoldsAlone
<1>9. CASE MarkedNow(p) /\ MarkedNow(q)
  BY <1>0, <1>1, <1>9, OneMark
<1>10. QED
  BY <1>2, <1>6, <1>7, <1>8, <1>9

------------------------------------------------------------------------------
(* The invariant holds at the start and through every step.                *)

LEMMA IInvInit == Init => IInv
<1> SUFFICES ASSUME Init PROVE IInv
  OBVIOUS
<1>0. Typed
  BY TypedInit
<1>1. ASSUME NEW t \in Task PROVE TaskFits(t) /\ \A u \in Task : CallsFit(t, u)
  BY DEF Init, TaskFits, FitsAt, CallsFit, CosmosCall, BeforeMark, AfterMark, EvmPoint,
         EvmAfterMark, Boundary
<1>2. ASSUME NEW o \in Op, NEW n \in Note PROVE RecordFits(o, n)
  BY DEF Init, RecordFits, Store!Init, Store!NoBroadcast, Store!NoRecord
<1>3. ASSUME NEW o \in Op PROVE NetFits(o) /\ ~Open(o)
  BY DEF Init, NetFits, Open, MayPay, AtBoundary, Boundary
<1>4. ASSUME NEW o \in Op PROVE HeldFits(o) /\ \A p \in Op : PayFits(o, p)
  BY <1>3 DEF HeldFits, PayFits
<1>5. ClaimsFit
  BY DEF Init, Store!Init, ClaimsFit
<1>6. QED
  BY <1>0, <1>1, <1>2, <1>3, <1>4, <1>5 DEF IInv

LEMMA IInvStep ==
  ASSUME IInv, Records!Exclusive, [EvmNext]_vars
  PROVE  IInv'
<1>1. Typed /\ TasksTyped /\ ChainTyped
  BY TypedParts DEF IInv
<1>2. Typed' /\ RecordsKept /\ ChainMoves
  BY <1>1, TypedStep, StepKeepsRecords, ChainSteps
<1>3. \A o \in Op, n \in Note : Changes(o, n) /\ Leaves(o, n)
  BY StepRecords
<1>4. \A t \in Task : TaskFits(t)'
  BY <1>2, <1>3, TasksFit
<1>5. \A t, u \in Task : CallsFit(t, u)'
  BY <1>2, CallsStayFit
<1>6. \A o \in Op, n \in Note : RecordFits(o, n)'
  BY <1>2, <1>3, EvmRecordFits, CosmosRecordFits
<1>7. \A o \in Op : NetFits(o)' /\ HeldFits(o)'
  BY <1>2, <1>3, NetStaysFit, HeldStaysFit
<1>8. \A p, q \in Op : PayFits(p, q)'
  BY <1>2, PayStaysFit
<1>9. ClaimsFit'
  BY <1>2, ClaimsStayFit
<1>10. QED
  BY <1>2, <1>4, <1>5, <1>6, <1>7, <1>8, <1>9 DEF IInv

------------------------------------------------------------------------------
(* The theorems.                                                           *)

LEMMA Invariant == EvmSpec => [](IInv /\ Records!TypeOK /\ Records!BroadcastAccountedFor)
<1>1. EvmSpec => []Records!Exclusive /\ []Records!BroadcastAccountedFor /\ []Records!TypeOK
  BY BroadcastsUseTheStore, Records!NotesAreExclusive, Records!BroadcastsAreAccountedFor,
     Records!Typing, StoreAssumptions, PTL
<1>2. IInv /\ Records!Exclusive /\ [EvmNext]_vars => IInv'
  BY IInvStep
<1>3. QED
  BY <1>1, <1>2, IInvInit, PTL DEF EvmSpec

(* Whatever was given to a node, and whatever a wallet was asked to send,  *)
(* is on every input of the operation already: its hash, bytes and sign    *)
(* doc (broadcastIdentity of cosmos-client.js), or its binding hash        *)
(* (beginBroadcastReservation of evm.js).                                  *)
THEOREM NothingIsSentUnmarked == EvmSpec => []NothingSentUnmarked
<1>1. IInv => NothingSentUnmarked
  <2>1. SUFFICES ASSUME IInv, NEW o \in Op, NEW k \in Tx, net[o][k] # "unsent",
                        NEW n \in Inputs(o)
                 PROVE  /\ o \notin EvmOp =>
                             LET b == broadcast[o][n]
                             IN  b.count >= 1 /\ b.submitted = k /\ b.bytes = k /\ b.signDoc
                        /\ o \in EvmOp =>
                             broadcast[o][n].count >= 1 /\ broadcast[o][n].bytes = Artifact
    BY RecordAssumption DEF NothingSentUnmarked, MarkedBeforeSent, AttemptBeforeWallet
  <2>2. QED
    BY <2>1, SentFits DEF IInv, Marked, Bound, Counted
<1>2. QED
  BY <1>1, Invariant, PTL

(* While a transaction has paid or may still pay, its inputs stay in the   *)
(* hands of its operation, unless an operator freed them or a second call  *)
(* for the payment was refused: sessions crash, leases run out, others     *)
(* cancel, reconcile and replan, and none of it frees the notes.           *)
THEOREM LivePayloadsAreHeld == EvmSpec => []LivePayloadIsHeld
<1>1. IInv => LivePayloadIsHeld
  BY DEF IInv, HeldFits, Open, LivePayloadIsHeld
<1>2. QED
  BY <1>1, Invariant, PTL

(* Nobody pays twice, for any number of sessions, calls, operations, notes *)
(* and transactions: no two operations from one note that nobody freed     *)
(* early, and no operation with two transactions.                          *)
THEOREM NobodyPaysTwice == EvmSpec => []PaidOnce
<1>1. ASSUME IInv PROVE PayOnce /\ OneTransaction
  <2>1. OneTransaction
    BY <1>1 DEF IInv, NetFits, OneTransaction
  <2>2. ASSUME NEW o1 \in Op, NEW o2 \in Op, NEW n \in Inputs(o1) \cap Inputs(o2),
               NEW k1 \in Tx, NEW k2 \in Tx, o1 # o2, MayPay(o1, k1), MayPay(o2, k2)
        PROVE  Excused(o1, n) \/ Excused(o2, n)
    <3>1. PayFits(o1, o2) /\ Open(o1) /\ Open(o2)
      BY <1>1, <2>2 DEF IInv, Open
    <3>2. QED
      BY <2>2, <3>1 DEF PayFits
  <2>3. QED
    BY <2>1, <2>2 DEF PayOnce
<1>2. IInv => PaidOnce
  BY <1>1 DEF PaidOnce
<1>3. QED
  BY <1>2, Invariant, PTL

(* What the records say became of a payment did: a Cosmos payment recorded *)
(* Submitted was included, a payment an EVM wallet refused was not taken   *)
(* by a node, and an attempt whose hash nobody knows is not written off.   *)
THEOREM RecordsTellTheTruth == EvmSpec => []RecordsAreTrue
<1>1. IInv => SubmittedIsIncluded
  BY DEF IInv, RecordFits, SubmittedIsIncluded
<1>2. IInv => RefusedWasNotSent
  <2>1. SUFFICES ASSUME IInv, NEW o \in EvmOp, NEW n \in Note,
                        "broadcast_rejected" \in evidence[o][n], NEW k \in Tx
                 PROVE  net[o][k] = "unsent"
    BY DEF RefusedWasNotSent
  <2>2. o \in Op
    BY RecordAssumption
  <2>3. QED
    BY <2>1, <2>2 DEF IInv, RecordFits, Silent
<1>3. Records!TypeOK /\ Records!BroadcastAccountedFor => HashlessNeedsOperator
  <2>1. SUFFICES ASSUME Records!TypeOK, Records!BroadcastAccountedFor,
                        NEW o \in EvmOp, NEW n \in Inputs(o),
                        broadcast[o][n].count >= 1, broadcast[o][n].submitted = 0,
                        status[o][n] \in {"ReplanRequired", "Failed", "Released"}
                 PROVE  {"broadcast_rejected", "operator_approved"} \cap evidence[o][n] # {}
    BY DEF HashlessNeedsOperator
  <2>2. o \in Op /\ n \in Note
    BY RecordAssumption, LiveInputs
  <2>3. broadcast[o][n].count \in Nat
    BY <2>1, <2>2 DEF Records!TypeOK, Records!BroadcastType, Records!Broadcast
  <2>4. evidence[o][n] \cap {"broadcast_rejected", "exact_failure", "operator_approved"} # {}
    BY <2>1, <2>2, <2>3 DEF Records!BroadcastAccountedFor, Records!NoSilentReuse, Records!Sent
  <2>5. Records!Identities(o, n) = {}
    BY <2>1 DEF Records!Identities
  <2>6. "exact_failure" \notin evidence[o][n]
    BY <2>1, <2>2, <2>5 DEF Records!BroadcastAccountedFor, Records!NoSilentReuse
  <2>7. QED
    BY <2>4, <2>6
<1>4. IInv /\ Records!TypeOK /\ Records!BroadcastAccountedFor => RecordsAreTrue
  BY <1>1, <1>2, <1>3 DEF RecordsAreTrue
<1>5. QED
  BY <1>4, Invariant, PTL
==============================================================================
