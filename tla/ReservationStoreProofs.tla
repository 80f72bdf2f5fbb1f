----------------------- MODULE ReservationStoreProofs -----------------------
(***************************************************************************)
(* What ReservationStore guarantees for every set of notes, operations and *)
(* managers.                                                               *)
(***************************************************************************)
EXTENDS ReservationStore, TLAPS

(* A batch over the live records of o replaces values of a type by values  *)
(* of that type.                                                           *)
LEMMA OnLiveType ==
  ASSUME NEW T, NEW o \in Op, NEW field \in [Op -> [Note -> T]],
         NEW value \in [Note -> T]
  PROVE  OnLive(o, field, value) \in [Op -> [Note -> T]]
  BY DEF OnLive

(* A transition of o changes the live records of o and no others.          *)
LEMMA MoveToValue ==
  ASSUME StatusType, NEW o \in Op, NEW to \in Status, MoveTo(o, to)
  PROVE  /\ StatusType'
         /\ \A n \in Note : status'[o][n] = IF n \in Live(o) THEN to ELSE status[o][n]
         /\ \A other \in Op \ {o} : status'[other] = status[other]
<1>1. status' = OnLive(o, status, [n \in Note |-> to])
  BY DEF MoveTo
<1>2. StatusType'
  <2>1. [n \in Note |-> to] \in [Note -> Status \cup {NoRecord}]
    OBVIOUS
  <2>2. QED
    BY <1>1, <2>1, OnLiveType DEF StatusType
<1>3. \A n \in Note : status'[o][n] = IF n \in Live(o) THEN to ELSE status[o][n]
  BY <1>1 DEF OnLive, StatusType
<1>4. \A other \in Op \ {o} : status'[other] = status[other]
  BY <1>1 DEF OnLive, StatusType
<1>5. QED
  BY <1>2, <1>3, <1>4

------------------------------------------------------------------------------
(* The fields, one helper each.                                            *)

LEMMA DropLeaseType ==
  ASSUME LeaseType, NEW o \in Op, DropLease(o)
  PROVE  LeaseType'
<1>1. NoLease \in Lease
  BY StoreAssumption DEF NoLease, Lease
<1>2. [n \in Note |-> NoLease] \in [Note -> Lease]
  BY <1>1
<1>3. QED
  BY <1>2, OnLiveType DEF DropLease, LeaseType

LEMMA TakeLeaseType ==
  ASSUME LeaseType, NEW o \in Op, NEW m \in Manager,
         lease' = OnLive(o, lease, [n \in Note |-> [owner |-> m, ttl |-> LeaseDuration]])
  PROVE  LeaseType'
<1>1. [n \in Note |-> [owner |-> m, ttl |-> LeaseDuration]] \in [Note -> Lease]
  BY StoreAssumption DEF Lease
<1>2. QED
  BY <1>1, OnLiveType DEF LeaseType

LEMMA WriteBroadcastType ==
  ASSUME BroadcastType, NEW o \in Op, NEW value \in [Note -> Broadcast],
         broadcast' = OnLive(o, broadcast, value)
  PROVE  BroadcastType'
  BY OnLiveType DEF BroadcastType

LEMMA SettleBroadcastType ==
  ASSUME BroadcastType, NEW o \in Op, SettleBroadcast(o)
  PROVE  BroadcastType'
<1>1. ASSUME NEW b \in Broadcast
      PROVE  [b EXCEPT !.inFlight = FALSE] \in Broadcast
  BY DEF Broadcast
<1>2. [n \in Note |-> [broadcast[o][n] EXCEPT !.inFlight = FALSE]] \in [Note -> Broadcast]
  BY <1>1 DEF BroadcastType
<1>3. QED
  BY <1>2, WriteBroadcastType DEF SettleBroadcast, WriteBroadcast

LEMMA AddEvidenceType ==
  ASSUME EvidenceType, NEW o \in Op, NEW tags \in SUBSET Tag, AddEvidence(o, tags)
  PROVE  EvidenceType'
<1>1. [n \in Note |-> evidence[o][n] \cup tags] \in [Note -> SUBSET Tag]
  BY DEF EvidenceType
<1>2. QED
  BY <1>1, OnLiveType DEF AddEvidence, EvidenceType

LEMMA MergeType ==
  ASSUME NEW T, NEW old \in T, NEW new \in T
  PROVE  Merge(old, new) \in T
  BY DEF Merge

(* The status and the fields every transition out of the worker's hands    *)
(* settles the same way.                                                   *)
LEMMA LeavesType ==
  ASSUME TypeOK, NEW o \in Op, NEW to \in Status, NEW tags \in SUBSET Tag,
         MoveTo(o, to), DropLease(o), SettleBroadcast(o),
         AddEvidence(o, tags) \/ UNCHANGED evidence,
         UNCHANGED <<outcome, claim>>
  PROVE  TypeOK'
<1>1. StatusType'
  BY MoveToValue DEF TypeOK
<1>2. LeaseType'
  BY DropLeaseType DEF TypeOK
<1>3. BroadcastType'
  BY SettleBroadcastType DEF TypeOK
<1>4. EvidenceType'
  BY AddEvidenceType DEF TypeOK, EvidenceType
<1>5. OutcomeType' /\ ClaimType'
  BY DEF TypeOK, OutcomeType, ClaimType
<1>6. QED
  BY <1>1, <1>2, <1>3, <1>4, <1>5 DEF TypeOK

LEMMA ReserveNotesType ==
  ASSUME TypeOK, NEW m \in Manager, NEW o \in Op, NEW N \in SUBSET Note,
         ReserveNotes(m, o, N)
  PROVE  TypeOK'
<1>1. StatusType'
  <2>1. [n \in Note |-> IF n \in N THEN "Reserved" ELSE NoRecord]
          \in [Note -> Status \cup {NoRecord}]
    BY DEF Status
  <2>2. QED
    BY <2>1 DEF ReserveNotes, TypeOK, StatusType
<1>2. ClaimType'
  BY DEF ReserveNotes, TypeOK, ClaimType
<1>3. QED
  BY <1>1, <1>2 DEF ReserveNotes, TypeOK, LeaseType, BroadcastType,
                    EvidenceType, OutcomeType

LEMMA MarkProvingType ==
  ASSUME TypeOK, NEW m \in Manager, NEW o \in Op, MarkProving(m, o)
  PROVE  TypeOK'
<1>1. StatusType'
  BY MoveToValue DEF MarkProving, TypeOK, Status
<1>2. LeaseType'
  BY TakeLeaseType DEF MarkProving, TypeOK
<1>3. QED
  BY <1>1, <1>2 DEF MarkProving, TypeOK, BroadcastType, EvidenceType,
                    OutcomeType, ClaimType

LEMMA RenewLeaseType ==
  ASSUME TypeOK, NEW m \in Manager, NEW o \in Op, NEW ttl \in 1 .. LeaseDuration,
         RenewLease(m, o, ttl)
  PROVE  TypeOK'
<1>1. ASSUME NEW l \in Lease
      PROVE  [l EXCEPT !.ttl = Later(@, ttl)] \in Lease
  BY StoreAssumption DEF Lease, Later
<1>2. [n \in Note |-> [lease[o][n] EXCEPT !.ttl = Later(@, ttl)]] \in [Note -> Lease]
  BY <1>1 DEF TypeOK, LeaseType
<1>3. LeaseType'
  BY <1>2, OnLiveType DEF RenewLease, TypeOK, LeaseType
<1>4. QED
  BY <1>3 DEF RenewLease, TypeOK, StatusType, BroadcastType, EvidenceType,
              OutcomeType, ClaimType

LEMMA MarkProofReadyType ==
  ASSUME TypeOK, NEW m \in Manager, NEW o \in Op, NEW payload \in PayloadId,
         NEW signed \in BOOLEAN, NEW tx \in TxId,
         MarkProofReady(m, o, payload, signed, tx)
  PROVE  TypeOK'
<1>1. StatusType'
  BY MoveToValue DEF MarkProofReady, TypeOK, Status
<1>2. LeaseType'
  BY TakeLeaseType DEF MarkProofReady, TypeOK
<1>3. BroadcastType'
  <2>1. ASSUME NEW b \in Broadcast
        PROVE  [b EXCEPT !.payload = payload, !.signDoc = signed, !.bytes = tx] \in Broadcast
    BY DEF Broadcast
  <2>2. [n \in Note |-> [broadcast[o][n] EXCEPT !.payload = payload,
                          !.signDoc = signed, !.bytes = tx]] \in [Note -> Broadcast]
    BY <2>1 DEF TypeOK, BroadcastType
  <2>3. QED
    BY <2>2, WriteBroadcastType DEF MarkProofReady, WriteBroadcast, TypeOK
<1>4. EvidenceType'
  <2>1. (IF o \in EvidenceOp THEN {"success_evidence_required"} ELSE {}) \in SUBSET Tag
    BY DEF Tag
  <2>2. QED
    BY <2>1, AddEvidenceType DEF MarkProofReady, TypeOK
<1>5. QED
  BY <1>1, <1>2, <1>3, <1>4 DEF MarkProofReady, TypeOK, OutcomeType, ClaimType

LEMMA RecordRelayHandoffType ==
  ASSUME TypeOK, NEW m \in Manager, NEW o \in Op, NEW signed \in BOOLEAN,
         NEW tx \in TxId, RecordRelayHandoff(m, o, signed, tx)
  PROVE  TypeOK'
<1>1. ASSUME NEW b \in Broadcast
      PROVE  [b EXCEPT !.handedOff = TRUE, !.signDoc = @ \/ signed,
                       !.bytes = Merge(@, tx)] \in Broadcast
  BY MergeType DEF Broadcast
<1>2. [n \in Note |-> [broadcast[o][n] EXCEPT !.handedOff = TRUE,
         !.signDoc = @ \/ signed, !.bytes = Merge(@, tx)]] \in [Note -> Broadcast]
  BY <1>1 DEF TypeOK, BroadcastType
<1>3. BroadcastType'
  BY <1>2, WriteBroadcastType DEF RecordRelayHandoff, WriteBroadcast, TypeOK
<1>4. QED
  BY <1>3 DEF RecordRelayHandoff, TypeOK, StatusType, LeaseType, EvidenceType,
              OutcomeType, ClaimType

LEMMA MarkBroadcastAttemptingType ==
  ASSUME TypeOK, NEW m \in Manager, NEW o \in Op, NEW hash \in TxId, NEW tx \in TxId,
         NEW signed \in BOOLEAN, NEW local \in BOOLEAN,
         MarkBroadcastAttempting(m, o, hash, tx, signed, local)
  PROVE  TypeOK'
<1>1. ASSUME NEW b \in Broadcast
      PROVE  [b EXCEPT !.inFlight = TRUE, !.count = @ + 1, !.local = local,
                       !.submitted = Merge(@, hash), !.bytes = Merge(@, tx),
                       !.signDoc = @ \/ signed] \in Broadcast
  <2>1. Merge(b.submitted, hash) \in TxId /\ Merge(b.bytes, tx) \in TxId
    BY MergeType DEF Broadcast
  <2>2. b.count + 1 \in Nat
    BY DEF Broadcast
  <2>3. (b.signDoc \/ signed) \in BOOLEAN
    OBVIOUS
  <2>4. QED
    BY <2>1, <2>2, <2>3, Zenon DEF Broadcast
<1>2. [n \in Note |-> [broadcast[o][n] EXCEPT !.inFlight = TRUE, !.count = @ + 1,
         !.local = local, !.submitted = Merge(@, hash), !.bytes = Merge(@, tx),
         !.signDoc = @ \/ signed]] \in [Note -> Broadcast]
  BY <1>1 DEF TypeOK, BroadcastType
<1>3. BroadcastType'
  BY <1>2, WriteBroadcastType DEF MarkBroadcastAttempting, WriteBroadcast, TypeOK
<1>4. QED
  BY <1>3 DEF MarkBroadcastAttempting, TypeOK, StatusType, LeaseType, EvidenceType,
              OutcomeType, ClaimType

LEMMA AfterAttemptType ==
  ASSUME TypeOK, NEW o \in Op, NEW to \in Status, NEW hash \in TxId, NEW tx \in TxId,
         AfterAttempt(o, to, hash, tx)
  PROVE  TypeOK'
<1>1. StatusType' /\ LeaseType'
  BY MoveToValue, DropLeaseType DEF AfterAttempt, TypeOK
<1>2. BroadcastType'
  <2>1. ASSUME NEW b \in Broadcast
        PROVE  [b EXCEPT !.inFlight = FALSE, !.submitted = Merge(@, hash),
                         !.bytes = Merge(@, tx)] \in Broadcast
    BY MergeType DEF Broadcast
  <2>2. [n \in Note |-> [broadcast[o][n] EXCEPT !.inFlight = FALSE,
           !.submitted = Merge(@, hash), !.bytes = Merge(@, tx)]] \in [Note -> Broadcast]
    BY <2>1 DEF TypeOK, BroadcastType
  <2>3. QED
    BY <2>2, WriteBroadcastType DEF AfterAttempt, WriteBroadcast, TypeOK
<1>3. QED
  BY <1>1, <1>2 DEF AfterAttempt, TypeOK, EvidenceType, OutcomeType, ClaimType

LEMMA RecordRelayTransactionEvidenceType ==
  ASSUME TypeOK, NEW o \in Op, NEW tx \in TxId,
         RecordRelayTransactionEvidence(o, tx)
  PROVE  TypeOK'
<1>1. StatusType' /\ LeaseType'
  BY MoveToValue, DropLeaseType
     DEF RecordRelayTransactionEvidence, TypeOK, Status
<1>2. BroadcastType'
  <2>1. ASSUME NEW b \in Broadcast
        PROVE  [b EXCEPT !.submitted = tx, !.inFlight = FALSE,
                         !.count = IF b.handedOff THEN 1 ELSE @] \in Broadcast
    BY DEF Broadcast
  <2>2. [n \in Note |-> [broadcast[o][n] EXCEPT !.submitted = tx, !.inFlight = FALSE,
           !.count = IF broadcast[o][n].handedOff THEN 1 ELSE @]] \in [Note -> Broadcast]
    BY <2>1 DEF TypeOK, BroadcastType
  <2>3. QED
    BY <2>2, WriteBroadcastType
       DEF RecordRelayTransactionEvidence, WriteBroadcast, TypeOK
<1>3. EvidenceType'
  <2>1. {"included"} \in SUBSET Tag
    BY DEF Tag
  <2>2. QED
    BY <2>1, AddEvidenceType DEF RecordRelayTransactionEvidence, TypeOK
<1>4. QED
  BY <1>1, <1>2, <1>3 DEF RecordRelayTransactionEvidence, TypeOK, OutcomeType, ClaimType

LEMMA MakeAvailableType ==
  ASSUME TypeOK, NEW o \in Op, NEW N \in SUBSET Note, MakeAvailable(o, N)
  PROVE  TypeOK'
<1>1. [n \in Note |-> IF n \in N THEN "Available" ELSE status[o][n]]
        \in [Note -> Status \cup {NoRecord}]
  BY DEF TypeOK, StatusType, Status
<1>2. StatusType'
  BY <1>1 DEF MakeAvailable, TypeOK, StatusType
<1>3. QED
  BY <1>2 DEF MakeAvailable, TypeOK, LeaseType, BroadcastType, EvidenceType,
              OutcomeType, ClaimType

LEMMA ReconcileSpentType ==
  ASSUME TypeOK, NEW S \in SUBSET Note, NEW by \in [S -> SpendEvidence],
         ReconcileSpent(S, by)
  PROVE  TypeOK'
<1> DEFINE affected == {o \in Op : Linked(o) \cap S # {}}
           written == {o \in affected : ~PriorSuccess(o)}
           spent(o, n) == o \in written /\ n \in Linked(o) \cap S
<1>1. StatusType'
  <2>1. status' = [o \in Op |-> [n \in Note |->
          IF spent(o, n) THEN "ConfirmedSpent" ELSE status[o][n]]]
    BY DEF ReconcileSpent
  <2>2. QED
    BY <2>1 DEF TypeOK, StatusType, Status
<1>2. LeaseType'
  <2>1. lease' = [o \in Op |-> [n \in Note |->
          IF spent(o, n) THEN NoLease ELSE lease[o][n]]]
    BY DEF ReconcileSpent
  <2>2. NoLease \in Lease
    BY StoreAssumption DEF NoLease, Lease
  <2>3. QED
    BY <2>1, <2>2 DEF TypeOK, LeaseType
<1>3. BroadcastType'
  <2>1. broadcast' = [o \in Op |-> [n \in Note |->
          IF spent(o, n) THEN [broadcast[o][n] EXCEPT !.inFlight = FALSE]
          ELSE broadcast[o][n]]]
    BY DEF ReconcileSpent
  <2>2. ASSUME NEW b \in Broadcast
        PROVE  [b EXCEPT !.inFlight = FALSE] \in Broadcast
    BY DEF Broadcast
  <2>3. \A o \in Op, n \in Note : broadcast[o][n] \in Broadcast
    BY DEF TypeOK, BroadcastType
  <2>4. \A o \in Op, n \in Note :
          (IF spent(o, n) THEN [broadcast[o][n] EXCEPT !.inFlight = FALSE]
           ELSE broadcast[o][n]) \in Broadcast
    BY <2>2, <2>3
  <2>5. QED
    BY <2>1, <2>4 DEF BroadcastType
<1>4. OutcomeType'
  <2>1. outcome' = [o \in Op |-> [n \in Note |->
          IF o \in written /\ Required(o) /\ n \in Linked(o)
          THEN OutcomeOf(o, S, by) ELSE outcome[o][n]]]
    BY DEF ReconcileSpent
  <2>2. \A o \in Op : OutcomeOf(o, S, by) \in OperationStatus
    BY DEF OutcomeOf, OperationStatus
  <2>3. QED
    BY <2>1, <2>2 DEF TypeOK, OutcomeType
<1>5. QED
  BY <1>1, <1>2, <1>3, <1>4 DEF ReconcileSpent, TypeOK, EvidenceType, ClaimType

LEMMA TickType ==
  ASSUME TypeOK, Tick
  PROVE  TypeOK'
<1>1. ASSUME NEW l \in Lease
      PROVE  [l EXCEPT !.ttl = IF @ > 0 THEN @ - 1 ELSE 0] \in Lease
  BY StoreAssumption DEF Lease
<1>2. \A o \in Op, n \in Note :
        [lease[o][n] EXCEPT !.ttl = IF @ > 0 THEN @ - 1 ELSE 0] \in Lease
  BY <1>1 DEF TypeOK, LeaseType
<1>3. LeaseType'
  BY <1>2 DEF Tick, LeaseType
<1>4. QED
  BY <1>3 DEF Tick, TypeOK, StatusType, BroadcastType, EvidenceType,
              OutcomeType, ClaimType

LEMMA CrashType ==
  ASSUME TypeOK, NEW m \in Manager, Crash(m)
  PROVE  TypeOK'
<1>1. ClaimType'
  BY DEF Crash, TypeOK, ClaimType
<1>2. QED
  BY <1>1 DEF Crash, TypeOK, StatusType, LeaseType, BroadcastType, EvidenceType,
              OutcomeType

LEMMA WorkerStepType ==
  ASSUME TypeOK, NEW m \in Manager, NEW o \in Op, WorkerStep(m, o)
  PROVE  TypeOK'
<1>1. CASE \E N \in SUBSET Note : ReserveNotes(m, o, N)
  BY <1>1, ReserveNotesType
<1>2. CASE MarkProving(m, o)
  BY <1>2, MarkProvingType
<1>3. CASE \E ttl \in 1 .. LeaseDuration : RenewLease(m, o, ttl)
  BY <1>3, RenewLeaseType
<1>4. CASE \E payload \in PayloadId, signed \in BOOLEAN, tx \in TxId :
             MarkProofReady(m, o, payload, signed, tx)
  BY <1>4, MarkProofReadyType
<1>5. CASE \E signed \in BOOLEAN, tx \in TxId : RecordRelayHandoff(m, o, signed, tx)
  BY <1>5, RecordRelayHandoffType
<1>6. CASE \E hash, tx \in TxId, signed, local \in BOOLEAN :
             MarkBroadcastAttempting(m, o, hash, tx, signed, local)
  BY <1>6, MarkBroadcastAttemptingType
<1>7. CASE \E kind \in {"wallet_rejected", "aborted_before_rpc", "check_tx_rejected"} :
             MarkBroadcastRejected(m, o, kind)
  <2>1. {"broadcast_rejected"} \in SUBSET Tag /\ "ReplanRequired" \in Status
    BY DEF Tag, Status
  <2>2. QED
    BY <1>7, <2>1, LeavesType DEF MarkBroadcastRejected
<1>8. CASE \E hash, tx \in TxId : MarkSubmitted(m, o, hash, tx)
  BY <1>8, AfterAttemptType DEF MarkSubmitted, Status
<1>9. CASE \E hash, tx \in TxId : MarkUnknown(m, o, hash, tx)
  BY <1>9, AfterAttemptType DEF MarkUnknown, Status
<1>10. CASE \E tx \in TxId : MarkBroadcastFailed(m, o, tx)
  <2>1. {"exact_failure"} \in SUBSET Tag /\ "ReplanRequired" \in Status
    BY DEF Tag, Status
  <2>2. QED
    BY <1>10, <2>1, LeavesType DEF MarkBroadcastFailed
<1>11. CASE \E from \in Status, tx \in TxId : MarkReplanRequired(m, o, from, tx)
  <2>1. PICK from \in Status, tx \in TxId : MarkReplanRequired(m, o, from, tx)
    BY <1>11
  <2>2. (IF tx # 0 THEN {"exact_failure"} ELSE {}) \in SUBSET Tag
        /\ "ReplanRequired" \in Status
    BY DEF Tag, Status
  <2>3. QED
    BY <2>1, <2>2, LeavesType DEF MarkReplanRequired
<1>12. CASE \E from \in Status : MarkManualReview(m, o, from)
  <2>1. {} \in SUBSET Tag /\ "ManualReview" \in Status
    BY DEF Tag, Status
  <2>2. QED
    BY <1>12, <2>1, LeavesType DEF MarkManualReview
<1>13. CASE \E from \in Status : ReturnToReserved(m, o, from)
  <2>1. {} \in SUBSET Tag /\ "Reserved" \in Status
    BY DEF Tag, Status
  <2>2. QED
    BY <1>13, <2>1, LeavesType DEF ReturnToReserved
<1>14. QED
  BY <1>1, <1>2, <1>3, <1>4, <1>5, <1>6, <1>7, <1>8, <1>9, <1>10, <1>11,
     <1>12, <1>13 DEF WorkerStep

LEMMA OperatorStepType ==
  ASSUME TypeOK, NEW o \in Op, OperatorStep(o)
  PROVE  TypeOK'
<1>1. CASE ReleaseReserved(o)
  BY <1>1, MoveToValue, DropLeaseType
     DEF ReleaseReserved, TypeOK, Status, BroadcastType, EvidenceType, OutcomeType, ClaimType
<1>2. CASE \E tx \in TxId \ {0} : RecordRelayTransactionEvidence(o, tx)
  BY <1>2, RecordRelayTransactionEvidenceType
<1>3. CASE \E tx \in TxId : RecoverExpiredProofReady(o, tx)
  <2>1. {"exact_failure"} \in SUBSET Tag /\ "ReplanRequired" \in Status
    BY DEF Tag, Status
  <2>2. QED
    BY <1>3, <2>1, LeavesType DEF RecoverExpiredProofReady
<1>4. CASE \E from \in Status, tx \in TxId : MarkFailed(o, from, tx)
  <2>1. PICK from \in Status, tx \in TxId : MarkFailed(o, from, tx)
    BY <1>4
  <2>2. (IF tx # 0 THEN {"exact_failure"} ELSE {}) \in SUBSET Tag /\ "Failed" \in Status
    BY DEF Tag, Status
  <2>3. QED
    BY <2>1, <2>2, LeavesType DEF MarkFailed
<1>5. CASE \E to \in Status : ResolveManualReview(o, to)
  <2>1. {"operator_approved"} \in SUBSET Tag
    BY DEF Tag
  <2>2. QED
    BY <1>5, <2>1, LeavesType DEF ResolveManualReview
<1>6. CASE \E N \in SUBSET Note : MakeAvailable(o, N)
  BY <1>6, MakeAvailableType
<1>7. QED
  BY <1>1, <1>2, <1>3, <1>4, <1>5, <1>6 DEF OperatorStep

------------------------------------------------------------------------------

LEMMA NextType ==
  ASSUME TypeOK, [Next]_vars
  PROVE  TypeOK'
<1>1. CASE \E m \in Manager, o \in Op : WorkerStep(m, o)
  BY <1>1, WorkerStepType
<1>2. CASE \E o \in Op : OperatorStep(o)
  BY <1>2, OperatorStepType
<1>3. CASE \E S \in SUBSET Note : \E by \in [S -> SpendEvidence] : ReconcileSpent(S, by)
  BY <1>3, ReconcileSpentType
<1>4. CASE Tick
  BY <1>4, TickType
<1>5. CASE \E m \in Manager : Crash(m)
  BY <1>5, CrashType
<1>6. CASE UNCHANGED vars
  BY <1>6 DEF vars, TypeOK, StatusType, LeaseType, BroadcastType, EvidenceType,
              OutcomeType, ClaimType
<1>7. QED
  BY <1>1, <1>2, <1>3, <1>4, <1>5, <1>6 DEF Next

(* The records of the store stay well formed under every sequence of       *)
(* manager calls, crashes and lease expiries.                              *)
THEOREM Typing == Spec => []TypeOK
<1>1. Init => TypeOK
  BY StoreAssumption
     DEF Init, TypeOK, StatusType, LeaseType, BroadcastType, EvidenceType,
         OutcomeType, ClaimType, Lease, NoLease, Broadcast, NoBroadcast, TxId,
         PayloadId, OperationStatus
<1>2. TypeOK /\ [Next]_vars => TypeOK'
  BY NextType
<1>3. QED
  BY <1>1, <1>2, PTL DEF Spec

------------------------------------------------------------------------------
(* Every step, seen through status alone: a reservation, a transition of   *)
(* one operation's live records to a status other than ConfirmedSpent, a   *)
(* record made Available, a reconciliation, or nothing.                    *)
StatusStep ==
  \/ \E m \in Manager, o \in Op, N \in SUBSET Note : ReserveNotes(m, o, N)
  \/ \E o \in Op, to \in Status \ {"ConfirmedSpent"} : MoveTo(o, to)
  \/ \E o \in Op, N \in SUBSET Note : MakeAvailable(o, N)
  \/ \E S \in SUBSET Note : \E by \in [S -> SpendEvidence] : ReconcileSpent(S, by)
  \/ UNCHANGED status

LEMMA WorkerStatusStep ==
  ASSUME NEW m \in Manager, NEW o \in Op, WorkerStep(m, o)
  PROVE  StatusStep
<1>1. CASE \E N \in SUBSET Note : ReserveNotes(m, o, N)
  BY <1>1 DEF StatusStep
<1>2. CASE MarkProving(m, o)
  BY <1>2 DEF MarkProving, StatusStep, Status
<1>3. CASE \E ttl \in 1 .. LeaseDuration : RenewLease(m, o, ttl)
  BY <1>3 DEF RenewLease, StatusStep
<1>4. CASE \E payload \in PayloadId, signed \in BOOLEAN, tx \in TxId :
             MarkProofReady(m, o, payload, signed, tx)
  BY <1>4 DEF MarkProofReady, StatusStep, Status
<1>5. CASE \E signed \in BOOLEAN, tx \in TxId : RecordRelayHandoff(m, o, signed, tx)
  BY <1>5 DEF RecordRelayHandoff, StatusStep
<1>6. CASE \E hash, tx \in TxId, signed, local \in BOOLEAN :
             MarkBroadcastAttempting(m, o, hash, tx, signed, local)
  BY <1>6 DEF MarkBroadcastAttempting, StatusStep
<1>7. CASE \E kind \in {"wallet_rejected", "aborted_before_rpc", "check_tx_rejected"} :
             MarkBroadcastRejected(m, o, kind)
  BY <1>7 DEF MarkBroadcastRejected, StatusStep, Status
<1>8. CASE \E hash, tx \in TxId : MarkSubmitted(m, o, hash, tx)
  BY <1>8 DEF MarkSubmitted, AfterAttempt, StatusStep, Status
<1>9. CASE \E hash, tx \in TxId : MarkUnknown(m, o, hash, tx)
  BY <1>9 DEF MarkUnknown, AfterAttempt, StatusStep, Status
<1>10. CASE \E tx \in TxId : MarkBroadcastFailed(m, o, tx)
  BY <1>10 DEF MarkBroadcastFailed, StatusStep, Status
<1>11. CASE \E from \in Status, tx \in TxId : MarkReplanRequired(m, o, from, tx)
  BY <1>11 DEF MarkReplanRequired, StatusStep, Status
<1>12. CASE \E from \in Status : MarkManualReview(m, o, from)
  BY <1>12 DEF MarkManualReview, StatusStep, Status
<1>13. CASE \E from \in Status : ReturnToReserved(m, o, from)
  BY <1>13 DEF ReturnToReserved, StatusStep, Status
<1>14. QED
  BY <1>1, <1>2, <1>3, <1>4, <1>5, <1>6, <1>7, <1>8, <1>9, <1>10, <1>11,
     <1>12, <1>13 DEF WorkerStep

LEMMA NextStatusStep ==
  ASSUME [Next]_vars
  PROVE  StatusStep
<1>1. CASE \E m \in Manager, o \in Op : WorkerStep(m, o)
  BY <1>1, WorkerStatusStep
<1>2. CASE \E o \in Op : OperatorStep(o)
  <2>1. PICK o \in Op : OperatorStep(o)
    BY <1>2
  <2>2. CASE ReleaseReserved(o)
    BY <2>2 DEF ReleaseReserved, StatusStep, Status
  <2>3. CASE \E tx \in TxId \ {0} : RecordRelayTransactionEvidence(o, tx)
    BY <2>3 DEF RecordRelayTransactionEvidence, StatusStep, Status
  <2>4. CASE \E tx \in TxId : RecoverExpiredProofReady(o, tx)
    BY <2>4 DEF RecoverExpiredProofReady, StatusStep, Status
  <2>5. CASE \E from \in Status, tx \in TxId : MarkFailed(o, from, tx)
    BY <2>5 DEF MarkFailed, StatusStep, Status
  <2>6. CASE \E to \in Status : ResolveManualReview(o, to)
    BY <2>6 DEF ResolveManualReview, StatusStep
  <2>7. CASE \E N \in SUBSET Note : MakeAvailable(o, N)
    BY <2>7 DEF StatusStep
  <2>8. QED
    BY <2>1, <2>2, <2>3, <2>4, <2>5, <2>6, <2>7 DEF OperatorStep
<1>3. CASE \E S \in SUBSET Note : \E by \in [S -> SpendEvidence] : ReconcileSpent(S, by)
  BY <1>3 DEF StatusStep
<1>4. CASE Tick \/ \E m \in Manager : Crash(m)
  BY <1>4 DEF Tick, Crash, StatusStep
<1>5. CASE UNCHANGED vars
  BY <1>5 DEF vars, StatusStep
<1>6. QED
  BY <1>1, <1>2, <1>3, <1>4, <1>5 DEF Next

(* What each of them does to the status of a record.                       *)
LEMMA ReserveNotesValue ==
  ASSUME StatusType, NEW m \in Manager, NEW o \in Op, NEW N \in SUBSET Note,
         ReserveNotes(m, o, N)
  PROVE  /\ \A n \in Note : status'[o][n] = IF n \in N THEN "Reserved" ELSE NoRecord
         /\ \A other \in Op \ {o} : status'[other] = status[other]
         /\ \A n \in N : ~Blocked(o, n)
  BY DEF ReserveNotes, StatusType

LEMMA MakeAvailableValue ==
  ASSUME StatusType, NEW o \in Op, NEW N \in SUBSET Note, MakeAvailable(o, N)
  PROVE  /\ \A n \in Note : status'[o][n] = IF n \in N THEN "Available" ELSE status[o][n]
         /\ \A other \in Op \ {o} : status'[other] = status[other]
         /\ \A n \in N : status[o][n] = "Released"
  BY DEF MakeAvailable, StatusType

(* A reconciliation of S either confirms the record of o on a note of S,   *)
(* or o has succeeded before and the record was confirmed already.         *)
LEMMA ReconcileSpentValue ==
  ASSUME StatusType, NEW S \in SUBSET Note, NEW by \in [S -> SpendEvidence],
         ReconcileSpent(S, by), NEW o \in Op, NEW n \in Note
  PROVE  status'[o][n] = IF n \in Linked(o) \cap S THEN "ConfirmedSpent" ELSE status[o][n]
<1> DEFINE affected == {p \in Op : Linked(p) \cap S # {}}
           written == {p \in affected : ~PriorSuccess(p)}
<1>1. status'[o][n] = IF o \in written /\ n \in Linked(o) \cap S
                      THEN "ConfirmedSpent" ELSE status[o][n]
  BY DEF ReconcileSpent
<1>2. CASE n \in Linked(o) \cap S /\ PriorSuccess(o)
  <2>1. o \in affected
    BY <1>2
  <2>2. Reconcilable(o, S, by)
    BY <2>1 DEF ReconcileSpent
  <2>3. status[o][n] = "ConfirmedSpent"
    BY <1>2, <2>2 DEF Reconcilable
  <2>4. QED
    BY <1>1, <1>2, <2>3
<1>3. CASE ~(n \in Linked(o) \cap S /\ PriorSuccess(o))
  BY <1>1, <1>3
<1>4. QED
  BY <1>2, <1>3

(* The inputs of an operation are those it was reserved with.              *)
LEMMA InputsAreFixed ==
  ASSUME StatusType, [Next]_vars, NEW o \in Op, Linked(o) # {}
  PROVE  Linked(o)' = Linked(o)
<1> SUFFICES ASSUME NEW n \in Note
             PROVE  status'[o][n] # NoRecord <=> status[o][n] # NoRecord
  BY DEF Linked
<1>1. CASE \E m \in Manager, p \in Op, N \in SUBSET Note : ReserveNotes(m, p, N)
  BY <1>1, ReserveNotesValue DEF ReserveNotes, Fresh
<1>2. CASE \E p \in Op, to \in Status \ {"ConfirmedSpent"} : MoveTo(p, to)
  <2>1. PICK p \in Op, to \in Status \ {"ConfirmedSpent"} : MoveTo(p, to)
    BY <1>2
  <2>2. to # NoRecord
    BY DEF Status, NoRecord
  <2>3. QED
    BY <2>1, <2>2, MoveToValue DEF Live, Linked
<1>3. CASE \E p \in Op, N \in SUBSET Note : MakeAvailable(p, N)
  <2>1. PICK p \in Op, N \in SUBSET Note : MakeAvailable(p, N)
    BY <1>3
  <2>2. QED
    BY <2>1, MakeAvailableValue DEF NoRecord
<1>4. CASE \E S \in SUBSET Note : \E by \in [S -> SpendEvidence] : ReconcileSpent(S, by)
  BY <1>4, ReconcileSpentValue DEF Linked, NoRecord
<1>5. CASE UNCHANGED status
  BY <1>5
<1>6. QED
  BY <1>1, <1>2, <1>3, <1>4, <1>5, NextStatusStep DEF StatusStep

(* A claim token is got by reserving, and lost in a crash.                 *)
LEMMA ClaimsComeFromReserving ==
  ASSUME StatusType, ClaimType, [Next]_vars, NEW m \in Manager, NEW o \in claim'[m]
  PROVE  o \in claim[m] \/ Linked(o)' # {}
<1>1. CASE \E w \in Manager, p \in Op, N \in SUBSET Note : ReserveNotes(w, p, N)
  <2>1. PICK w \in Manager, p \in Op, N \in SUBSET Note : ReserveNotes(w, p, N)
    BY <1>1
  <2>2. o \in claim[m] \/ o = p
    BY <2>1 DEF ReserveNotes, ClaimType
  <2>3. /\ N # {} /\ N \subseteq Note
        /\ \A n \in Note : status'[p][n] = IF n \in N THEN "Reserved" ELSE NoRecord
    BY <2>1, ReserveNotesValue DEF ReserveNotes
  <2>4. Linked(p)' # {}
    BY <2>3 DEF Linked, NoRecord
  <2>5. QED
    BY <2>2, <2>4
<1>2. CASE \E w \in Manager : Crash(w)
  BY <1>2 DEF Crash, ClaimType
<1>3. CASE \E w \in Manager, p \in Op :
             WorkerStep(w, p) /\ ~(\E N \in SUBSET Note : ReserveNotes(w, p, N))
  <2>1. PICK w \in Manager, p \in Op :
          WorkerStep(w, p) /\ ~(\E N \in SUBSET Note : ReserveNotes(w, p, N))
    BY <1>3
  <2>2. CASE \/ \E ttl \in 1 .. LeaseDuration : RenewLease(w, p, ttl)
             \/ \E payload \in PayloadId, signed \in BOOLEAN, tx \in TxId :
                  MarkProofReady(w, p, payload, signed, tx)
             \/ \E signed \in BOOLEAN, tx \in TxId : RecordRelayHandoff(w, p, signed, tx)
             \/ \E hash, tx \in TxId, signed, local \in BOOLEAN :
                  MarkBroadcastAttempting(w, p, hash, tx, signed, local)
    BY <2>2 DEF RenewLease, MarkProofReady, RecordRelayHandoff, MarkBroadcastAttempting
  <2>3. QED
    BY <2>1, <2>2
       DEF WorkerStep, MarkProving, MarkBroadcastRejected, MarkSubmitted, MarkUnknown,
           AfterAttempt, MarkBroadcastFailed, MarkReplanRequired, MarkManualReview,
           ReturnToReserved
<1>4. CASE \E p \in Op : OperatorStep(p)
  BY <1>4 DEF OperatorStep, ReleaseReserved, RecordRelayTransactionEvidence,
              RecoverExpiredProofReady, MarkFailed, ResolveManualReview, MakeAvailable
<1>5. CASE \E S \in SUBSET Note : \E by \in [S -> SpendEvidence] : ReconcileSpent(S, by)
  BY <1>5 DEF ReconcileSpent
<1>6. CASE Tick \/ UNCHANGED vars
  BY <1>6 DEF Tick, vars
<1>7. QED
  BY <1>1, <1>2, <1>3, <1>4, <1>5, <1>6 DEF Next

------------------------------------------------------------------------------
(* Exclusive is inductive: a record enters a status that locks its note    *)
(* only past Blocked, and a reconciliation that confirms one record on a   *)
(* note confirms all of them.                                              *)
LEMMA MoveToExclusive ==
  ASSUME StatusType, Exclusive, NEW o \in Op, NEW to \in Status \ {"ConfirmedSpent"},
         MoveTo(o, to)
  PROVE  Exclusive'
<1> SUFFICES ASSUME NEW o1 \in Op, NEW o2 \in Op, NEW n \in Note, o1 # o2,
                    status'[o1][n] \in Active
             PROVE  status'[o2][n] \notin Active \cup {"ConfirmedSpent"}
  BY DEF Exclusive
<1>1. /\ status'[o][n] = IF n \in Live(o) THEN to ELSE status[o][n]
      /\ \A other \in Op \ {o} : status'[other][n] = status[other][n]
  BY MoveToValue
<1>2. to \in Active /\ n \in Live(o) => ~Blocked(o, n)
  BY DEF MoveTo
<1>3. CASE n \notin Live(o)
  BY <1>1, <1>3 DEF Exclusive
<1>4. CASE n \in Live(o) /\ o1 = o
  BY <1>1, <1>2, <1>4 DEF Blocked
<1>5. CASE n \in Live(o) /\ o2 = o
  <2>1. status[o1][n] \in Active
    BY <1>1, <1>5
  <2>2. to \notin Active
    BY <1>2, <1>5, <2>1 DEF Blocked
  <2>3. QED
    BY <1>1, <1>5, <2>2
<1>6. CASE o1 # o /\ o2 # o
  BY <1>1, <1>6 DEF Exclusive
<1>7. QED
  BY <1>3, <1>4, <1>5, <1>6

LEMMA StatusStepExclusive ==
  ASSUME StatusType, Exclusive, StatusStep
  PROVE  Exclusive'
<1>1. CASE \E m \in Manager, o \in Op, N \in SUBSET Note : ReserveNotes(m, o, N)
  <2>1. PICK m \in Manager, o \in Op, N \in SUBSET Note : ReserveNotes(m, o, N)
    BY <1>1
  <2>2. /\ \A n \in Note : status'[o][n] = IF n \in N THEN "Reserved" ELSE NoRecord
        /\ \A other \in Op \ {o} : status'[other] = status[other]
        /\ \A n \in N : ~Blocked(o, n)
    BY <2>1, ReserveNotesValue
  <2>3. "Reserved" \in Active /\ NoRecord \notin Active \cup {"ConfirmedSpent"}
    BY DEF Active, NoRecord
  <2>4. QED
    BY <2>2, <2>3 DEF Exclusive, Blocked
<1>2. CASE \E o \in Op, to \in Status \ {"ConfirmedSpent"} : MoveTo(o, to)
  BY <1>2, MoveToExclusive
<1>3. CASE \E o \in Op, N \in SUBSET Note : MakeAvailable(o, N)
  <2>1. PICK o \in Op, N \in SUBSET Note : MakeAvailable(o, N)
    BY <1>3
  <2>2. /\ \A n \in Note : status'[o][n] = IF n \in N THEN "Available" ELSE status[o][n]
        /\ \A other \in Op \ {o} : status'[other] = status[other]
    BY <2>1, MakeAvailableValue
  <2>3. "Available" \notin Active \cup {"ConfirmedSpent"}
    BY DEF Active
  <2>4. QED
    BY <2>2, <2>3 DEF Exclusive
<1>4. CASE \E S \in SUBSET Note : \E by \in [S -> SpendEvidence] : ReconcileSpent(S, by)
  <2>1. PICK S \in SUBSET Note : \E by \in [S -> SpendEvidence] : ReconcileSpent(S, by)
    BY <1>4
  <2>2. \A o \in Op, n \in Note :
          status'[o][n] = IF n \in Linked(o) \cap S THEN "ConfirmedSpent" ELSE status[o][n]
    BY <2>1, ReconcileSpentValue
  <2>3. "ConfirmedSpent" \notin Active /\ NoRecord \notin Active
    BY DEF Active, NoRecord
  <2>4. QED
    BY <2>2, <2>3 DEF Exclusive, Linked
<1>5. CASE UNCHANGED status
  BY <1>5 DEF Exclusive
<1>6. QED
  BY <1>1, <1>2, <1>3, <1>4, <1>5 DEF StatusStep

(* Whatever the managers, crashes and reconciliations do, no note is ever  *)
(* locked by two operations, nor locked once it is known to be spent.      *)
THEOREM NotesAreExclusive == Spec => []Exclusive
<1>1. Init => Exclusive
  BY DEF Init, Exclusive, Active, NoRecord
<1>2. TypeOK /\ Exclusive /\ [Next]_vars => Exclusive'
  BY NextStatusStep, StatusStepExclusive DEF TypeOK
<1>3. QED
  BY <1>1, <1>2, Typing, PTL DEF Spec

------------------------------------------------------------------------------
(* OperationInStep is inductive too: transitions cover all live records,   *)
(* and a reconciliation only removes records from the live ones.           *)
LEMMA StatusStepInStep ==
  ASSUME StatusType, OperationInStep, StatusStep
  PROVE  OperationInStep'
<1> SUFFICES ASSUME NEW o \in Op, NEW n1 \in Note, NEW n2 \in Note,
                    status'[o][n1] \notin {NoRecord, "ConfirmedSpent"},
                    status'[o][n2] \notin {NoRecord, "ConfirmedSpent"}
             PROVE  \/ status'[o][n1] = status'[o][n2]
                    \/ {status'[o][n1], status'[o][n2]} = {"Released", "Available"}
  BY DEF OperationInStep, Live, Linked
<1>0. \A n \in Note : n \in Live(o) <=> status[o][n] \notin {NoRecord, "ConfirmedSpent"}
  BY DEF Live, Linked
<1>1. CASE \E m \in Manager, p \in Op, N \in SUBSET Note : ReserveNotes(m, p, N)
  <2>1. PICK m \in Manager, p \in Op, N \in SUBSET Note : ReserveNotes(m, p, N)
    BY <1>1
  <2>2. /\ \A n \in Note : status'[p][n] = IF n \in N THEN "Reserved" ELSE NoRecord
        /\ \A other \in Op \ {p} : status'[other] = status[other]
    BY <2>1, ReserveNotesValue
  <2>3. QED
    BY <1>0, <2>2 DEF OperationInStep
<1>2. CASE \E p \in Op, to \in Status \ {"ConfirmedSpent"} : MoveTo(p, to)
  <2>1. PICK p \in Op, to \in Status \ {"ConfirmedSpent"} : MoveTo(p, to)
    BY <1>2
  <2>2. /\ \A n \in Note : status'[p][n] = IF n \in Live(p) THEN to ELSE status[p][n]
        /\ \A other \in Op \ {p} : status'[other] = status[other]
    BY <2>1, MoveToValue
  <2>3. QED
    BY <1>0, <2>2 DEF OperationInStep
<1>3. CASE \E p \in Op, N \in SUBSET Note : MakeAvailable(p, N)
  <2>1. PICK p \in Op, N \in SUBSET Note : MakeAvailable(p, N)
    BY <1>3
  <2>2. /\ \A n \in Note : status'[p][n] = IF n \in N THEN "Available" ELSE status[p][n]
        /\ \A other \in Op \ {p} : status'[other] = status[other]
        /\ \A n \in N : status[p][n] = "Released"
    BY <2>1, MakeAvailableValue
  <2>3. n1 \in Live(o) /\ n2 \in Live(o)
    BY <1>0, <2>2 DEF NoRecord
  <2>4. \/ status[o][n1] = status[o][n2]
        \/ {status[o][n1], status[o][n2]} = {"Released", "Available"}
    BY <2>3 DEF OperationInStep
  <2>5. QED
    BY <2>2, <2>4
<1>4. CASE \E S \in SUBSET Note : \E by \in [S -> SpendEvidence] : ReconcileSpent(S, by)
  <2>1. PICK S \in SUBSET Note : \E by \in [S -> SpendEvidence] : ReconcileSpent(S, by)
    BY <1>4
  <2>2. \A n \in Note :
          status'[o][n] = IF n \in Linked(o) \cap S THEN "ConfirmedSpent" ELSE status[o][n]
    BY <2>1, ReconcileSpentValue
  <2>3. QED
    BY <1>0, <2>2 DEF OperationInStep
<1>5. CASE UNCHANGED status
  BY <1>0, <1>5 DEF OperationInStep
<1>6. QED
  BY <1>1, <1>2, <1>3, <1>4, <1>5 DEF StatusStep

(* The records of an operation move together: partial transitions, which   *)
(* the code calls OPERATION_STATE_MIXED, are not reachable.                *)
THEOREM OperationsStayInStep == Spec => []OperationInStep
<1>1. Init => OperationInStep
  BY DEF Init, OperationInStep, Live, Linked
<1>2. TypeOK /\ OperationInStep /\ [Next]_vars => OperationInStep'
  BY NextStatusStep, StatusStepInStep DEF TypeOK
<1>3. QED
  BY <1>1, <1>2, Typing, PTL DEF Spec

------------------------------------------------------------------------------
(* The store implements NoteOwnership.  Under Exclusive the holder of a    *)
(* note is determined by the statuses of the records on it.                *)
HolderKnown ==
  \A n \in Note :
    /\ (\E o \in Op : status[o][n] = "ConfirmedSpent") => HolderOf(n) = Spent
    /\ \A o \in Op : status[o][n] \in Active => HolderOf(n) = o
    /\ (\A o \in Op : status[o][n] \notin Active \cup {"ConfirmedSpent"})
         => HolderOf(n) = Free

LEMMA HolderIsKnown == Exclusive => HolderKnown
<1> SUFFICES ASSUME Exclusive, NEW n \in Note
             PROVE  /\ (\E o \in Op : status[o][n] = "ConfirmedSpent") => HolderOf(n) = Spent
                    /\ \A o \in Op : status[o][n] \in Active => HolderOf(n) = o
                    /\ (\A o \in Op : status[o][n] \notin Active \cup {"ConfirmedSpent"})
                         => HolderOf(n) = Free
  BY DEF HolderKnown
<1>1. (\E o \in Op : status[o][n] = "ConfirmedSpent") => HolderOf(n) = Spent
  BY DEF HolderOf
<1>2. ASSUME NEW o \in Op, status[o][n] \in Active
      PROVE  HolderOf(n) = o
  <2>1. \A p \in Op : status[p][n] # "ConfirmedSpent"
    BY <1>2 DEF Exclusive, Active
  <2>2. \A p \in Op : status[p][n] \in Active => p = o
    BY <1>2 DEF Exclusive
  <2>3. (CHOOSE p \in Op : status[p][n] \in Active) = o
    BY <1>2, <2>2
  <2>4. QED
    BY <1>2, <2>1, <2>3 DEF HolderOf
<1>3. (\A o \in Op : status[o][n] \notin Active \cup {"ConfirmedSpent"}) => HolderOf(n) = Free
  BY DEF HolderOf
<1>4. QED
  BY <1>1, <1>2, <1>3

(* A note whose records did not change has the holder it had.              *)
LEMMA SameHolder ==
  ASSUME HolderKnown, HolderKnown', NEW n \in Note,
         \A o \in Op : status'[o][n] = status[o][n]
  PROVE  HolderOf(n)' = HolderOf(n)
<1>1. CASE \E o \in Op : status[o][n] = "ConfirmedSpent"
  BY <1>1 DEF HolderKnown
<1>2. CASE \E o \in Op : status[o][n] \in Active
  BY <1>2 DEF HolderKnown
<1>3. CASE \A o \in Op : status[o][n] \notin Active \cup {"ConfirmedSpent"}
  BY <1>3 DEF HolderKnown
<1>4. QED
  BY <1>1, <1>2, <1>3

holderBar == [n \in Note |-> HolderOf(n)]

LEMMA ReserveNotesOwnership ==
  ASSUME StatusType, HolderKnown, HolderKnown', NEW m \in Manager, NEW o \in Op,
         NEW N \in SUBSET Note, ReserveNotes(m, o, N)
  PROVE  Ownership!Acquire(o, N)
<1>1. /\ \A n \in Note : status'[o][n] = IF n \in N THEN "Reserved" ELSE NoRecord
      /\ \A p \in Op \ {o} : status'[p] = status[p]
      /\ \A n \in N : ~Blocked(o, n)
  BY ReserveNotesValue
<1>2. N # {} /\ \A n \in Note : status[o][n] = NoRecord
  BY DEF ReserveNotes, Fresh, Linked
<1>3. /\ NoRecord \notin Active \cup {"ConfirmedSpent"}
      /\ "Reserved" \in Active
  BY DEF Active, NoRecord
<1>4. \A n \in Note : HolderOf(n) # o
  <2> SUFFICES ASSUME NEW n \in Note PROVE HolderOf(n) # o
    OBVIOUS
  <2>1. CASE \E p \in Op : status[p][n] = "ConfirmedSpent"
    BY <2>1, StoreAssumption DEF HolderKnown
  <2>2. CASE \E p \in Op : status[p][n] \in Active
    BY <1>2, <1>3, <2>2 DEF HolderKnown
  <2>3. CASE \A p \in Op : status[p][n] \notin Active \cup {"ConfirmedSpent"}
    BY <2>3, StoreAssumption DEF HolderKnown
  <2>4. QED
    BY <2>1, <2>2, <2>3
<1>5. \A n \in N : HolderOf(n) = Free
  BY <1>1, <1>2, <1>3 DEF HolderKnown, Blocked
<1>6. \A n \in Note : HolderOf(n)' = IF n \in N THEN o ELSE HolderOf(n)
  <2> SUFFICES ASSUME NEW n \in Note
               PROVE  HolderOf(n)' = IF n \in N THEN o ELSE HolderOf(n)
    OBVIOUS
  <2>1. CASE n \in N
    BY <1>1, <1>3, <2>1 DEF HolderKnown
  <2>2. CASE n \notin N
    BY <1>1, <1>2, <2>2, SameHolder
  <2>3. QED
    BY <2>1, <2>2
<1>7. QED
  BY <1>2, <1>4, <1>5, <1>6 DEF Ownership!Acquire

LEMMA MoveToOwnership ==
  ASSUME StatusType, OperationInStep, HolderKnown, HolderKnown', NEW o \in Op,
         NEW to \in Status \ {"ConfirmedSpent"}, MoveTo(o, to)
  PROVE  [Ownership!Next]_holderBar
<1>1. /\ \A n \in Note : status'[o][n] = IF n \in Live(o) THEN to ELSE status[o][n]
      /\ \A p \in Op \ {o} : status'[p] = status[p]
  BY MoveToValue
<1>2. to \in Active => \A n \in Live(o) : ~Blocked(o, n)
  BY DEF MoveTo
<1>3. \A n \in Note : n \in Live(o) <=> status[o][n] \notin {NoRecord, "ConfirmedSpent"}
  BY DEF Live, Linked
<1>4. {NoRecord, "ConfirmedSpent", "Released", "Available"} \cap Active = {}
  BY DEF Active, NoRecord
<1>5. \A n \in Note \ Live(o) : HolderOf(n)' = HolderOf(n)
  BY <1>1, SameHolder
<1>6. CASE to \notin Active
  <2>1. ASSUME NEW n \in Note
        PROVE  HolderOf(n)' = IF HolderOf(n) = o THEN Free ELSE HolderOf(n)
    <3>1. CASE \E p \in Op : status[p][n] = "ConfirmedSpent"
      BY <1>1, <1>3, <3>1, StoreAssumption DEF HolderKnown
    <3>2. CASE status[o][n] \in Active
      <4>1. \A p \in Op \ {o} : status[p][n] \notin Active \cup {"ConfirmedSpent"}
        BY <3>2, StoreAssumption DEF HolderKnown
      <4>2. HolderOf(n) = o /\ n \in Live(o)
        BY <1>3, <1>4, <3>2 DEF HolderKnown
      <4>3. \A p \in Op : status'[p][n] \notin Active \cup {"ConfirmedSpent"}
        BY <1>1, <1>6, <4>1, <4>2
      <4>4. QED
        BY <4>2, <4>3 DEF HolderKnown
    <3>3. CASE \E p \in Op \ {o} : status[p][n] \in Active
      BY <1>1, <3>3 DEF HolderKnown
    <3>4. CASE \A p \in Op : status[p][n] \notin Active \cup {"ConfirmedSpent"}
      <4>1. \A p \in Op : status'[p][n] \notin Active \cup {"ConfirmedSpent"}
        BY <1>1, <1>6, <3>4
      <4>2. QED
        BY <3>4, <4>1, StoreAssumption DEF HolderKnown
    <3>5. QED
      BY <3>1, <3>2, <3>3, <3>4
  <2>2. Ownership!GiveBack(o)
    BY <2>1 DEF Ownership!GiveBack
  <2>3. QED
    BY <2>2 DEF Ownership!Next
<1>7. CASE to \in Active /\ \E n \in Live(o) : status[o][n] \in Active
  <2>1. \A n \in Live(o) : status[o][n] \in Active
    BY <1>4, <1>7 DEF OperationInStep
  <2>2. \A n \in Live(o) : HolderOf(n)' = o /\ HolderOf(n) = o
    BY <1>1, <1>7, <2>1 DEF HolderKnown, Live, Linked
  <2>3. \A n \in Note : HolderOf(n)' = HolderOf(n)
    BY <1>5, <2>2
  <2>4. QED
    BY <2>3 DEF holderBar
<1>8. CASE to \in Active /\ Live(o) # {} /\ \A n \in Live(o) : status[o][n] \notin Active
  <2>1. \A n \in Note : status[o][n] \notin Active
    BY <1>3, <1>4, <1>8
  <2>2. \A n \in Note : HolderOf(n) # o
    <3> SUFFICES ASSUME NEW n \in Note PROVE HolderOf(n) # o
      OBVIOUS
    <3>1. CASE \E p \in Op : status[p][n] = "ConfirmedSpent"
      BY <3>1, StoreAssumption DEF HolderKnown
    <3>2. CASE \E p \in Op : status[p][n] \in Active
      BY <2>1, <3>2 DEF HolderKnown
    <3>3. CASE \A p \in Op : status[p][n] \notin Active \cup {"ConfirmedSpent"}
      BY <3>3, StoreAssumption DEF HolderKnown
    <3>4. QED
      BY <3>1, <3>2, <3>3
  <2>3. \A n \in Live(o) : HolderOf(n) = Free
    BY <1>2, <1>3, <1>8 DEF HolderKnown, Blocked, Live, Linked
  <2>4. \A n \in Live(o) : HolderOf(n)' = o
    BY <1>1, <1>8 DEF HolderKnown, Live, Linked
  <2>5. \A n \in Note : HolderOf(n)' = IF n \in Live(o) THEN o ELSE HolderOf(n)
    BY <1>5, <2>4
  <2>6. Live(o) \in SUBSET Note
    BY DEF Live, Linked
  <2>7. Ownership!Acquire(o, Live(o))
    BY <1>8, <2>2, <2>3, <2>5, <2>6 DEF Ownership!Acquire
  <2>8. QED
    BY <2>6, <2>7 DEF Ownership!Next
<1>9. CASE Live(o) = {}
  BY <1>5, <1>9 DEF holderBar
<1>10. QED
  BY <1>6, <1>7, <1>8, <1>9

LEMMA ReconcileSpentOwnership ==
  ASSUME StatusType, HolderKnown, HolderKnown', NEW S \in SUBSET Note,
         NEW by \in [S -> SpendEvidence], ReconcileSpent(S, by)
  PROVE  \E T \in SUBSET Note : Ownership!Spend(T)
<1> DEFINE T == {n \in Note : \E o \in Op : status'[o][n] = "ConfirmedSpent"}
<1>1. \A o \in Op, n \in Note :
        status'[o][n] = IF n \in Linked(o) \cap S THEN "ConfirmedSpent" ELSE status[o][n]
  BY ReconcileSpentValue
<1>2. \A n \in T : HolderOf(n)' = Spent
  BY DEF HolderKnown
<1>3. \A n \in Note \ T : \A o \in Op : status'[o][n] = status[o][n]
  BY <1>1
<1>4. \A n \in Note : HolderOf(n)' = IF n \in T THEN Spent ELSE HolderOf(n)
  BY <1>2, <1>3, SameHolder
<1>5. Ownership!Spend(T)
  BY <1>4 DEF Ownership!Spend
<1>6. QED
  BY <1>5

LEMMA StatusStepOwnership ==
  ASSUME StatusType, OperationInStep, HolderKnown, HolderKnown', StatusStep
  PROVE  [Ownership!Next]_holderBar
<1>1. CASE \E m \in Manager, o \in Op, N \in SUBSET Note : ReserveNotes(m, o, N)
  BY <1>1, ReserveNotesOwnership DEF Ownership!Next
<1>2. CASE \E o \in Op, to \in Status \ {"ConfirmedSpent"} : MoveTo(o, to)
  BY <1>2, MoveToOwnership
<1>3. CASE \E o \in Op, N \in SUBSET Note : MakeAvailable(o, N)
  <2>1. PICK o \in Op, N \in SUBSET Note : MakeAvailable(o, N)
    BY <1>3
  <2>2. /\ \A n \in Note : status'[o][n] = IF n \in N THEN "Available" ELSE status[o][n]
        /\ \A p \in Op \ {o} : status'[p] = status[p]
        /\ \A n \in N : status[o][n] = "Released"
    BY <2>1, MakeAvailableValue
  <2>3. {"Released", "Available"} \cap (Active \cup {"ConfirmedSpent"}) = {}
    BY DEF Active
  <2>4. \A n \in Note : HolderOf(n)' = HolderOf(n)
    <3> SUFFICES ASSUME NEW n \in Note PROVE HolderOf(n)' = HolderOf(n)
      OBVIOUS
    <3>1. CASE n \notin N
      BY <2>2, <3>1, SameHolder
    <3>2. CASE n \in N /\ \E p \in Op : status[p][n] = "ConfirmedSpent"
      BY <2>2, <2>3, <3>2 DEF HolderKnown
    <3>3. CASE n \in N /\ \E p \in Op : status[p][n] \in Active
      BY <2>2, <2>3, <3>3 DEF HolderKnown
    <3>4. CASE n \in N /\ \A p \in Op : status[p][n] \notin Active \cup {"ConfirmedSpent"}
      BY <2>2, <2>3, <3>4 DEF HolderKnown
    <3>5. QED
      BY <3>1, <3>2, <3>3, <3>4
  <2>5. QED
    BY <2>4 DEF holderBar
<1>4. CASE \E S \in SUBSET Note : \E by \in [S -> SpendEvidence] : ReconcileSpent(S, by)
  BY <1>4, ReconcileSpentOwnership DEF Ownership!Next
<1>5. CASE UNCHANGED status
  BY <1>5, SameHolder DEF holderBar
<1>6. QED
  BY <1>1, <1>2, <1>3, <1>4, <1>5 DEF StatusStep

(* The store implements NoteOwnership: a note changes hands only when an   *)
(* operation takes free notes together, gives back all it still holds, or  *)
(* the chain is seen to have consumed it.                                  *)
THEOREM StoreImplementsOwnership == Spec => ImplementsOwnership
<1>1. Init => Ownership!Init
  BY DEF Init, Ownership!Init, HolderOf, Active, NoRecord
<1>2. /\ TypeOK /\ Exclusive /\ HolderKnown /\ OperationInStep
      /\ Exclusive' /\ HolderKnown' /\ [Next]_vars
      => [Ownership!Next]_holderBar
  BY NextStatusStep, StatusStepOwnership DEF TypeOK
<1>3. QED
  BY <1>1, <1>2, Typing, NotesAreExclusive, OperationsStayInStep, HolderIsKnown, PTL
     DEF Spec, ImplementsOwnership, Ownership!Spec, holderBar

------------------------------------------------------------------------------
(* What the store guarantees of every single record: a step of the store   *)
(* is, for one record, one of ten kinds, and the promises about leases,    *)
(* broadcasts and evidence follow from the kinds alone.                    *)

(* The worker's hands on a record: a lease it holds, with its claim token. *)
Held(o, n) == lease[o][n].ttl > 0 /\ o \in claim[lease[o][n].owner]
Expired(o, n) == lease[o][n].ttl = 0

SameStatus(o, n) == status'[o][n] = status[o][n]
SameOwner(o, n) == lease'[o][n].owner = lease[o][n].owner
SameBroadcast(o, n) == broadcast'[o][n] = broadcast[o][n]
SameEvidence(o, n) == evidence'[o][n] = evidence[o][n]
GainsOwner(o, n) == lease'[o][n].owner # NoManager
LosesLease(o, n) == lease'[o][n] = NoLease
Settled(o, n) == broadcast'[o][n] = [broadcast[o][n] EXCEPT !.inFlight = FALSE]

(* No identity of b is lost or rewritten in b2.                            *)
KeepsIdentity(b, b2) ==
  /\ b.payload # 0 => b2.payload = b.payload
  /\ b.bytes # 0 => b2.bytes = b.bytes
  /\ b.submitted # 0 => b2.submitted = b.submitted
  /\ b.signDoc => b2.signDoc

(* The boundary marks of b, but for the in-flight one, are those of b2.    *)
KeepsMarks(b, b2) == b2.count = b.count /\ b2.handedOff = b.handedOff

(* Nothing but its remaining lease time, if that.                          *)
Kept(o, n) ==
  SameStatus(o, n) /\ SameOwner(o, n) /\ SameBroadcast(o, n) /\ SameEvidence(o, n)

Created(o, n) ==
  /\ status[o][n] = NoRecord /\ status'[o][n] = "Reserved"
  /\ SameOwner(o, n) /\ SameBroadcast(o, n) /\ SameEvidence(o, n)

Started(o, n) ==
  /\ status[o][n] = "Reserved" /\ status'[o][n] = "Proving"
  /\ GainsOwner(o, n) /\ SameBroadcast(o, n) /\ SameEvidence(o, n)

Proved(o, n) ==
  /\ status[o][n] = "Proving" /\ status'[o][n] = "ProofReady"
  /\ Held(o, n) /\ GainsOwner(o, n)
  /\ KeepsIdentity(broadcast[o][n], broadcast'[o][n])
  /\ KeepsMarks(broadcast[o][n], broadcast'[o][n])
  /\ evidence'[o][n] \ evidence[o][n] \subseteq {"success_evidence_required"}
  /\ evidence[o][n] \subseteq evidence'[o][n]

(* The payload goes out, to a relay or over the local boundary.            *)
GivenOut(o, n) ==
  LET b == broadcast[o][n]
      b2 == broadcast'[o][n]
  IN  /\ status[o][n] = "ProofReady"
      /\ SameStatus(o, n) /\ SameOwner(o, n) /\ SameEvidence(o, n)
      /\ KeepsIdentity(b, b2)
      /\ b.count = 0
      /\ \/ b2.handedOff /\ b2.count = 0
         \/ ~b2.handedOff /\ b2.count = 1 /\ ~b.handedOff

(* The attempt is over, its answer known or not.                           *)
Answered(o, n) ==
  /\ \/ status[o][n] = "ProofReady" /\ Held(o, n)
     \/ status[o][n] = "Submitted"
  /\ status'[o][n] \in {"Submitted", "Unknown"}
  /\ LosesLease(o, n) /\ SameEvidence(o, n)
  /\ KeepsIdentity(broadcast[o][n], broadcast'[o][n])
  /\ KeepsMarks(broadcast[o][n], broadcast'[o][n])
  /\ ~broadcast'[o][n].inFlight

Included(o, n) ==
  LET b == broadcast[o][n]
      b2 == broadcast'[o][n]
  IN  /\ status[o][n] = "ProofReady" /\ status'[o][n] = "Submitted"
      /\ LosesLease(o, n)
      /\ evidence'[o][n] = evidence[o][n] \cup {"included"}
      /\ KeepsIdentity(b, b2) /\ ~b2.inFlight /\ b2.handedOff = b.handedOff
      /\ \/ ~b.handedOff /\ b2.count = b.count
         \/ b.count = 0 /\ b2.count = 1

(* The statuses in which the note is free again, or prepared again.        *)
LetGo == {"Failed", "ReplanRequired", "Released", "Available", "Reserved", "Proving"}
Reasons == {"broadcast_rejected", "exact_failure", "operator_approved"}

(* The operation leaves the worker's hands, or the broadcast states.       *)
Left(o, n) ==
  /\ status[o][n] \notin {NoRecord, "ConfirmedSpent"}
  /\ status'[o][n] \in {"ReplanRequired", "Failed", "Released", "Reserved", "ManualReview"}
  /\ LosesLease(o, n)
  /\ Settled(o, n) \/ (SameBroadcast(o, n) /\ status[o][n] = "Reserved")
  /\ evidence[o][n] \subseteq evidence'[o][n]
  /\ "exact_failure" \in evidence'[o][n] \ evidence[o][n] => Identities(o, n) # {}
  /\ status[o][n] \in {"Proving", "ProofReady"} => Held(o, n) \/ Expired(o, n)
  /\ status'[o][n] # "ManualReview" =>
       \/ status[o][n] \in LetGo \cup {"Discovered"}
       \/ ~Sent(o, n)
       \/ evidence'[o][n] \cap Reasons # {}

MadeAvailable(o, n) ==
  /\ status[o][n] = "Released" /\ status'[o][n] = "Available"
  /\ SameOwner(o, n) /\ SameBroadcast(o, n) /\ SameEvidence(o, n)

Consumed(o, n) ==
  /\ status[o][n] # NoRecord /\ status'[o][n] = "ConfirmedSpent"
  /\ LosesLease(o, n) /\ Settled(o, n) /\ SameEvidence(o, n)

RecordStep(o, n) ==
  \/ Kept(o, n)          \/ Created(o, n)   \/ Started(o, n)  \/ Proved(o, n)
  \/ GivenOut(o, n)      \/ Answered(o, n)  \/ Included(o, n) \/ Left(o, n)
  \/ MadeAvailable(o, n) \/ Consumed(o, n)

RecordsStep == \A o \in Op, n \in Note : RecordStep(o, n)

------------------------------------------------------------------------------
(* The values a batch over the live records of o writes, record by record. *)
LEMMA MoveToRecord ==
  ASSUME TypeOK, NEW o \in Op, NEW to \in Status, MoveTo(o, to), NEW p \in Op, NEW n \in Note
  PROVE  status'[p][n] = IF p = o /\ n \in Live(o) THEN to ELSE status[p][n]
  BY MoveToValue DEF TypeOK

LEMMA DropLeaseRecord ==
  ASSUME TypeOK, NEW o \in Op, DropLease(o), NEW p \in Op, NEW n \in Note
  PROVE  lease'[p][n] = IF p = o /\ n \in Live(o) THEN NoLease ELSE lease[p][n]
  BY DEF DropLease, OnLive, TypeOK, LeaseType

LEMMA SettleBroadcastRecord ==
  ASSUME TypeOK, NEW o \in Op, SettleBroadcast(o), NEW p \in Op, NEW n \in Note
  PROVE  broadcast'[p][n] = IF p = o /\ n \in Live(o)
                            THEN [broadcast[p][n] EXCEPT !.inFlight = FALSE]
                            ELSE broadcast[p][n]
  BY DEF SettleBroadcast, WriteBroadcast, OnLive, TypeOK, BroadcastType

LEMMA AddEvidenceRecord ==
  ASSUME TypeOK, NEW o \in Op, NEW tags, AddEvidence(o, tags), NEW p \in Op, NEW n \in Note
  PROVE  evidence'[p][n] = IF p = o /\ n \in Live(o) THEN evidence[p][n] \cup tags
                           ELSE evidence[p][n]
  BY DEF AddEvidence, OnLive, TypeOK, EvidenceType

LEMMA AllInRecord ==
  ASSUME NEW o \in Op, NEW from, AllIn(o, from), NEW n \in Live(o)
  PROVE  status[o][n] = from /\ from \notin {NoRecord, "ConfirmedSpent"}
  BY DEF AllIn, Live, Linked

LEMMA HoldsLeaseRecord ==
  ASSUME NEW m, NEW o \in Op, HoldsLease(m, o), NEW n \in Live(o)
  PROVE  Held(o, n)
  BY DEF HoldsLease, Held

LEMMA LeaseAllowsRecord ==
  ASSUME TypeOK, NEW m, NEW o \in Op, NEW from, NEW to, <<from, to>> \in LeaseRequired,
         LeaseAllows(m, o, from, to), NEW n \in Live(o)
  PROVE  Held(o, n) \/ Expired(o, n)
  BY HoldsLeaseRecord DEF LeaseAllows, LeaseExpired, Expired

(* What the callers of LeavesRecords must show of the records they move:   *)
(* that the lease allows it, and why the note may be let go.               *)
MayLeave(o, n, to, tags) ==
  /\ status[o][n] \in {"Proving", "ProofReady"} => Held(o, n) \/ Expired(o, n)
  /\ "exact_failure" \in tags => Identities(o, n) # {}
  /\ to # "ManualReview" =>
       \/ status[o][n] \in LetGo \cup {"Discovered"}
       \/ ~Sent(o, n)
       \/ tags \cap Reasons # {}

LEMMA LeavesRecords ==
  ASSUME TypeOK, NEW o \in Op, NEW from, AllIn(o, from), NEW tags,
         NEW to \in {"ReplanRequired", "Failed", "Released", "Reserved", "ManualReview"},
         MoveTo(o, to), DropLease(o), SettleBroadcast(o), AddEvidence(o, tags),
         \A n \in Live(o) : MayLeave(o, n, to, tags)
  PROVE  RecordsStep
<1> SUFFICES ASSUME NEW p \in Op, NEW n \in Note PROVE RecordStep(p, n)
  BY DEF RecordsStep
<1>0. to \in Status
  BY DEF Status
<1>1. status'[p][n] = IF p = o /\ n \in Live(o) THEN to ELSE status[p][n]
  BY <1>0, MoveToRecord
<1>2. lease'[p][n] = IF p = o /\ n \in Live(o) THEN NoLease ELSE lease[p][n]
  BY DropLeaseRecord
<1>3. broadcast'[p][n] = IF p = o /\ n \in Live(o)
                         THEN [broadcast[p][n] EXCEPT !.inFlight = FALSE]
                         ELSE broadcast[p][n]
  BY SettleBroadcastRecord
<1>4. evidence'[p][n] = IF p = o /\ n \in Live(o) THEN evidence[p][n] \cup tags
                        ELSE evidence[p][n]
  BY AddEvidenceRecord
<1>5. CASE p = o /\ n \in Live(o)
  <2>1. MayLeave(o, n, to, tags) /\ status[o][n] \notin {NoRecord, "ConfirmedSpent"}
    BY <1>5, AllInRecord
  <2>2. Left(p, n)
    BY <1>1, <1>2, <1>3, <1>4, <1>5, <2>1 DEF Left, LosesLease, Settled, MayLeave
  <2>3. QED
    BY <2>2 DEF RecordStep
<1>6. CASE ~(p = o /\ n \in Live(o))
  <2>1. Kept(p, n)
    BY <1>1, <1>2, <1>3, <1>4, <1>6
       DEF Kept, SameStatus, SameOwner, SameBroadcast, SameEvidence
  <2>2. QED
    BY <2>1 DEF RecordStep
<1>7. QED
  BY <1>5, <1>6

LEMMA NoEvidenceAdded ==
  ASSUME TypeOK, NEW o \in Op, UNCHANGED evidence
  PROVE  AddEvidence(o, {})
<1>1. [n \in Note |-> IF n \in Live(o) THEN evidence[o][n] \cup {} ELSE evidence[o][n]]
        = evidence[o]
  BY DEF TypeOK, EvidenceType
<1>2. QED
  BY <1>1 DEF AddEvidence, OnLive, TypeOK, EvidenceType

LEMMA ComesFrom ==
  ASSUME NEW from
  PROVE  /\ CanTransition(from, "ReplanRequired") =>
              from \in {"Reserved", "Proving", "ProofReady", "Submitted", "Unknown",
                        "ManualReview", "Failed"}
         /\ CanTransition(from, "Failed") =>
              from \in {"Discovered", "Submitted", "Unknown", "ManualReview", "ReplanRequired"}
         /\ CanTransition(from, "Reserved") =>
              from \in {"Available", "Proving", "ReplanRequired"}
  BY DEF CanTransition, AllowedTransitions

LEMMA NeedLease ==
  /\ \A from \in {"Proving", "ProofReady"} : \A to \in {"ReplanRequired", "ManualReview"} :
       <<from, to>> \in LeaseRequired
  /\ <<"Proving", "Reserved">> \in LeaseRequired
  BY DEF LeaseRequired

LEMMA MarkBroadcastRejectedRecords ==
  ASSUME TypeOK, NEW m \in Manager, NEW o \in Op, NEW kind, MarkBroadcastRejected(m, o, kind)
  PROVE  RecordsStep
<1>1. AllIn(o, "ProofReady") /\ HoldsLease(m, o)
  BY DEF MarkBroadcastRejected
<1>2. \A n \in Live(o) : MayLeave(o, n, "ReplanRequired", {"broadcast_rejected"})
  BY <1>1, HoldsLeaseRecord DEF MayLeave, Reasons
<1>3. QED
  BY <1>2, LeavesRecords DEF MarkBroadcastRejected

LEMMA MarkBroadcastFailedRecords ==
  ASSUME TypeOK, NEW m \in Manager, NEW o \in Op, NEW tx \in TxId, MarkBroadcastFailed(m, o, tx)
  PROVE  RecordsStep
<1>1. ASSUME NEW n \in Live(o)
      PROVE  MayLeave(o, n, "ReplanRequired", {"exact_failure"})
  <2>1. Identities(o, n) # {}
    BY DEF MarkBroadcastFailed, ExactFailure
  <2>2. status[o][n] \in {"Proving", "ProofReady"} => Held(o, n)
    BY AllInRecord, HoldsLeaseRecord DEF MarkBroadcastFailed
  <2>3. QED
    BY <2>1, <2>2 DEF MayLeave, Reasons
<1>2. \E from \in Status : AllIn(o, from)
  BY DEF MarkBroadcastFailed, Status
<1>3. QED
  BY <1>1, <1>2, LeavesRecords DEF MarkBroadcastFailed

LEMMA RecoverExpiredProofReadyRecords ==
  ASSUME TypeOK, NEW o \in Op, NEW tx \in TxId, RecoverExpiredProofReady(o, tx)
  PROVE  RecordsStep
<1>1. ASSUME NEW n \in Live(o)
      PROVE  MayLeave(o, n, "ReplanRequired", {"exact_failure"})
  <2>1. Identities(o, n) # {}
    BY DEF RecoverExpiredProofReady, Identities
  <2>2. Expired(o, n)
    BY DEF RecoverExpiredProofReady, LeaseExpired, Expired
  <2>3. QED
    BY <2>1, <2>2 DEF MayLeave, Reasons
<1>2. QED
  BY <1>1, LeavesRecords DEF RecoverExpiredProofReady

(* The evidence a transition after a broadcast demands of its caller.      *)
LEMMA FailureAccountedFor ==
  ASSUME NEW o \in Op, NEW n \in Note, NEW tx \in TxId,
         status[o][n] \in {"ProofReady", "Submitted", "Unknown"},
         IF NeedsFailure(o, n, status[o][n]) THEN ExactFailure(o, n, tx) ELSE tx = 0
  PROVE  tx # 0 \/ ~Sent(o, n)
  BY DEF NeedsFailure, ExactFailure, Sent, HasBroadcastEvidence

LEMMA MarkReplanRequiredRecords ==
  ASSUME TypeOK, NEW m \in Manager, NEW o \in Op, NEW from \in Status, NEW tx \in TxId,
         MarkReplanRequired(m, o, from, tx)
  PROVE  RecordsStep
<1> DEFINE tags == IF tx # 0 THEN {"exact_failure"} ELSE {}
<1>1. ASSUME NEW n \in Live(o)
      PROVE  MayLeave(o, n, "ReplanRequired", tags)
  <2>1. n \in Note /\ status[o][n] = from
    BY AllInRecord DEF MarkReplanRequired, Live, Linked
  <2>2. from \in {"Reserved", "Proving", "ProofReady", "Submitted", "Unknown", "Failed"}
    BY ComesFrom DEF MarkReplanRequired
  <2>3. IF NeedsFailure(o, n, from) THEN ExactFailure(o, n, tx) ELSE tx = 0
    BY DEF MarkReplanRequired
  <2>4. from \in {"Proving", "ProofReady"} => Held(o, n) \/ Expired(o, n)
    BY NeedLease, LeaseAllowsRecord DEF MarkReplanRequired
  <2>5. "exact_failure" \in tags => Identities(o, n) # {}
    BY <2>3 DEF ExactFailure
  <2>6. from \in LetGo \/ ~Sent(o, n) \/ tags \cap Reasons # {}
    BY <2>1, <2>2, <2>3, FailureAccountedFor DEF LetGo, Reasons
  <2>7. QED
    BY <2>1, <2>4, <2>5, <2>6 DEF MayLeave
<1>2. AllIn(o, from) /\ MoveTo(o, "ReplanRequired") /\ DropLease(o) /\ SettleBroadcast(o)
      /\ AddEvidence(o, tags)
  BY DEF MarkReplanRequired
<1> HIDE DEF tags
<1>3. QED
  BY <1>1, <1>2, LeavesRecords

LEMMA MarkFailedRecords ==
  ASSUME TypeOK, NEW o \in Op, NEW from \in Status, NEW tx \in TxId, MarkFailed(o, from, tx)
  PROVE  RecordsStep
<1> DEFINE tags == IF tx # 0 THEN {"exact_failure"} ELSE {}
<1>1. ASSUME NEW n \in Live(o)
      PROVE  MayLeave(o, n, "Failed", tags)
  <2>1. n \in Note /\ status[o][n] = from
    BY AllInRecord DEF MarkFailed, Live, Linked
  <2>2. from \in {"Discovered", "Submitted", "Unknown", "ReplanRequired"}
    BY ComesFrom DEF MarkFailed
  <2>3. IF NeedsFailure(o, n, from) THEN ExactFailure(o, n, tx) ELSE tx = 0
    BY DEF MarkFailed
  <2>4. "exact_failure" \in tags => Identities(o, n) # {}
    BY <2>3 DEF ExactFailure
  <2>5. from \in LetGo \cup {"Discovered"} \/ ~Sent(o, n) \/ tags \cap Reasons # {}
    BY <2>1, <2>2, <2>3, FailureAccountedFor DEF LetGo, Reasons
  <2>6. QED
    BY <2>1, <2>2, <2>4, <2>5 DEF MayLeave
<1>2. AllIn(o, from) /\ MoveTo(o, "Failed") /\ DropLease(o) /\ SettleBroadcast(o)
      /\ AddEvidence(o, tags)
  BY DEF MarkFailed
<1> HIDE DEF tags
<1>3. QED
  BY <1>1, <1>2, LeavesRecords

LEMMA MarkManualReviewRecords ==
  ASSUME TypeOK, NEW m \in Manager, NEW o \in Op, NEW from \in Status,
         MarkManualReview(m, o, from)
  PROVE  RecordsStep
<1>1. ASSUME NEW n \in Live(o)
      PROVE  MayLeave(o, n, "ManualReview", {})
  <2>1. status[o][n] = from
    BY AllInRecord DEF MarkManualReview
  <2>2. from \in {"Proving", "ProofReady"} => Held(o, n) \/ Expired(o, n)
    BY NeedLease, LeaseAllowsRecord DEF MarkManualReview
  <2>3. QED
    BY <2>1, <2>2 DEF MayLeave
<1>2. AddEvidence(o, {})
  BY NoEvidenceAdded DEF MarkManualReview
<1>3. QED
  BY <1>1, <1>2, LeavesRecords DEF MarkManualReview

LEMMA ReturnToReservedRecords ==
  ASSUME TypeOK, NEW m \in Manager, NEW o \in Op, NEW from \in Status,
         ReturnToReserved(m, o, from)
  PROVE  RecordsStep
<1>1. ASSUME NEW n \in Live(o)
      PROVE  MayLeave(o, n, "Reserved", {})
  <2>1. status[o][n] = from
    BY AllInRecord DEF ReturnToReserved
  <2>2. from \in {"Available", "Proving", "ReplanRequired"}
    BY ComesFrom DEF ReturnToReserved
  <2>3. from = "Proving" => Held(o, n) \/ Expired(o, n)
    BY NeedLease, LeaseAllowsRecord DEF ReturnToReserved
  <2>4. QED
    BY <2>1, <2>2, <2>3 DEF MayLeave, LetGo
<1>2. AddEvidence(o, {})
  BY NoEvidenceAdded DEF ReturnToReserved
<1>3. QED
  BY <1>1, <1>2, LeavesRecords DEF ReturnToReserved

LEMMA ResolveManualReviewRecords ==
  ASSUME TypeOK, NEW o \in Op, NEW to \in Status, ResolveManualReview(o, to)
  PROVE  RecordsStep
<1>1. \A n \in Live(o) : MayLeave(o, n, to, {"operator_approved"})
  BY AllInRecord DEF MayLeave, ResolveManualReview, Reasons
<1>2. to \in {"ReplanRequired", "Failed", "Released", "Reserved", "ManualReview"}
  BY DEF ResolveManualReview
<1>3. QED
  BY <1>1, <1>2, LeavesRecords DEF ResolveManualReview

LEMMA ReleaseReservedRecords ==
  ASSUME TypeOK, NEW o \in Op, ReleaseReserved(o)
  PROVE  RecordsStep
<1> SUFFICES ASSUME NEW p \in Op, NEW n \in Note PROVE RecordStep(p, n)
  BY DEF RecordsStep
<1>1. status'[p][n] = IF p = o /\ n \in Live(o) THEN "Released" ELSE status[p][n]
  BY MoveToRecord DEF ReleaseReserved, Status
<1>2. lease'[p][n] = IF p = o /\ n \in Live(o) THEN NoLease ELSE lease[p][n]
  BY DropLeaseRecord DEF ReleaseReserved
<1>3. CASE p = o /\ n \in Live(o)
  <2>1. status[o][n] = "Reserved"
    BY <1>3, AllInRecord DEF ReleaseReserved
  <2>2. Left(p, n)
    BY <1>1, <1>2, <1>3, <2>1
       DEF Left, LosesLease, SameBroadcast, ReleaseReserved, LetGo, NoRecord
  <2>3. QED
    BY <2>2 DEF RecordStep
<1>4. CASE ~(p = o /\ n \in Live(o))
  BY <1>1, <1>2, <1>4
     DEF RecordStep, Kept, SameStatus, SameOwner, SameBroadcast, SameEvidence, ReleaseReserved
<1>5. QED
  BY <1>3, <1>4

LEMMA ReserveNotesRecords ==
  ASSUME TypeOK, NEW m \in Manager, NEW o \in Op, NEW N \in SUBSET Note, ReserveNotes(m, o, N)
  PROVE  RecordsStep
<1> SUFFICES ASSUME NEW p \in Op, NEW n \in Note PROVE RecordStep(p, n)
  BY DEF RecordsStep
<1>1. status'[o][n] = IF n \in N THEN "Reserved" ELSE NoRecord
  BY ReserveNotesValue DEF TypeOK
<1>2. p # o => status'[p] = status[p]
  BY ReserveNotesValue DEF TypeOK
<1>3. status[o][n] = NoRecord
  BY DEF ReserveNotes, Fresh, Linked
<1>4. SameOwner(p, n) /\ SameBroadcast(p, n) /\ SameEvidence(p, n)
  BY DEF ReserveNotes, SameOwner, SameBroadcast, SameEvidence
<1>5. QED
  BY <1>1, <1>2, <1>3, <1>4 DEF RecordStep, Kept, Created, SameStatus

LEMMA MarkProvingRecords ==
  ASSUME TypeOK, NEW m \in Manager, NEW o \in Op, MarkProving(m, o)
  PROVE  RecordsStep
<1> SUFFICES ASSUME NEW p \in Op, NEW n \in Note PROVE RecordStep(p, n)
  BY DEF RecordsStep
<1>1. status'[p][n] = IF p = o /\ n \in Live(o) THEN "Proving" ELSE status[p][n]
  BY MoveToRecord DEF MarkProving, Status
<1>2. lease'[p][n] = IF p = o /\ n \in Live(o) THEN [owner |-> m, ttl |-> LeaseDuration]
                     ELSE lease[p][n]
  BY DEF MarkProving, OnLive, TypeOK, LeaseType
<1>3. SameBroadcast(p, n) /\ SameEvidence(p, n)
  BY DEF MarkProving, SameBroadcast, SameEvidence
<1>4. CASE p = o /\ n \in Live(o)
  <2>1. status[o][n] = "Reserved"
    BY <1>4, AllInRecord DEF MarkProving
  <2>2. GainsOwner(p, n)
    BY <1>2, <1>4, StoreAssumption DEF GainsOwner
  <2>3. QED
    BY <1>1, <1>3, <1>4, <2>1, <2>2 DEF RecordStep, Started
<1>5. CASE ~(p = o /\ n \in Live(o))
  BY <1>1, <1>2, <1>3, <1>5 DEF RecordStep, Kept, SameStatus, SameOwner
<1>6. QED
  BY <1>4, <1>5

LEMMA RenewLeaseRecords ==
  ASSUME TypeOK, NEW m \in Manager, NEW o \in Op, NEW ttl \in 1 .. LeaseDuration,
         RenewLease(m, o, ttl)
  PROVE  RecordsStep
<1> SUFFICES ASSUME NEW p \in Op, NEW n \in Note PROVE RecordStep(p, n)
  BY DEF RecordsStep
<1>1. lease'[p][n] = IF p = o /\ n \in Live(o)
                     THEN [lease[o][n] EXCEPT !.ttl = Later(@, ttl)] ELSE lease[p][n]
  BY DEF RenewLease, OnLive, TypeOK, LeaseType
<1>2. lease[o][n] \in Lease
  BY DEF TypeOK, LeaseType
<1>3. SameOwner(p, n)
  BY <1>1, <1>2 DEF SameOwner, Lease
<1>4. QED
  BY <1>3 DEF RecordStep, Kept, SameStatus, SameBroadcast, SameEvidence, RenewLease

LEMMA MarkProofReadyRecords ==
  ASSUME TypeOK, NEW m \in Manager, NEW o \in Op, NEW payload \in PayloadId,
         NEW signed \in BOOLEAN, NEW tx \in TxId,
         MarkProofReady(m, o, payload, signed, tx)
  PROVE  RecordsStep
<1> SUFFICES ASSUME NEW p \in Op, NEW n \in Note PROVE RecordStep(p, n)
  BY DEF RecordsStep
<1> DEFINE tags == IF o \in EvidenceOp THEN {"success_evidence_required"} ELSE {}
           b == broadcast[o][n]
<1>1. status'[p][n] = IF p = o /\ n \in Live(o) THEN "ProofReady" ELSE status[p][n]
  BY MoveToRecord DEF MarkProofReady, Status
<1>2. lease'[p][n] = IF p = o /\ n \in Live(o) THEN [owner |-> m, ttl |-> LeaseDuration]
                     ELSE lease[p][n]
  BY DEF MarkProofReady, OnLive, TypeOK, LeaseType
<1>3. broadcast'[p][n] = IF p = o /\ n \in Live(o)
                         THEN [b EXCEPT !.payload = payload, !.signDoc = signed, !.bytes = tx]
                         ELSE broadcast[p][n]
  BY DEF MarkProofReady, WriteBroadcast, OnLive, TypeOK, BroadcastType
<1>4. evidence'[p][n] = IF p = o /\ n \in Live(o) THEN evidence[p][n] \cup tags
                        ELSE evidence[p][n]
  <2>1. AddEvidence(o, tags)
    BY DEF MarkProofReady
  <2> HIDE DEF tags
  <2>2. QED
    BY <2>1, AddEvidenceRecord
<1>5. CASE p = o /\ n \in Live(o)
  <2>1. status[o][n] = "Proving" /\ Held(o, n)
    BY <1>5, AllInRecord, HoldsLeaseRecord DEF MarkProofReady
  <2>2. GainsOwner(o, n)
    BY <1>2, <1>5, StoreAssumption DEF GainsOwner
  <2>3. b \in Broadcast
    BY DEF TypeOK, BroadcastType
  <2>4. b.payload \in {0, payload} /\ (b.signDoc => signed) /\ b.bytes \in {0, tx}
    BY <1>5 DEF MarkProofReady
  <2>5. KeepsIdentity(b, broadcast'[o][n]) /\ KeepsMarks(b, broadcast'[o][n])
    BY <1>3, <1>5, <2>3, <2>4 DEF KeepsIdentity, KeepsMarks, Broadcast
  <2>6. /\ evidence'[o][n] \ evidence[o][n] \subseteq {"success_evidence_required"}
        /\ evidence[o][n] \subseteq evidence'[o][n]
    BY <1>4, <1>5
  <2>7. Proved(o, n)
    BY <1>1, <1>5, <2>1, <2>2, <2>5, <2>6 DEF Proved
  <2>8. QED
    BY <1>5, <2>7 DEF RecordStep
<1>6. CASE ~(p = o /\ n \in Live(o))
  BY <1>1, <1>2, <1>3, <1>4, <1>6
     DEF RecordStep, Kept, SameStatus, SameOwner, SameBroadcast, SameEvidence
<1>7. QED
  BY <1>5, <1>6

LEMMA RecordRelayHandoffRecords ==
  ASSUME TypeOK, NEW m \in Manager, NEW o \in Op, NEW signed \in BOOLEAN,
         NEW tx \in TxId, RecordRelayHandoff(m, o, signed, tx)
  PROVE  RecordsStep
<1> SUFFICES ASSUME NEW p \in Op, NEW n \in Note PROVE RecordStep(p, n)
  BY DEF RecordsStep
<1> DEFINE b == broadcast[o][n]
<1>1. SameStatus(p, n) /\ SameOwner(p, n) /\ SameEvidence(p, n)
  BY DEF RecordRelayHandoff, SameStatus, SameOwner, SameEvidence
<1>2. broadcast'[p][n] = IF p = o /\ n \in Live(o)
        THEN [b EXCEPT !.handedOff = TRUE, !.signDoc = @ \/ signed, !.bytes = Merge(@, tx)]
        ELSE broadcast[p][n]
  BY DEF RecordRelayHandoff, WriteBroadcast, OnLive, TypeOK, BroadcastType
<1>3. CASE p = o /\ n \in Live(o)
  <2>1. status[o][n] = "ProofReady"
    BY <1>3, AllInRecord DEF RecordRelayHandoff
  <2>2. b \in Broadcast
    BY DEF TypeOK, BroadcastType
  <2>3. Unsent(b) /\ Keeps(b.bytes, tx)
    BY <1>3 DEF RecordRelayHandoff
  <2>4. KeepsIdentity(b, broadcast'[o][n])
    BY <1>2, <1>3, <2>2, <2>3 DEF KeepsIdentity, Broadcast, Keeps, Merge
  <2>5. b.count = 0 /\ broadcast'[o][n].handedOff /\ broadcast'[o][n].count = 0
    BY <1>2, <1>3, <2>2, <2>3 DEF Broadcast, Unsent
  <2>6. GivenOut(o, n)
    BY <1>1, <1>3, <2>1, <2>4, <2>5 DEF GivenOut
  <2>7. QED
    BY <1>3, <2>6 DEF RecordStep
<1>4. CASE ~(p = o /\ n \in Live(o))
  BY <1>1, <1>2, <1>4 DEF RecordStep, Kept, SameBroadcast
<1>5. QED
  BY <1>3, <1>4

LEMMA MarkBroadcastAttemptingRecords ==
  ASSUME TypeOK, NEW m \in Manager, NEW o \in Op, NEW hash \in TxId, NEW tx \in TxId,
         NEW signed \in BOOLEAN, NEW local \in BOOLEAN,
         MarkBroadcastAttempting(m, o, hash, tx, signed, local)
  PROVE  RecordsStep
<1> SUFFICES ASSUME NEW p \in Op, NEW n \in Note PROVE RecordStep(p, n)
  BY DEF RecordsStep
<1> DEFINE b == broadcast[o][n]
<1>1. SameStatus(p, n) /\ SameOwner(p, n) /\ SameEvidence(p, n)
  BY DEF MarkBroadcastAttempting, SameStatus, SameOwner, SameEvidence
<1>2. broadcast'[p][n] = IF p = o /\ n \in Live(o)
        THEN [b EXCEPT !.inFlight = TRUE, !.count = @ + 1, !.local = local,
                       !.submitted = Merge(@, hash), !.bytes = Merge(@, tx),
                       !.signDoc = @ \/ signed]
        ELSE broadcast[p][n]
  BY DEF MarkBroadcastAttempting, WriteBroadcast, OnLive, TypeOK, BroadcastType
<1>3. CASE p = o /\ n \in Live(o)
  <2>1. status[o][n] = "ProofReady"
    BY <1>3, AllInRecord DEF MarkBroadcastAttempting
  <2>2. b \in Broadcast
    BY DEF TypeOK, BroadcastType
  <2>3. ~b.handedOff /\ Unsent(b) /\ Keeps(b.submitted, hash) /\ Keeps(b.bytes, tx)
    BY <1>3 DEF MarkBroadcastAttempting
  <2>4. KeepsIdentity(b, broadcast'[o][n])
    BY <1>2, <1>3, <2>2, <2>3 DEF KeepsIdentity, Broadcast, Keeps, Merge
  <2>5. b.count = 0 /\ ~broadcast'[o][n].handedOff /\ broadcast'[o][n].count = 1
    <3>1. /\ broadcast'[o][n].handedOff = b.handedOff
          /\ broadcast'[o][n].count = b.count + 1
      BY <1>2, <1>3, <2>2 DEF Broadcast
    <3>2. QED
      BY <2>3, <3>1 DEF Unsent
  <2>6. GivenOut(o, n)
    BY <1>1, <1>3, <2>1, <2>3, <2>4, <2>5 DEF GivenOut
  <2>7. QED
    BY <1>3, <2>6 DEF RecordStep
<1>4. CASE ~(p = o /\ n \in Live(o))
  BY <1>1, <1>2, <1>4 DEF RecordStep, Kept, SameBroadcast
<1>5. QED
  BY <1>3, <1>4

LEMMA AfterAttemptRecords ==
  ASSUME TypeOK, NEW o \in Op, NEW to \in {"Submitted", "Unknown"},
         NEW hash \in TxId, NEW tx \in TxId,
         Attempted(o, hash, tx), AfterAttempt(o, to, hash, tx),
         \A n \in Live(o) : \/ status[o][n] = "ProofReady" /\ Held(o, n)
                            \/ status[o][n] = "Submitted"
  PROVE  RecordsStep
<1> SUFFICES ASSUME NEW p \in Op, NEW n \in Note PROVE RecordStep(p, n)
  BY DEF RecordsStep
<1> DEFINE b == broadcast[o][n]
<1>1. status'[p][n] = IF p = o /\ n \in Live(o) THEN to ELSE status[p][n]
  BY MoveToRecord DEF AfterAttempt, Status
<1>2. lease'[p][n] = IF p = o /\ n \in Live(o) THEN NoLease ELSE lease[p][n]
  BY DropLeaseRecord DEF AfterAttempt
<1>3. broadcast'[p][n] = IF p = o /\ n \in Live(o)
        THEN [b EXCEPT !.inFlight = FALSE, !.submitted = Merge(@, hash), !.bytes = Merge(@, tx)]
        ELSE broadcast[p][n]
  BY DEF AfterAttempt, WriteBroadcast, OnLive, TypeOK, BroadcastType
<1>4. SameEvidence(p, n)
  BY DEF AfterAttempt, SameEvidence
<1>5. CASE p = o /\ n \in Live(o)
  <2>1. b \in Broadcast
    BY DEF TypeOK, BroadcastType
  <2>2. Keeps(b.submitted, hash) /\ Keeps(b.bytes, tx)
    BY <1>5 DEF Attempted
  <2>3. KeepsIdentity(b, broadcast'[o][n])
    <3>1. /\ broadcast'[o][n].payload = b.payload
          /\ broadcast'[o][n].signDoc = b.signDoc
          /\ broadcast'[o][n].submitted = Merge(b.submitted, hash)
          /\ broadcast'[o][n].bytes = Merge(b.bytes, tx)
      BY <1>3, <1>5, <2>1 DEF Broadcast
    <3>2. QED
      BY <2>2, <3>1 DEF KeepsIdentity, Keeps, Merge
  <2>4. KeepsMarks(b, broadcast'[o][n]) /\ ~broadcast'[o][n].inFlight
    BY <1>3, <1>5, <2>1 DEF KeepsMarks, Broadcast
  <2>5. Answered(o, n)
    BY <1>1, <1>2, <1>4, <1>5, <2>3, <2>4 DEF Answered, LosesLease
  <2>6. QED
    BY <1>5, <2>5 DEF RecordStep
<1>6. CASE ~(p = o /\ n \in Live(o))
  BY <1>1, <1>2, <1>3, <1>4, <1>6 DEF RecordStep, Kept, SameStatus, SameOwner, SameBroadcast
<1>7. QED
  BY <1>5, <1>6

LEMMA RecordRelayTransactionEvidenceRecords ==
  ASSUME TypeOK, NEW o \in Op, NEW tx \in TxId \ {0}, RecordRelayTransactionEvidence(o, tx)
  PROVE  RecordsStep
<1> SUFFICES ASSUME NEW p \in Op, NEW n \in Note PROVE RecordStep(p, n)
  BY DEF RecordsStep
<1> DEFINE b == broadcast[o][n]
<1>1. status'[p][n] = IF p = o /\ n \in Live(o) THEN "Submitted" ELSE status[p][n]
  BY MoveToRecord DEF RecordRelayTransactionEvidence, Status
<1>2. lease'[p][n] = IF p = o /\ n \in Live(o) THEN NoLease ELSE lease[p][n]
  BY DropLeaseRecord DEF RecordRelayTransactionEvidence
<1>3. broadcast'[p][n] = IF p = o /\ n \in Live(o)
        THEN [b EXCEPT !.submitted = tx, !.inFlight = FALSE,
                       !.count = IF b.handedOff THEN 1 ELSE @]
        ELSE broadcast[p][n]
  BY DEF RecordRelayTransactionEvidence, WriteBroadcast, OnLive, TypeOK, BroadcastType
<1>4. evidence'[p][n] = IF p = o /\ n \in Live(o) THEN evidence[p][n] \cup {"included"}
                        ELSE evidence[p][n]
  BY AddEvidenceRecord DEF RecordRelayTransactionEvidence
<1>5. CASE p = o /\ n \in Live(o)
  <2>1. b \in Broadcast /\ status[o][n] = "ProofReady"
    BY <1>5, AllInRecord DEF TypeOK, BroadcastType, RecordRelayTransactionEvidence
  <2>2. /\ Keeps(b.submitted, tx)
        /\ (b.handedOff /\ Unsent(b)) \/ ~b.handedOff
    BY <1>5 DEF RecordRelayTransactionEvidence
  <2>3. KeepsIdentity(b, broadcast'[o][n])
    BY <1>3, <1>5, <2>1, <2>2 DEF KeepsIdentity, Broadcast, Keeps
  <2>4. /\ ~broadcast'[o][n].inFlight
        /\ broadcast'[o][n].handedOff = b.handedOff
        /\ \/ ~b.handedOff /\ broadcast'[o][n].count = b.count
           \/ b.count = 0 /\ broadcast'[o][n].count = 1
    BY <1>3, <1>5, <2>1, <2>2 DEF Broadcast, Unsent
  <2>5. Included(o, n)
    BY <1>1, <1>2, <1>4, <1>5, <2>1, <2>3, <2>4 DEF Included, LosesLease
  <2>6. QED
    BY <1>5, <2>5 DEF RecordStep
<1>6. CASE ~(p = o /\ n \in Live(o))
  BY <1>1, <1>2, <1>3, <1>4, <1>6
     DEF RecordStep, Kept, SameStatus, SameOwner, SameBroadcast, SameEvidence
<1>7. QED
  BY <1>5, <1>6

LEMMA MakeAvailableRecords ==
  ASSUME TypeOK, NEW o \in Op, NEW N \in SUBSET Note, MakeAvailable(o, N)
  PROVE  RecordsStep
<1> SUFFICES ASSUME NEW p \in Op, NEW n \in Note PROVE RecordStep(p, n)
  BY DEF RecordsStep
<1>1. /\ status'[o][n] = IF n \in N THEN "Available" ELSE status[o][n]
      /\ p # o => status'[p] = status[p]
      /\ n \in N => status[o][n] = "Released"
  BY MakeAvailableValue DEF TypeOK
<1>2. SameOwner(p, n) /\ SameBroadcast(p, n) /\ SameEvidence(p, n)
  BY DEF MakeAvailable, SameOwner, SameBroadcast, SameEvidence
<1>3. QED
  BY <1>1, <1>2 DEF RecordStep, Kept, MadeAvailable, SameStatus

LEMMA ReconcileSpentRecords ==
  ASSUME TypeOK, NEW S \in SUBSET Note, NEW by \in [S -> SpendEvidence],
         ReconcileSpent(S, by)
  PROVE  RecordsStep
<1> SUFFICES ASSUME NEW o \in Op, NEW n \in Note PROVE RecordStep(o, n)
  BY DEF RecordsStep
<1> DEFINE affected == {p \in Op : Linked(p) \cap S # {}}
           written == {p \in affected : ~PriorSuccess(p)}
           spent == o \in written /\ n \in Linked(o) \cap S
<1>1. status'[o][n] = IF spent THEN "ConfirmedSpent" ELSE status[o][n]
  BY DEF ReconcileSpent
<1>2. lease'[o][n] = IF spent THEN NoLease ELSE lease[o][n]
  BY DEF ReconcileSpent
<1>3. broadcast'[o][n] = IF spent THEN [broadcast[o][n] EXCEPT !.inFlight = FALSE]
                         ELSE broadcast[o][n]
  BY DEF ReconcileSpent
<1>4. SameEvidence(o, n)
  BY DEF ReconcileSpent, SameEvidence
<1>5. spent => status[o][n] # NoRecord
  BY DEF Linked
<1> HIDE DEF spent
<1>6. QED
  BY <1>1, <1>2, <1>3, <1>4, <1>5
     DEF RecordStep, Kept, Consumed, SameStatus, SameOwner, SameBroadcast, LosesLease, Settled

LEMMA TickRecords ==
  ASSUME TypeOK, Tick
  PROVE  RecordsStep
<1> SUFFICES ASSUME NEW o \in Op, NEW n \in Note PROVE Kept(o, n)
  BY DEF RecordsStep, RecordStep
<1>1. lease[o][n] \in Lease
  BY DEF TypeOK, LeaseType
<1>2. lease'[o][n] = [lease[o][n] EXCEPT !.ttl = IF @ > 0 THEN @ - 1 ELSE 0]
  BY DEF Tick
<1>3. lease'[o][n].owner = lease[o][n].owner
  BY <1>1, <1>2 DEF Lease
<1>4. QED
  BY <1>3 DEF Kept, SameStatus, SameOwner, SameBroadcast, SameEvidence, Tick

LEMMA UnwrittenRecords ==
  ASSUME UNCHANGED <<status, lease, broadcast, evidence>>
  PROVE  RecordsStep
  BY DEF RecordsStep, RecordStep, Kept, SameStatus, SameOwner, SameBroadcast, SameEvidence

LEMMA WorkerRecords ==
  ASSUME TypeOK, NEW m \in Manager, NEW o \in Op, WorkerStep(m, o)
  PROVE  RecordsStep
<1>1. CASE \E N \in SUBSET Note : ReserveNotes(m, o, N)
  BY <1>1, ReserveNotesRecords
<1>2. CASE MarkProving(m, o)
  BY <1>2, MarkProvingRecords
<1>3. CASE \E ttl \in 1 .. LeaseDuration : RenewLease(m, o, ttl)
  BY <1>3, RenewLeaseRecords
<1>4. CASE \E payload \in PayloadId, signed \in BOOLEAN, tx \in TxId :
             MarkProofReady(m, o, payload, signed, tx)
  BY <1>4, MarkProofReadyRecords
<1>5. CASE \E signed \in BOOLEAN, tx \in TxId : RecordRelayHandoff(m, o, signed, tx)
  BY <1>5, RecordRelayHandoffRecords
<1>6. CASE \E hash, tx \in TxId, signed, local \in BOOLEAN :
             MarkBroadcastAttempting(m, o, hash, tx, signed, local)
  BY <1>6, MarkBroadcastAttemptingRecords
<1>7. CASE \E kind \in {"wallet_rejected", "aborted_before_rpc", "check_tx_rejected"} :
             MarkBroadcastRejected(m, o, kind)
  BY <1>7, MarkBroadcastRejectedRecords
<1>8. CASE \E hash, tx \in TxId : MarkSubmitted(m, o, hash, tx)
  <2>1. PICK hash \in TxId, tx \in TxId : MarkSubmitted(m, o, hash, tx)
    BY <1>8
  <2>2. \A n \in Live(o) : status[o][n] = "ProofReady" /\ Held(o, n)
    BY <2>1, AllInRecord, HoldsLeaseRecord DEF MarkSubmitted
  <2>3. QED
    BY <2>1, <2>2, AfterAttemptRecords DEF MarkSubmitted
<1>9. CASE \E hash, tx \in TxId : MarkUnknown(m, o, hash, tx)
  <2>1. PICK hash \in TxId, tx \in TxId : MarkUnknown(m, o, hash, tx)
    BY <1>9
  <2>2. \A n \in Live(o) : \/ status[o][n] = "ProofReady" /\ Held(o, n)
                           \/ status[o][n] = "Submitted"
    BY <2>1, AllInRecord, HoldsLeaseRecord DEF MarkUnknown
  <2>3. QED
    BY <2>1, <2>2, AfterAttemptRecords DEF MarkUnknown
<1>10. CASE \E tx \in TxId : MarkBroadcastFailed(m, o, tx)
  BY <1>10, MarkBroadcastFailedRecords
<1>11. CASE \E from \in Status, tx \in TxId : MarkReplanRequired(m, o, from, tx)
  BY <1>11, MarkReplanRequiredRecords
<1>12. CASE \E from \in Status : MarkManualReview(m, o, from)
  BY <1>12, MarkManualReviewRecords
<1>13. CASE \E from \in Status : ReturnToReserved(m, o, from)
  BY <1>13, ReturnToReservedRecords
<1>14. QED
  BY <1>1, <1>2, <1>3, <1>4, <1>5, <1>6, <1>7, <1>8, <1>9, <1>10, <1>11,
     <1>12, <1>13 DEF WorkerStep

LEMMA OperatorRecords ==
  ASSUME TypeOK, NEW o \in Op, OperatorStep(o)
  PROVE  RecordsStep
  BY ReleaseReservedRecords, RecordRelayTransactionEvidenceRecords,
     RecoverExpiredProofReadyRecords, MarkFailedRecords, ResolveManualReviewRecords,
     MakeAvailableRecords DEF OperatorStep

LEMMA NextRecords ==
  ASSUME TypeOK, [Next]_vars
  PROVE  RecordsStep
<1>1. CASE \E m \in Manager, o \in Op : WorkerStep(m, o)
  BY <1>1, WorkerRecords
<1>2. CASE \E o \in Op : OperatorStep(o)
  BY <1>2, OperatorRecords
<1>3. CASE \E S \in SUBSET Note : \E by \in [S -> SpendEvidence] : ReconcileSpent(S, by)
  BY <1>3, ReconcileSpentRecords
<1>4. CASE Tick
  BY <1>4, TickRecords
<1>5. CASE (\E m \in Manager : Crash(m)) \/ UNCHANGED vars
  BY <1>5, UnwrittenRecords DEF Crash, vars
<1>6. QED
  BY <1>1, <1>2, <1>3, <1>4, <1>5 DEF Next

------------------------------------------------------------------------------
(* BroadcastAccountedFor, record by record, with what makes it inductive:  *)
(* where no record is kept nothing was broadcast, and no call makes a      *)
(* record Discovered.                                                      *)
RecordAccounted(o, n) ==
  LET b == broadcast[o][n]
  IN  /\ status[o][n] # "Discovered"
      /\ status[o][n] = NoRecord => b.count = 0 /\ ~b.handedOff /\ ~b.inFlight
      /\ lease[o][n].owner # NoManager <=> status[o][n] \in {"Proving", "ProofReady"}
      /\ b.inFlight => status[o][n] = "ProofReady"
      /\ b.count <= 1
      /\ b.handedOff /\ b.count = 1 => "included" \in evidence[o][n]
      /\ Sent(o, n) /\ status[o][n] \in LetGo => evidence[o][n] \cap Reasons # {}
      /\ "exact_failure" \in evidence[o][n] => Identities(o, n) # {}

RecordsAccounted == \A o \in Op, n \in Note : RecordAccounted(o, n)

LEMMA IdentitiesKept ==
  ASSUME NEW o \in Op, NEW n \in Note, Identities(o, n) # {},
         KeepsIdentity(broadcast[o][n], broadcast'[o][n])
  PROVE  Identities(o, n)' # {}
  BY DEF Identities, KeepsIdentity

LEMMA SameIdentities ==
  ASSUME NEW o \in Op, NEW n \in Note, broadcast'[o][n] = broadcast[o][n]
  PROVE  Identities(o, n)' = Identities(o, n) /\ Sent(o, n)' = Sent(o, n)
  BY DEF Identities, Sent

LEMMA SettledFields ==
  ASSUME TypeOK, NEW o \in Op, NEW n \in Note, Settled(o, n)
  PROVE  /\ KeepsIdentity(broadcast[o][n], broadcast'[o][n])
         /\ KeepsMarks(broadcast[o][n], broadcast'[o][n])
         /\ ~broadcast'[o][n].inFlight
<1>1. broadcast[o][n] \in Broadcast
  BY DEF TypeOK, BroadcastType
<1>2. QED
  BY <1>1 DEF Settled, KeepsIdentity, KeepsMarks, Broadcast

LEMMA RecordStepAccounted ==
  ASSUME TypeOK, TypeOK', NEW o \in Op, NEW n \in Note, RecordAccounted(o, n), RecordStep(o, n)
  PROVE  RecordAccounted(o, n)'
<1>0. broadcast[o][n] \in Broadcast /\ broadcast'[o][n] \in Broadcast
  BY DEF TypeOK, BroadcastType
<1>1. CASE Kept(o, n)
  BY <1>1, SameIdentities
     DEF Kept, RecordAccounted, SameStatus, SameOwner, SameBroadcast, SameEvidence
<1>2. CASE Created(o, n)
  BY <1>2, SameIdentities
     DEF Created, RecordAccounted, SameOwner, SameBroadcast, SameEvidence, Sent, NoRecord
<1>3. CASE Started(o, n)
  BY <1>3, SameIdentities
     DEF Started, RecordAccounted, GainsOwner, SameBroadcast, SameEvidence, LetGo, NoRecord
<1>4. CASE Proved(o, n)
  BY <1>0, <1>4, IdentitiesKept
     DEF Proved, RecordAccounted, GainsOwner, KeepsMarks, LetGo, NoRecord
<1>5. CASE GivenOut(o, n)
  BY <1>0, <1>5, IdentitiesKept
     DEF GivenOut, RecordAccounted, SameStatus, SameOwner, SameEvidence, LetGo, NoRecord
<1>6. CASE Answered(o, n)
  BY <1>0, <1>6, IdentitiesKept
     DEF Answered, RecordAccounted, LosesLease, NoLease, SameEvidence, KeepsMarks, LetGo, NoRecord
<1>7. CASE Included(o, n)
  BY <1>0, <1>7, IdentitiesKept
     DEF Included, RecordAccounted, LosesLease, NoLease, LetGo, NoRecord
<1>8. CASE Left(o, n)
  <2>1. /\ KeepsIdentity(broadcast[o][n], broadcast'[o][n])
        /\ KeepsMarks(broadcast[o][n], broadcast'[o][n])
        /\ ~broadcast'[o][n].inFlight
    BY <1>8, SettledFields
       DEF Left, SameBroadcast, KeepsIdentity, KeepsMarks, RecordAccounted
  <2>2. Sent(o, n)' = Sent(o, n)
    BY <2>1 DEF Sent, KeepsMarks
  <2>3. Identities(o, n) # {} => Identities(o, n)' # {}
    BY <2>1, IdentitiesKept
  <2>4. Sent(o, n)' /\ status'[o][n] \in LetGo => evidence'[o][n] \cap Reasons # {}
    BY <1>8, <2>2 DEF Left, RecordAccounted, LetGo
  <2>5. "exact_failure" \in evidence'[o][n] => Identities(o, n)' # {}
    BY <1>8, <2>3 DEF Left, RecordAccounted
  <2>6. /\ broadcast'[o][n].count <= 1
        /\ broadcast'[o][n].handedOff /\ broadcast'[o][n].count = 1
             => "included" \in evidence'[o][n]
    BY <1>8, <2>1 DEF Left, RecordAccounted, KeepsMarks
  <2>7. QED
    BY <1>8, <2>1, <2>4, <2>5, <2>6 DEF Left, RecordAccounted, LosesLease, NoLease, NoRecord
<1>9. CASE MadeAvailable(o, n)
  BY <1>9, SameIdentities
     DEF MadeAvailable, RecordAccounted, SameOwner, SameBroadcast, SameEvidence, LetGo, NoRecord
<1>10. CASE Consumed(o, n)
  BY <1>0, <1>10, SettledFields, IdentitiesKept
     DEF Consumed, RecordAccounted, LosesLease, NoLease, SameEvidence, KeepsMarks, LetGo, NoRecord
<1>11. QED
  BY <1>1, <1>2, <1>3, <1>4, <1>5, <1>6, <1>7, <1>8, <1>9, <1>10 DEF RecordStep

(* A lease is held exactly while there is work under it, a payload crosses *)
(* one boundary at most once, and what may have reached the chain is never *)
(* silently prepared again.                                                *)
THEOREM BroadcastsAreAccountedFor == Spec => []BroadcastAccountedFor
<1>1. Init => RecordsAccounted
  BY StoreAssumption
     DEF Init, RecordsAccounted, RecordAccounted, NoBroadcast, NoLease, NoRecord, LetGo, Sent
<1>2. TypeOK /\ TypeOK' /\ RecordsAccounted /\ [Next]_vars => RecordsAccounted'
  BY NextRecords, RecordStepAccounted DEF RecordsAccounted, RecordsStep
<1>3. TypeOK /\ RecordsAccounted => BroadcastAccountedFor
  BY DEF RecordsAccounted, RecordAccounted, BroadcastAccountedFor, LeaseMatchesStatus,
         SingleBroadcast, NoSilentReuse, LetGo, Reasons
<1>4. QED
  BY <1>1, <1>2, <1>3, Typing, PTL DEF Spec

------------------------------------------------------------------------------
(* What every kind of step keeps of a record.                              *)
LEMMA RecordStepKeeps ==
  ASSUME TypeOK, NEW o \in Op, NEW n \in Note, RecordStep(o, n)
  PROVE  /\ KeepsIdentity(broadcast[o][n], broadcast'[o][n])
         /\ broadcast[o][n].handedOff => broadcast'[o][n].handedOff
         /\ broadcast[o][n].count <= broadcast'[o][n].count
         /\ evidence[o][n] \subseteq evidence'[o][n]
         /\ status[o][n] = "ConfirmedSpent" => status'[o][n] = "ConfirmedSpent"
<1>0. broadcast[o][n] \in Broadcast
  BY DEF TypeOK, BroadcastType
<1>1. KeepsIdentity(broadcast[o][n], broadcast[o][n])
  BY DEF KeepsIdentity
<1>2. CASE Kept(o, n) \/ Created(o, n) \/ Started(o, n) \/ MadeAvailable(o, n)
  BY <1>0, <1>1, <1>2
     DEF Kept, Created, Started, MadeAvailable, SameStatus, SameBroadcast, SameEvidence,
         Broadcast, NoRecord
<1>3. CASE Proved(o, n) \/ GivenOut(o, n) \/ Answered(o, n) \/ Included(o, n)
  BY <1>0, <1>3
     DEF Proved, GivenOut, Answered, Included, KeepsMarks, SameStatus, SameEvidence,
         Broadcast
<1>4. CASE Left(o, n)
  BY <1>0, <1>1, <1>4, SettledFields DEF Left, KeepsMarks, SameBroadcast, Broadcast
<1>5. CASE Consumed(o, n)
  BY <1>0, <1>5, SettledFields DEF Consumed, KeepsMarks, SameEvidence, Broadcast
<1>6. QED
  BY <1>2, <1>3, <1>4, <1>5 DEF RecordStep

(* Only a reconciliation evaluates operations.                             *)
OutcomeStep ==
  \/ UNCHANGED outcome
  \/ \E S \in SUBSET Note : \E by \in [S -> SpendEvidence] : ReconcileSpent(S, by)

LEMMA NextOutcome ==
  ASSUME [Next]_vars
  PROVE  OutcomeStep
<1>1. ASSUME NEW m \in Manager, NEW o \in Op, WorkerStep(m, o)
      PROVE  UNCHANGED outcome
  BY <1>1 DEF WorkerStep, ReserveNotes, MarkProving, RenewLease, MarkProofReady,
              RecordRelayHandoff, MarkBroadcastAttempting, MarkBroadcastRejected,
              MarkSubmitted, MarkUnknown, AfterAttempt, MarkBroadcastFailed,
              MarkReplanRequired, MarkManualReview, ReturnToReserved
<1>2. ASSUME NEW o \in Op, OperatorStep(o)
      PROVE  UNCHANGED outcome
  BY <1>2 DEF OperatorStep, ReleaseReserved, RecordRelayTransactionEvidence,
              RecoverExpiredProofReady, MarkFailed, ResolveManualReview, MakeAvailable
<1>3. QED
  BY <1>1, <1>2 DEF Next, OutcomeStep, Tick, Crash, vars

(* The outcomes a reconciliation writes: none on an operation that has     *)
(* succeeded, and a success only where every input is spent and proved.    *)
LEMMA ReconcileSpentOutcome ==
  ASSUME TypeOK, NEW S \in SUBSET Note, NEW by \in [S -> SpendEvidence],
         ReconcileSpent(S, by), NEW o \in Op, NEW n \in Note
  PROVE  /\ PriorSuccess(o) \/ n \notin Linked(o) => outcome'[o][n] = outcome[o][n]
         /\ outcome'[o][n] = "Succeeded" /\ ~PriorSuccess(o) =>
              \/ outcome[o][n] = "Succeeded" /\ n \notin Linked(o)
              \/ /\ n \in Linked(o) /\ Linked(o) \subseteq S
                 /\ \A k \in Linked(o) : outcome'[o][k] = "Succeeded" /\ Proves(o, k, by[k])
<1> DEFINE affected == {p \in Op : Linked(p) \cap S # {}}
           written == {p \in affected : ~PriorSuccess(p)}
<1>1. \A k \in Note : outcome'[o][k] = IF o \in written /\ Required(o) /\ k \in Linked(o)
                                       THEN OutcomeOf(o, S, by) ELSE outcome[o][k]
  BY DEF ReconcileSpent
<1>2. PriorSuccess(o) \/ n \notin Linked(o) => outcome'[o][n] = outcome[o][n]
  BY <1>1
<1>3. ASSUME outcome'[o][n] = "Succeeded", ~PriorSuccess(o)
      PROVE  \/ outcome[o][n] = "Succeeded" /\ n \notin Linked(o)
             \/ /\ n \in Linked(o) /\ Linked(o) \subseteq S
                /\ \A k \in Linked(o) : outcome'[o][k] = "Succeeded" /\ Proves(o, k, by[k])
  <2>1. CASE o \in written /\ Required(o) /\ n \in Linked(o)
    <3>1. OutcomeOf(o, S, by) = "Succeeded"
      BY <1>1, <1>3, <2>1
    <3>2. Linked(o) \subseteq S /\ \A k \in Linked(o) : Proves(o, k, by[k])
      BY <3>1 DEF OutcomeOf
    <3>3. \A k \in Linked(o) : outcome'[o][k] = "Succeeded"
      BY <1>1, <2>1, <3>1 DEF Linked
    <3>4. QED
      BY <2>1, <3>2, <3>3
  <2>2. CASE ~(o \in written /\ Required(o) /\ n \in Linked(o))
    <3>1. outcome[o][n] = "Succeeded"
      BY <1>1, <1>3, <2>2
    <3>2. QED
      BY <1>3, <3>1 DEF PriorSuccess
  <2>3. QED
    BY <2>1, <2>2
<1>4. QED
  BY <1>2, <1>3

(* What recovery reads after a restart is never lost or rewritten.         *)
THEOREM EvidenceIsNeverLost == Spec => EvidenceIsPermanent
<1> DEFINE Permanent ==
      \A o \in Op, n \in Note :
        LET b == broadcast[o][n]
            b2 == broadcast'[o][n]
        IN  /\ b.payload # 0 => b2.payload = b.payload
            /\ b.bytes # 0 => b2.bytes = b.bytes
            /\ b.submitted # 0 => b2.submitted = b.submitted
            /\ b.signDoc => b2.signDoc
            /\ b.handedOff => b2.handedOff
            /\ b.count <= b2.count
            /\ evidence[o][n] \subseteq evidence'[o][n]
            /\ status[o][n] = "ConfirmedSpent" => status'[o][n] = "ConfirmedSpent"
            /\ outcome[o][n] = "Succeeded" => outcome'[o][n] = "Succeeded"
<1>1. TypeOK /\ [Next]_vars => Permanent
  <2> SUFFICES ASSUME TypeOK, [Next]_vars, NEW o \in Op, NEW n \in Note
               PROVE  /\ RecordStep(o, n)
                      /\ outcome[o][n] = "Succeeded" => outcome'[o][n] = "Succeeded"
    BY RecordStepKeeps DEF KeepsIdentity
  <2>1. RecordStep(o, n)
    BY NextRecords DEF RecordsStep
  <2>2. outcome[o][n] = "Succeeded" => PriorSuccess(o) \/ n \notin Linked(o)
    BY DEF PriorSuccess
  <2>3. outcome[o][n] = "Succeeded" => outcome'[o][n] = "Succeeded"
    BY <2>2, NextOutcome, ReconcileSpentOutcome DEF OutcomeStep
  <2>4. QED
    BY <2>1, <2>3
<1> HIDE DEF Permanent
<1>2. TypeOK /\ [Next]_vars => [Permanent]_vars
  BY <1>1
<1>3. []TypeOK /\ [][Next]_vars => [][Permanent]_vars
  BY <1>2, PTL
<1>4. QED
  BY <1>3, Typing DEF Spec, EvidenceIsPermanent, Permanent

(* While a vanished worker's lease runs, only the chain moves its records. *)
THEOREM LeasesOutliveCrashes == Spec => CrashedLeaseRespected
<1> DEFINE Respected ==
      \A o \in Op, n \in Note :
        /\ status[o][n] \in {"Proving", "ProofReady"}
        /\ lease[o][n].ttl > 0
        /\ o \notin claim[lease[o][n].owner]
        /\ status'[o][n] # status[o][n]
        => \/ status'[o][n] = "ConfirmedSpent"
           \/ status'[o][n] = "Submitted" /\ "included" \in evidence'[o][n]
<1>1. TypeOK /\ [Next]_vars => Respected
  <2> SUFFICES ASSUME TypeOK, [Next]_vars, NEW o \in Op, NEW n \in Note,
                      status[o][n] \in {"Proving", "ProofReady"},
                      lease[o][n].ttl > 0, o \notin claim[lease[o][n].owner],
                      status'[o][n] # status[o][n]
               PROVE  \/ status'[o][n] = "ConfirmedSpent"
                      \/ status'[o][n] = "Submitted" /\ "included" \in evidence'[o][n]
    OBVIOUS
  <2>1. RecordStep(o, n)
    BY NextRecords DEF RecordsStep
  <2>2. ~Held(o, n) /\ ~Expired(o, n)
    BY DEF Held, Expired
  <2>3. Included(o, n) \/ Consumed(o, n)
    BY <2>1, <2>2 DEF RecordStep, Kept, Created, Started, Proved, GivenOut, Answered, Left,
                      MadeAvailable, SameStatus, NoRecord
  <2>4. QED
    BY <2>3 DEF Included, Consumed
<1> HIDE DEF Respected
<1>2. []TypeOK /\ [][Next]_vars => [][Respected]_vars
  BY <1>1, PTL
<1>3. QED
  BY <1>2, Typing DEF Spec, CrashedLeaseRespected, Respected

------------------------------------------------------------------------------
(* SuccessIsWhole needs no strengthening but that only kept records have   *)
(* outcomes.                                                               *)
OutcomesLinked == \A o \in Op, n \in Note : outcome[o][n] = "Succeeded" => n \in Linked(o)

SuccessInv == SuccessIsWhole /\ OutcomesLinked

(* A success stays whole: its records are all spent, and those stay.       *)
LEMMA SuccessStays ==
  ASSUME TypeOK, SuccessInv, [Next]_vars, NEW o \in Op, PriorSuccess(o), NEW n \in Note
  PROVE  /\ status'[o][n] = status[o][n] /\ outcome'[o][n] = outcome[o][n]
         /\ Identities(o, n) # {} => Identities(o, n)' # {}
<1>1. \A k \in Note : status[o][k] \in {NoRecord, "ConfirmedSpent"}
  BY DEF SuccessInv, SuccessIsWhole, Linked
<1>2. Linked(o) # {} /\ Live(o) = {}
  BY <1>1 DEF PriorSuccess, Live, Linked
<1>3. status'[o][n] = status[o][n]
  <2>1. CASE \E m \in Manager, p \in Op, N \in SUBSET Note : ReserveNotes(m, p, N)
    BY <1>2, <2>1, ReserveNotesValue DEF ReserveNotes, Fresh, TypeOK
  <2>2. CASE \E p \in Op, to \in Status \ {"ConfirmedSpent"} : MoveTo(p, to)
    BY <1>2, <2>2, MoveToValue DEF TypeOK
  <2>3. CASE \E p \in Op, N \in SUBSET Note : MakeAvailable(p, N)
    BY <1>1, <2>3, MakeAvailableValue DEF TypeOK, NoRecord
  <2>4. CASE \E S \in SUBSET Note : \E by \in [S -> SpendEvidence] : ReconcileSpent(S, by)
    BY <1>1, <2>4, ReconcileSpentValue DEF TypeOK, Linked
  <2>5. QED
    BY <2>1, <2>2, <2>3, <2>4, NextStatusStep DEF StatusStep
<1>4. outcome'[o][n] = outcome[o][n]
  BY NextOutcome, ReconcileSpentOutcome DEF OutcomeStep
<1>5. Identities(o, n) # {} => Identities(o, n)' # {}
  BY NextRecords, RecordStepKeeps, IdentitiesKept DEF RecordsStep
<1>6. QED
  BY <1>3, <1>4, <1>5

(* What proves a success names a transaction the record has.               *)
LEMMA ProvedHasIdentity ==
  ASSUME NEW o \in Op, NEW n \in Note, NEW found, Proves(o, n, found)
  PROVE  Identities(o, n) # {}
  BY StoreAssumption DEF Proves, Identities

LEMMA SuccessStep ==
  ASSUME TypeOK, SuccessInv, [Next]_vars
  PROVE  SuccessInv'
<1>1. ASSUME NEW o \in Op, PriorSuccess(o)
      PROVE  /\ \A n \in Linked(o)' : /\ status'[o][n] = "ConfirmedSpent"
                                      /\ outcome'[o][n] = "Succeeded"
                                      /\ Identities(o, n)' # {}
             /\ \A n \in Note : outcome'[o][n] = "Succeeded" => n \in Linked(o)'
  <2>1. \A n \in Note : /\ status'[o][n] = status[o][n] /\ outcome'[o][n] = outcome[o][n]
                        /\ Identities(o, n) # {} => Identities(o, n)' # {}
    BY <1>1, SuccessStays
  <2>2. Linked(o)' = Linked(o)
    BY <2>1 DEF Linked
  <2>3. QED
    BY <1>1, <2>1, <2>2 DEF SuccessInv, SuccessIsWhole, OutcomesLinked, Linked
<1>2. ASSUME NEW o \in Op, ~PriorSuccess(o), UNCHANGED outcome
      PROVE  \A n \in Note : outcome'[o][n] # "Succeeded"
  BY <1>2 DEF SuccessInv, OutcomesLinked, PriorSuccess
<1>3. ASSUME NEW o \in Op, ~PriorSuccess(o), NEW S \in SUBSET Note,
             NEW by \in [S -> SpendEvidence], ReconcileSpent(S, by),
             NEW n \in Note, outcome'[o][n] = "Succeeded"
      PROVE  /\ n \in Linked(o)'
             /\ \A k \in Linked(o)' : /\ status'[o][k] = "ConfirmedSpent"
                                      /\ outcome'[o][k] = "Succeeded"
                                      /\ Identities(o, k)' # {}
  <2>1. outcome[o][n] # "Succeeded"
    BY <1>3 DEF SuccessInv, OutcomesLinked, PriorSuccess
  <2>2. /\ n \in Linked(o) /\ Linked(o) \subseteq S
        /\ \A k \in Linked(o) : outcome'[o][k] = "Succeeded" /\ Proves(o, k, by[k])
    BY <1>3, <2>1, ReconcileSpentOutcome
  <2>3. \A k \in Note :
          status'[o][k] = IF k \in Linked(o) \cap S THEN "ConfirmedSpent" ELSE status[o][k]
    BY <1>3, ReconcileSpentValue DEF TypeOK
  <2>4. Linked(o)' = Linked(o)
    BY <2>3 DEF Linked, NoRecord
  <2>5. \A k \in Linked(o) : Identities(o, k)' # {}
    BY <2>2, ProvedHasIdentity, NextRecords, RecordStepKeeps, IdentitiesKept
       DEF RecordsStep, Linked
  <2>6. QED
    BY <2>2, <2>3, <2>4, <2>5 DEF Linked
<1>4. OutcomeStep
  BY NextOutcome
<1>5. OutcomesLinked'
  BY <1>1, <1>2, <1>3, <1>4 DEF OutcomesLinked, OutcomeStep
<1>6. SuccessIsWhole'
  <2> SUFFICES ASSUME NEW o \in Op, PriorSuccess(o)'
               PROVE  \A n \in Linked(o)' : /\ status'[o][n] = "ConfirmedSpent"
                                           /\ outcome'[o][n] = "Succeeded"
                                           /\ Identities(o, n)' # {}
    BY DEF SuccessIsWhole
  <2>1. PICK n \in Note : outcome'[o][n] = "Succeeded"
    BY DEF PriorSuccess, Linked
  <2>2. QED
    BY <1>1, <1>2, <1>3, <1>4, <2>1 DEF OutcomeStep
<1>7. QED
  BY <1>5, <1>6 DEF SuccessInv

(* An operation moves as one and succeeds as one.                          *)
THEOREM OperationsAreWhole == Spec => []OperationIsWhole
<1>1. Init => SuccessInv
  <2>1. Init => \A o \in Op, n \in Note : outcome[o][n] # "Succeeded"
    BY DEF Init
  <2>2. QED
    BY <2>1 DEF SuccessInv, SuccessIsWhole, OutcomesLinked, PriorSuccess, Linked
<1>2. TypeOK /\ SuccessInv /\ [Next]_vars => SuccessInv'
  BY SuccessStep
<1>3. SuccessInv /\ OperationInStep => OperationIsWhole
  BY DEF SuccessInv, OperationIsWhole
<1>4. QED
  BY <1>1, <1>2, <1>3, Typing, OperationsStayInStep, PTL DEF Spec

------------------------------------------------------------------------------
(* What one call writes in a record, for the clients the calls come from.  *)

SameIds(o, n) ==
  LET b == broadcast[o][n]
      b2 == broadcast'[o][n]
  IN  b2.submitted = b.submitted /\ b2.bytes = b.bytes /\ b2.signDoc = b.signDoc

NotRefused(o, n) ==
  "broadcast_rejected" \in evidence'[o][n] => "broadcast_rejected" \in evidence[o][n]

(* It names no transaction and reports neither success nor refusal.        *)
Quiet(o, n) ==
  /\ SameIds(o, n) /\ NotRefused(o, n)
  /\ status'[o][n] = "Submitted" => status[o][n] = "Submitted"

(* The note of a payment that is ready to go out, went out or was seen     *)
(* spent stays in its operation's hands.                                   *)
Secured == {"ProofReady", "Submitted", "Unknown", "ManualReview", "ConfirmedSpent"}
StaysSecured(o, n) == status[o][n] \in Secured => status'[o][n] \in Secured

Untouched(o, n) == Quiet(o, n) /\ SameStatus(o, n)

LEMMA SettledIds ==
  ASSUME TypeOK, NEW o \in Op, NEW n \in Note, Settled(o, n) \/ SameBroadcast(o, n)
  PROVE  SameIds(o, n) /\ broadcast'[o][n].count = broadcast[o][n].count
  BY DEF Settled, SameBroadcast, SameIds, TypeOK, BroadcastType, Broadcast

LEMMA KeptIsUntouched ==
  ASSUME NEW o, NEW n, SameStatus(o, n), SameBroadcast(o, n), SameEvidence(o, n)
  PROVE  Untouched(o, n)
  BY DEF Untouched, Quiet, SameStatus, SameBroadcast, SameEvidence, SameIds, NotRefused

LEMMA LeavingCall ==
  ASSUME TypeOK, NEW o \in Op, NEW to \in Status \ {"Submitted"}, MoveTo(o, to),
         SettleBroadcast(o), NEW tags, AddEvidence(o, tags),
         "broadcast_rejected" \notin tags, NEW p \in Op, NEW n \in Note
  PROVE  /\ Quiet(p, n)
         /\ \/ SameStatus(p, n)
            \/ /\ p = o /\ n \in Live(o) /\ status'[o][n] = to
               /\ evidence'[o][n] = evidence[o][n] \cup tags
<1>1. status'[p][n] = IF p = o /\ n \in Live(o) THEN to ELSE status[p][n]
  BY MoveToRecord
<1>2. Settled(p, n) \/ SameBroadcast(p, n)
  BY SettleBroadcastRecord DEF Settled, SameBroadcast
<1>3. evidence'[p][n] = IF p = o /\ n \in Live(o) THEN evidence[p][n] \cup tags
                        ELSE evidence[p][n]
  BY AddEvidenceRecord
<1>4. SameIds(p, n)
  BY <1>2, SettledIds
<1>5. NotRefused(p, n)
  BY <1>3 DEF NotRefused
<1>6. QED
  BY <1>1, <1>3, <1>4, <1>5 DEF Quiet, SameStatus

LEMMA FailureCall ==
  ASSUME TypeOK, NEW m, NEW o \in Op, NEW from, NEW tx,
         \/ MarkBroadcastFailed(m, o, tx)
         \/ RecoverExpiredProofReady(o, tx)
         \/ MarkReplanRequired(m, o, from, tx),
         NEW p \in Op, NEW n \in Note
  PROVE  Quiet(p, n) /\ (SameStatus(p, n) \/ (p = o /\ n \in Live(o)))
<1>0. "ReplanRequired" \in Status \ {"Submitted"}
  BY DEF Status
<1>1. PICK tags \in {{"exact_failure"}, {}} : AddEvidence(o, tags)
  BY DEF MarkBroadcastFailed, RecoverExpiredProofReady, MarkReplanRequired
<1>2. MoveTo(o, "ReplanRequired") /\ SettleBroadcast(o)
  BY DEF MarkBroadcastFailed, RecoverExpiredProofReady, MarkReplanRequired
<1>3. QED
  BY <1>0, <1>1, <1>2, LeavingCall

LEMMA ReviewCall ==
  ASSUME TypeOK, NEW m, NEW o \in Op, NEW from, MarkManualReview(m, o, from),
         NEW p \in Op, NEW n \in Note
  PROVE  Quiet(p, n) /\ StaysSecured(p, n)
<1>1. AddEvidence(o, {})
  BY NoEvidenceAdded DEF MarkManualReview
<1>2. "ManualReview" \in Status \ {"Submitted"}
  BY DEF Status
<1>3. QED
  BY <1>1, <1>2, LeavingCall DEF MarkManualReview, StaysSecured, Secured, SameStatus

LEMMA ResolveCall ==
  ASSUME TypeOK, NEW o \in Op, NEW to, ResolveManualReview(o, to), NEW p \in Op, NEW n \in Note
  PROVE  Quiet(p, n) /\ (SameStatus(p, n) \/ "operator_approved" \in evidence'[p][n])
<1>1. to \in Status \ {"Submitted"}
  BY DEF Status, ResolveManualReview
<1>2. QED
  BY <1>1, LeavingCall DEF ResolveManualReview

LEMMA ReserveCall ==
  ASSUME TypeOK, NEW m \in Manager, NEW o \in Op, NEW N \in SUBSET Note,
         ReserveNotes(m, o, N), NEW p \in Op, NEW n \in Note
  PROVE  Quiet(p, n) /\ StaysSecured(p, n)
<1>1. SameStatus(p, n) \/ (status[p][n] = NoRecord /\ status'[p][n] \in {"Reserved", NoRecord})
  <2>1. Created(p, n) \/ SameStatus(p, n)
    BY ReserveNotesValue DEF SameStatus, Created, TypeOK, ReserveNotes, Fresh, Linked,
       SameOwner, SameBroadcast, SameEvidence
  <2>2. QED
    BY <2>1 DEF Created
<1>2. SameBroadcast(p, n) /\ SameEvidence(p, n)
  BY DEF ReserveNotes, SameBroadcast, SameEvidence
<1>3. QED
  BY <1>1, <1>2 DEF Quiet, StaysSecured, SameStatus, SameBroadcast, SameEvidence, SameIds,
                    NotRefused, NoRecord, Secured

LEMMA EarlyCall ==
  ASSUME TypeOK, NEW m, NEW o \in Op, MarkProving(m, o) \/ ReleaseReserved(o),
         NEW p \in Op, NEW n \in Note
  PROVE  Quiet(p, n) /\ StaysSecured(p, n)
<1>1. PICK to \in {"Proving", "Released"} : MoveTo(o, to)
  BY DEF MarkProving, ReleaseReserved
<1>2. status'[p][n] = IF p = o /\ n \in Live(o) THEN to ELSE status[p][n]
  BY <1>1, MoveToRecord DEF Status
<1>3. p = o /\ n \in Live(o) => status[p][n] = "Reserved"
  BY AllInRecord DEF MarkProving, ReleaseReserved
<1>4. SameBroadcast(p, n) /\ SameEvidence(p, n)
  BY DEF MarkProving, ReleaseReserved, SameBroadcast, SameEvidence
<1>5. QED
  BY <1>2, <1>3, <1>4 DEF Quiet, StaysSecured, SameBroadcast, SameEvidence, SameIds,
                          NotRefused, Secured

LEMMA IdleCall ==
  ASSUME UNCHANGED <<status, broadcast, evidence>>, NEW p, NEW n
  PROVE  Untouched(p, n)
  BY KeptIsUntouched DEF SameStatus, SameBroadcast, SameEvidence

LEMMA ReconcileCall ==
  ASSUME TypeOK, NEW S \in SUBSET Note, NEW by \in [S -> SpendEvidence],
         ReconcileSpent(S, by), NEW p \in Op, NEW n \in Note
  PROVE  Quiet(p, n) /\ StaysSecured(p, n)
<1>1. status'[p][n] = IF n \in Linked(p) \cap S THEN "ConfirmedSpent" ELSE status[p][n]
  BY ReconcileSpentValue DEF TypeOK
<1>2. Settled(p, n) \/ SameBroadcast(p, n)
  BY DEF ReconcileSpent, Settled, SameBroadcast
<1>3. SameEvidence(p, n)
  BY DEF ReconcileSpent, SameEvidence
<1>4. SameIds(p, n)
  BY <1>2, SettledIds
<1>5. QED
  BY <1>1, <1>3, <1>4 DEF Quiet, StaysSecured, SameEvidence, NotRefused, Secured

LEMMA ProofCall ==
  ASSUME TypeOK, NEW m, NEW o \in Op, NEW payload, NEW signed, NEW tx,
         MarkProofReady(m, o, payload, signed, tx), NEW p \in Op, NEW n \in Note
  PROVE  /\ StaysSecured(p, n) /\ NotRefused(p, n)
         /\ status'[p][n] = "Submitted" => status[p][n] = "Submitted"
         /\ broadcast'[p][n].submitted = broadcast[p][n].submitted
         /\ p # o \/ tx = 0 => broadcast'[p][n].bytes = broadcast[p][n].bytes
         /\ broadcast'[p][n].signDoc => broadcast[p][n].signDoc \/ (p = o /\ signed)
<1> DEFINE tags == IF o \in EvidenceOp THEN {"success_evidence_required"} ELSE {}
           b == broadcast[o][n]
<1>1. status'[p][n] = IF p = o /\ n \in Live(o) THEN "ProofReady" ELSE status[p][n]
  BY MoveToRecord DEF MarkProofReady, Status
<1>2. broadcast'[p][n] = IF p = o /\ n \in Live(o)
                         THEN [b EXCEPT !.payload = payload, !.signDoc = signed, !.bytes = tx]
                         ELSE broadcast[p][n]
  BY DEF MarkProofReady, WriteBroadcast, OnLive, TypeOK, BroadcastType
<1>3. NotRefused(p, n)
  <2>1. AddEvidence(o, tags) /\ "broadcast_rejected" \notin tags
    BY DEF MarkProofReady
  <2> HIDE DEF tags
  <2>2. evidence'[p][n] = IF p = o /\ n \in Live(o) THEN evidence[p][n] \cup tags
                          ELSE evidence[p][n]
    BY <2>1, AddEvidenceRecord
  <2>3. QED
    BY <2>1, <2>2 DEF NotRefused
<1>4. CASE p = o /\ n \in Live(o)
  <2>1. b \in Broadcast
    BY DEF TypeOK, BroadcastType
  <2>2. /\ broadcast'[o][n].submitted = b.submitted
        /\ broadcast'[o][n].bytes = tx
        /\ broadcast'[o][n].signDoc = signed
    BY <1>2, <1>4, <2>1 DEF Broadcast
  <2>3. b.bytes \in {0, tx}
    BY <1>4 DEF MarkProofReady
  <2>4. QED
    BY <1>1, <1>3, <1>4, <2>2, <2>3 DEF StaysSecured, Secured
<1>5. CASE ~(p = o /\ n \in Live(o))
  BY <1>1, <1>2, <1>3, <1>5 DEF StaysSecured, SameIds
<1>6. QED
  BY <1>4, <1>5

(* The two clients: a sign doc and no hash, or a binding hash and no sign  *)
(* doc.                                                                    *)
LEMMA CosmosProofCall ==
  ASSUME TypeOK, NEW m, NEW o \in Op, NEW payload, MarkProofReady(m, o, payload, TRUE, 0),
         NEW p \in Op, NEW n \in Note
  PROVE  /\ StaysSecured(p, n) /\ NotRefused(p, n)
         /\ status'[p][n] = "Submitted" => status[p][n] = "Submitted"
         /\ broadcast'[p][n].submitted = broadcast[p][n].submitted
         /\ broadcast'[p][n].bytes = broadcast[p][n].bytes
         /\ broadcast'[p][n].signDoc => broadcast[p][n].signDoc \/ p = o
<1>1. PICK signed, tx : tx = 0 /\ MarkProofReady(m, o, payload, signed, tx)
  OBVIOUS
<1>2. QED
  BY <1>1, ProofCall

LEMMA EvmProofCall ==
  ASSUME TypeOK, NEW m, NEW o \in Op, NEW payload, NEW tx,
         MarkProofReady(m, o, payload, FALSE, tx), NEW p \in Op, NEW n \in Note
  PROVE  /\ StaysSecured(p, n) /\ NotRefused(p, n)
         /\ status'[p][n] = "Submitted" => status[p][n] = "Submitted"
         /\ broadcast'[p][n].submitted = broadcast[p][n].submitted
         /\ p # o => broadcast'[p][n].bytes = broadcast[p][n].bytes
         /\ broadcast'[p][n].signDoc => broadcast[p][n].signDoc
<1>1. PICK signed \in BOOLEAN : signed = FALSE /\ MarkProofReady(m, o, payload, signed, tx)
  OBVIOUS
<1>2. QED
  BY <1>1, ProofCall

LEMMA AttemptCall ==
  ASSUME TypeOK, NEW m, NEW o \in Op, NEW hash, NEW tx, NEW signed \in BOOLEAN, NEW local,
         MarkBroadcastAttempting(m, o, hash, tx, signed, local), NEW p \in Op, NEW n \in Note
  PROVE  /\ SameStatus(p, n) /\ NotRefused(p, n)
         /\ ~(p = o /\ n \in Live(o)) => SameIds(p, n)
         /\ p = o /\ n \in Live(o) =>
              LET b == broadcast[o][n]
                  b2 == broadcast'[o][n]
              IN  /\ status[o][n] = "ProofReady"
                  /\ b.count = 0 /\ b2.count = 1
                  /\ b2.submitted = IF hash = 0 THEN b.submitted ELSE hash
                  /\ b2.bytes = IF tx = 0 THEN b.bytes ELSE tx
                  /\ b2.signDoc <=> b.signDoc \/ signed
<1> DEFINE b == broadcast[o][n]
<1>1. SameStatus(p, n) /\ SameEvidence(p, n)
  BY DEF MarkBroadcastAttempting, SameStatus, SameEvidence
<1>2. broadcast'[p][n] = IF p = o /\ n \in Live(o)
        THEN [b EXCEPT !.inFlight = TRUE, !.count = @ + 1, !.local = local,
                       !.submitted = Merge(@, hash), !.bytes = Merge(@, tx),
                       !.signDoc = @ \/ signed]
        ELSE broadcast[p][n]
  BY DEF MarkBroadcastAttempting, WriteBroadcast, OnLive, TypeOK, BroadcastType
<1>3. CASE p = o /\ n \in Live(o)
  <2>1. status[o][n] = "ProofReady"
    BY <1>3, AllInRecord DEF MarkBroadcastAttempting
  <2>2. b \in Broadcast
    BY DEF TypeOK, BroadcastType
  <2>3. Unsent(b) /\ Keeps(b.submitted, hash) /\ Keeps(b.bytes, tx)
    BY <1>3 DEF MarkBroadcastAttempting
  <2>4. /\ broadcast'[o][n].submitted = Merge(b.submitted, hash)
        /\ broadcast'[o][n].bytes = Merge(b.bytes, tx)
        /\ broadcast'[o][n].signDoc = (b.signDoc \/ signed)
    BY <1>2, <1>3, <2>2 DEF Broadcast
  <2>5. b.count = 0 /\ broadcast'[o][n].count = 1
    <3>1. broadcast'[o][n].count = b.count + 1
      BY <1>2, <1>3, <2>2 DEF Broadcast
    <3>2. QED
      BY <2>3, <3>1 DEF Unsent
  <2>6. QED
    BY <1>1, <1>3, <2>1, <2>3, <2>4, <2>5 DEF SameEvidence, NotRefused, Keeps, Merge
<1>4. CASE ~(p = o /\ n \in Live(o))
  BY <1>1, <1>2, <1>4 DEF SameIds, SameEvidence, NotRefused
<1>5. QED
  BY <1>3, <1>4

LEMMA CosmosAttemptCall ==
  ASSUME TypeOK, NEW m, NEW o \in Op, NEW hash, NEW tx,
         MarkBroadcastAttempting(m, o, hash, tx, TRUE, FALSE), NEW n \in Note, n \in Live(o)
  PROVE  broadcast'[o][n].signDoc
<1>1. PICK signed, local :
        signed \in BOOLEAN /\ signed = TRUE /\ MarkBroadcastAttempting(m, o, hash, tx, signed, local)
  OBVIOUS
<1>2. broadcast'[o][n].signDoc <=> broadcast[o][n].signDoc \/ signed
  BY <1>1, AttemptCall
<1>3. QED
  BY <1>1, <1>2

LEMMA AnswerCall ==
  ASSUME TypeOK, NEW m, NEW o \in Op, NEW hash, NEW tx,
         MarkSubmitted(m, o, hash, tx) \/ MarkUnknown(m, o, hash, tx),
         NEW p \in Op, NEW n \in Note
  PROVE  /\ StaysSecured(p, n) /\ NotRefused(p, n)
         /\ ~(p = o /\ n \in Live(o)) => SameIds(p, n) /\ SameStatus(p, n)
         /\ p = o /\ n \in Live(o) =>
              LET b == broadcast[o][n]
                  b2 == broadcast'[o][n]
              IN  /\ MarkUnknown(m, o, hash, tx) => status'[o][n] = "Unknown"
                  /\ Keeps(b.submitted, hash) /\ b2.submitted = Merge(b.submitted, hash)
                  /\ Keeps(b.bytes, tx) /\ b2.bytes = Merge(b.bytes, tx)
                  /\ b2.signDoc <=> b.signDoc
<1> DEFINE b == broadcast[o][n]
<1>0. PICK to \in {"Submitted", "Unknown"} : AfterAttempt(o, to, hash, tx)
  BY DEF MarkSubmitted, MarkUnknown
<1>1. status'[p][n] = IF p = o /\ n \in Live(o) THEN to ELSE status[p][n]
  BY <1>0, MoveToRecord DEF AfterAttempt, Status
<1>2. broadcast'[p][n] = IF p = o /\ n \in Live(o)
        THEN [b EXCEPT !.inFlight = FALSE, !.submitted = Merge(@, hash), !.bytes = Merge(@, tx)]
        ELSE broadcast[p][n]
  BY <1>0 DEF AfterAttempt, WriteBroadcast, OnLive, TypeOK, BroadcastType
<1>3. NotRefused(p, n)
  BY <1>0 DEF AfterAttempt, NotRefused
<1>4. CASE p = o /\ n \in Live(o)
  <2>1. b \in Broadcast
    BY DEF TypeOK, BroadcastType
  <2>2. /\ broadcast'[o][n].submitted = Merge(b.submitted, hash)
        /\ broadcast'[o][n].bytes = Merge(b.bytes, tx)
        /\ broadcast'[o][n].signDoc = b.signDoc
    BY <1>2, <1>4, <2>1 DEF Broadcast
  <2>3. Keeps(b.submitted, hash) /\ Keeps(b.bytes, tx)
    BY <1>4 DEF MarkSubmitted, MarkUnknown, Attempted
  <2>4. MarkUnknown(m, o, hash, tx) => status'[o][n] = "Unknown"
    <3>1. ASSUME MarkUnknown(m, o, hash, tx) PROVE status'[o][n] = "Unknown"
      <4>1. MoveTo(o, "Unknown")
        BY <3>1 DEF MarkUnknown, AfterAttempt
      <4>2. QED
        BY <1>4, <4>1, MoveToRecord DEF Status
    <3>2. QED
      BY <3>1
  <2>5. QED
    BY <1>1, <1>3, <1>4, <2>2, <2>3, <2>4 DEF StaysSecured, Secured
<1>5. CASE ~(p = o /\ n \in Live(o))
  BY <1>1, <1>2, <1>3, <1>5 DEF StaysSecured, SameIds, SameStatus
<1>6. QED
  BY <1>4, <1>5

LEMMA RefusalCall ==
  ASSUME TypeOK, NEW m, NEW o \in Op, NEW kind, MarkBroadcastRejected(m, o, kind),
         NEW p \in Op, NEW n \in Note
  PROVE  /\ SameIds(p, n)
         /\ status'[p][n] = "Submitted" => status[p][n] = "Submitted"
         /\ ~(p = o /\ n \in Live(o)) => SameStatus(p, n) /\ NotRefused(p, n)
         /\ p = o /\ n \in Live(o) =>
              status[o][n] = "ProofReady" /\ "broadcast_rejected" \in evidence'[o][n]
<1>1. status'[p][n] = IF p = o /\ n \in Live(o) THEN "ReplanRequired" ELSE status[p][n]
  BY MoveToRecord DEF MarkBroadcastRejected, Status
<1>2. Settled(p, n) \/ SameBroadcast(p, n)
  BY SettleBroadcastRecord DEF MarkBroadcastRejected, Settled, SameBroadcast
<1>3. evidence'[p][n] = IF p = o /\ n \in Live(o) THEN evidence[p][n] \cup {"broadcast_rejected"}
                        ELSE evidence[p][n]
  BY AddEvidenceRecord DEF MarkBroadcastRejected
<1>4. SameIds(p, n)
  BY <1>2, SettledIds
<1>5. n \in Live(o) => status[o][n] = "ProofReady"
  BY AllInRecord DEF MarkBroadcastRejected
<1>6. QED
  BY <1>1, <1>3, <1>4, <1>5 DEF SameStatus, NotRefused
==============================================================================
