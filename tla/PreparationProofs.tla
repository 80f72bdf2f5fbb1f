-------------------------- MODULE PreparationProofs --------------------------
(***************************************************************************)
(* What a preparation guarantees: prepareTransfer against the clock, for   *)
(* every lease, deadline, set of notes and set of other sessions           *)
(* (ProofPreparation), and prepareTransferBatch carried on by any number   *)
(* of processes that crash and take it up again (BatchCheckpoint).         *)
(***************************************************************************)
EXTENDS ProofPreparation, FiniteSetTheorems, TLAPS

Records == INSTANCE ReservationStoreProofs

(* The store's assumptions, and a lease of two milliseconds at least: with *)
(* one the timer would be due when the lease has run out, and LeaseKept    *)
(* would not hold.                                                         *)
Setting == PreparationAssumption /\ Records!StoreAssumption /\ LeaseDuration > 1

------------------------------------------------------------------------------
(* The theorems about the store are of Records; the calls of the client    *)
(* are of Store: the same definitions, of the same variables.              *)
LEMMA SameReading ==
  /\ Store!TypeOK <=> Records!TypeOK
  /\ Store!Init <=> Records!Init
  /\ Store!Status = Records!Status
  /\ Store!Active = Records!Active
  /\ Store!NoEvidence = Records!NoEvidence
  /\ \A o : Store!Linked(o) = Records!Linked(o) /\ Store!Live(o) = Records!Live(o)
  /\ \A m, o : Store!HoldsLease(m, o) <=> Records!HoldsLease(m, o)
  /\ \A o, from : Store!AllIn(o, from) <=> Records!AllIn(o, from)
BY DEF Records!TypeOK, Store!TypeOK, Records!StatusType, Store!StatusType,
       Records!LeaseType, Store!LeaseType, Records!BroadcastType, Store!BroadcastType,
       Records!EvidenceType, Store!EvidenceType, Records!OutcomeType, Store!OutcomeType,
       Records!ClaimType, Store!ClaimType, Records!Lease, Store!Lease,
       Records!Broadcast, Store!Broadcast, Records!Tag, Store!Tag,
       Records!Status, Store!Status, Records!NoRecord, Store!NoRecord,
       Records!OperationStatus, Store!OperationStatus, Records!TxId, Store!TxId,
       Records!PayloadId, Store!PayloadId, Records!Init, Store!Init,
       Records!NoLease, Store!NoLease, Records!NoBroadcast, Store!NoBroadcast,
       Records!Linked, Store!Linked, Records!Live, Store!Live, Records!Active, Store!Active,
       Records!HoldsLease, Store!HoldsLease, Records!AllIn, Store!AllIn,
       Records!NoEvidence, Store!NoEvidence

LEMMA SameCalls ==
  ASSUME NEW m, NEW o, NEW x, NEW y
  PROVE  /\ Store!ReserveNotes(m, o, x) <=> Records!ReserveNotes(m, o, x)
         /\ Store!MarkProving(m, o) <=> Records!MarkProving(m, o)
         /\ Store!MarkProofReady(m, o, x, TRUE, y) <=> Records!MarkProofReady(m, o, x, TRUE, y)
         /\ Store!RenewLease(m, o, x) <=> Records!RenewLease(m, o, x)
         /\ Store!ReleaseReserved(o) <=> Records!ReleaseReserved(o)
         /\ Store!MarkManualReview(m, o, x) <=> Records!MarkManualReview(m, o, x)
         /\ Store!MarkReplanRequired(m, o, x, y) <=> Records!MarkReplanRequired(m, o, x, y)
         /\ Store!ReconcileSpent(x, y) <=> Records!ReconcileSpent(x, y)
         /\ Store!Tick <=> Records!Tick
<1> USE DEF Records!NoRecord, Store!NoRecord, Records!NoLease, Store!NoLease,
            Records!Linked, Store!Linked, Records!Live, Store!Live,
            Records!AllIn, Store!AllIn, Records!Active, Store!Active,
            Records!Blocked, Store!Blocked, Records!HoldsLease, Store!HoldsLease,
            Records!OnLive, Store!OnLive, Records!MoveTo, Store!MoveTo,
            Records!DropLease, Store!DropLease, Records!WriteBroadcast, Store!WriteBroadcast,
            Records!AddEvidence, Store!AddEvidence,
            Records!SettleBroadcast, Store!SettleBroadcast
<1>1. Store!ReserveNotes(m, o, x) <=> Records!ReserveNotes(m, o, x)
  BY DEF Records!ReserveNotes, Store!ReserveNotes, Records!Fresh, Store!Fresh
<1>2. Store!MarkProving(m, o) <=> Records!MarkProving(m, o)
  BY DEF Records!MarkProving, Store!MarkProving
<1>3. Store!MarkProofReady(m, o, x, TRUE, y) <=> Records!MarkProofReady(m, o, x, TRUE, y)
  BY DEF Records!MarkProofReady, Store!MarkProofReady
<1>4. Store!RenewLease(m, o, x) <=> Records!RenewLease(m, o, x)
  BY DEF Records!RenewLease, Store!RenewLease, Records!Later, Store!Later
<1>5. Store!ReleaseReserved(o) <=> Records!ReleaseReserved(o)
  BY DEF Records!ReleaseReserved, Store!ReleaseReserved
<1>6. Store!Tick <=> Records!Tick
  BY DEF Records!Tick, Store!Tick
<1> USE DEF Records!LeaseExpired, Store!LeaseExpired,
            Records!LeaseAllows, Store!LeaseAllows,
            Records!LeaseRequired, Store!LeaseRequired,
            Records!ExpiredLeaseRecovery, Store!ExpiredLeaseRecovery,
            Records!CanTransition, Store!CanTransition,
            Records!AllowedTransitions, Store!AllowedTransitions,
            Records!Identities, Store!Identities,
            Records!HasBroadcastEvidence, Store!HasBroadcastEvidence,
            Records!ExactFailure, Store!ExactFailure,
            Records!NeedsFailure, Store!NeedsFailure
<1>7. Store!MarkManualReview(m, o, x) <=> Records!MarkManualReview(m, o, x)
  BY DEF Records!MarkManualReview, Store!MarkManualReview
<1>8. Store!MarkReplanRequired(m, o, x, y) <=> Records!MarkReplanRequired(m, o, x, y)
  BY DEF Records!MarkReplanRequired, Store!MarkReplanRequired
<1>9. Store!ReconcileSpent(x, y) <=> Records!ReconcileSpent(x, y)
  BY DEF Records!ReconcileSpent, Store!ReconcileSpent, Records!PriorSuccess,
         Store!PriorSuccess, Records!Required, Store!Required, Records!Reconcilable,
         Store!Reconcilable, Records!NoEvidence, Store!NoEvidence, Records!Proves,
         Store!Proves, Records!OutcomeOf, Store!OutcomeOf
<1> QED
  BY <1>1, <1>2, <1>3, <1>4, <1>5, <1>6, <1>7, <1>8, <1>9

------------------------------------------------------------------------------
(* Every step is a step of the store or leaves the records alone.          *)

(* Of a renewal under way: what its commit needs of the types.             *)
BeatType ==
  beat \in [from : Store!Active \cup {"NoRecord"}, ttl : 0 .. LeaseDuration]

OwnCall == 
  \/ \E N \in SUBSET Note : Records!ReserveNotes(Self, Plan, N)
  \/ Records!MarkProving(Self, Plan)
  \/ \E ttl \in 1 .. LeaseDuration : Records!RenewLease(Self, Plan, ttl)
  \/ Records!MarkProofReady(Self, Plan, 1, TRUE, 0)
  \/ \E from \in Records!Status : Records!MarkManualReview(Self, Plan, from)

LEMMA OwnCallIsStore ==
  ASSUME Setting, OwnCall
  PROVE  Records!Next
<1>1. Self \in Manager /\ Plan \in Op
  BY DEF Setting, PreparationAssumption
<1>2. 1 \in Records!PayloadId /\ 0 \in Records!TxId /\ TRUE \in BOOLEAN
  BY DEF Records!PayloadId, Records!TxId, MaxTx, MaxPayload
<1>3. Records!WorkerStep(Self, Plan)
  BY <1>2 DEF OwnCall, Records!WorkerStep
<1> QED
  BY <1>1, <1>3 DEF Records!Next

LEMMA OwnRelease ==
  ASSUME Setting, Records!ReleaseReserved(Plan)
  PROVE  Records!Next
BY DEF Setting, PreparationAssumption, Records!Next, Records!OperatorStep

LEMMA CommitCall ==
  ASSUME Setting, BeatType, BeatEnds
  PROVE  OwnCall \/ UNCHANGED storeVars
<1>1. beat.ttl > 0 => beat.ttl \in 1 .. LeaseDuration
  BY DEF BeatType, Setting, Records!StoreAssumption
<1>2. CASE beat.ttl > 0 /\ Store!RenewLease(Self, Plan, beat.ttl)
  BY <1>1, <1>2, SameCalls DEF OwnCall
<1>3. CASE UNCHANGED storeVars
  BY <1>3
<1> QED
  BY <1>2, <1>3 DEF BeatEnds

LEMMA ClientCall ==
  ASSUME Setting, Client
  PROVE  OwnCall \/ Records!ReleaseReserved(Plan) \/ UNCHANGED storeVars
<1>1. CASE StartProving
  BY <1>1, SameCalls DEF StartProving, OwnCall
<1>2. CASE MarkReady
  BY <1>2, SameCalls DEF MarkReady, OwnCall
<1>3. CASE ReleaseOwn
  BY <1>3, SameCalls DEF ReleaseOwn
<1>4. CASE IsolateOwn
  BY <1>4, SameCalls, SameReading DEF IsolateOwn, OwnCall
<1>5. CASE \/ RenewFirst \/ SubmitJob \/ PollJob \/ BuildArtifact \/ HeartbeatNow
           \/ EndTask \/ Stop \/ Unwind \/ Rollback
  BY <1>5 DEF RenewFirst, SubmitJob, PollJob, BuildArtifact, HeartbeatNow, EndTask, Stop,
              Unwind, Rollback
<1> QED
  BY <1>1, <1>2, <1>3, <1>4, <1>5 DEF Client

LEMMA OthersCall ==
  ASSUME Setting, OtherSession
  PROVE  Records!Next
<1>1. PICK m \in Manager \ {Self} :
    \/ \E o \in Op \ {Plan}, N \in SUBSET Note : Records!ReserveNotes(m, o, N)
    \/ Records!ReleaseReserved(Plan)
    \/ \E from \in Records!Status :
         \/ Records!MarkManualReview(m, Plan, from)
         \/ Records!MarkReplanRequired(m, Plan, from, 0)
  BY SameCalls, SameReading DEF OtherSession, Quietly
<1>2. CASE Records!ReleaseReserved(Plan)
  BY <1>2, OwnRelease
<1>3. CASE \E o \in Op \ {Plan}, N \in SUBSET Note : Records!ReserveNotes(m, o, N)
  BY <1>3 DEF Records!Next, Records!WorkerStep
<1>4. CASE \E from \in Records!Status :
             \/ Records!MarkManualReview(m, Plan, from)
             \/ Records!MarkReplanRequired(m, Plan, from, 0)
  <2>1. 0 \in Records!TxId /\ Plan \in Op
    BY DEF Records!TxId, MaxTx, Setting, PreparationAssumption
  <2>2. Records!WorkerStep(m, Plan)
    BY <1>4, <2>1 DEF Records!WorkerStep
  <2> QED
    BY <2>1, <2>2 DEF Records!Next
<1> QED
  BY <1>1, <1>2, <1>3, <1>4

LEMMA ScanCall ==
  ASSUME ScanFindsSpent
  PROVE  \E S \in SUBSET Note : \E by \in [S -> Records!SpendEvidence] :
           Records!ReconcileSpent(S, by)
<1>1. PICK S \in SUBSET Note : Store!ReconcileSpent(S, [n \in S |-> Store!NoEvidence])
  BY DEF ScanFindsSpent, Quietly
<1>2. [n \in S |-> Store!NoEvidence] \in [S -> Records!SpendEvidence]
  BY SameReading DEF Records!SpendEvidence
<1> QED
  BY <1>1, <1>2, SameCalls

LEMMA StoreStep ==
  ASSUME Setting, BeatType, Next
  PROVE  Records!Next \/ UNCHANGED storeVars
<1>1. CASE Reserve
  BY <1>1, SameCalls, OwnCallIsStore DEF Reserve, OwnCall
<1>2. CASE Client
  BY <1>2, ClientCall, OwnCallIsStore, OwnRelease
<1>3. CASE BeatEnds
  BY <1>3, CommitCall, OwnCallIsStore
<1>4. CASE TimerFires \/ TaskFails \/ JobEnds
  BY <1>4 DEF TimerFires, TaskFails, JobEnds, Throw
<1>5. CASE Tick
  BY <1>5, SameCalls DEF Tick, Records!Next
<1>6. CASE OtherSession
  BY <1>6, OthersCall
<1>7. CASE ScanFindsSpent
  BY <1>7, ScanCall DEF Records!Next
<1> QED
  BY <1>1, <1>2, <1>3, <1>4, <1>5, <1>6, <1>7 DEF Next, Steady
------------------------------------------------------------------------------
(* Types.                                                                  *)

Typed ==
  /\ TypeOK
  /\ pc \in {"releasing", "isolating"} => beat = NoBeat
  /\ due <= Interval(LeaseDuration)

(* A third, rounded down, but one at least: never the whole lease.         *)
LEMMA IntervalFits ==
  ASSUME Setting
  PROVE  /\ Interval(LeaseDuration) \in 1 .. LeaseDuration
         /\ Interval(LeaseDuration) < LeaseDuration
BY DEF Setting, Records!StoreAssumption, Interval

LEMMA StoreTyping ==
  ASSUME Setting, Typed, [Next]_vars
  PROVE  Records!TypeOK /\ Store!TypeOK' /\ Records!TypeOK'
<1>1. Records!TypeOK /\ BeatType
  BY SameReading DEF Typed, TypeOK, BeatType
<1>2. [Records!Next]_Records!vars
  BY <1>1, StoreStep DEF vars, storeVars, Records!vars
<1>3. Records!TypeOK'
  BY <1>1, <1>2, Records!NextType DEF Setting
<1>4. Store!TypeOK' <=> Records!TypeOK'
  BY SameReading, PTL
<1> QED
  BY <1>1, <1>3, <1>4

(* The variables of the call itself.                                       *)
CallTyped ==
  /\ punctual \in BOOLEAN
  /\ pc \in Point
  /\ job \in {"none", "running", "done", "failed"}
  /\ left \in 0 .. JobTimeout + 1 /\ asleep \in BOOLEAN
  /\ BeatType
  /\ due \in 0 .. LeaseDuration /\ due <= Interval(LeaseDuration) /\ failed \in BOOLEAN
  /\ result \in {"none", "plain", "flagged", "error"} /\ cleaned \in BOOLEAN
  /\ pc \in {"idle", "reserved", "cleanup", "releasing", "isolating", "returned", "threw"}
       => beat = NoBeat

LEMMA TypedParts == Typed <=> Store!TypeOK /\ CallTyped
BY DEF Typed, TypeOK, CallTyped, BeatType

(* What a renewal reads is in range, whether it goes on or fails.          *)
LEMMA ReadToRenewType ==
  ASSUME Setting, CallTyped, ReadToRenew
  PROVE  BeatType' /\ failed' \in BOOLEAN /\ (beat' = NoBeat => failed' \/ beat = NoBeat)
<1>1. CASE UNCHANGED beat /\ failed' = TRUE
  BY <1>1 DEF CallTyped, BeatType
<1>2. CASE /\ Whole /\ Store!HoldsLease(Self, Plan)
           /\ \E from \in Store!Active : Store!AllIn(Plan, from)
           /\ beat' = [from |-> CHOOSE s \in StatusRead : TRUE, ttl |-> LeaseDuration]
           /\ UNCHANGED failed
  <2>1. PICK from \in Store!Active : Store!AllIn(Plan, from)
    BY <1>2
  <2>2. StatusRead = {from}
    BY <1>2, <2>1 DEF Whole, StatusRead, Store!AllIn
  <2>3. (CHOOSE s \in StatusRead : TRUE) \in StatusRead
    BY <2>2
  <2>4. LeaseDuration \in 0 .. LeaseDuration
    BY DEF Setting, Records!StoreAssumption
  <2>5. beat' \in [from : Store!Active \cup {"NoRecord"}, ttl : 0 .. LeaseDuration]
    BY <1>2, <2>2, <2>3, <2>4
  <2>6. beat'.ttl = LeaseDuration /\ LeaseDuration # 0
    BY <1>2 DEF Setting
  <2>7. beat' # NoBeat
    BY <2>6 DEF NoBeat
  <2> QED
    BY <1>2, <2>5, <2>7 DEF CallTyped, BeatType
<1> QED
  BY <1>1, <1>2 DEF ReadToRenew

LEMMA BeginBeatType ==
  ASSUME Setting, CallTyped, BeginBeat \/ UNCHANGED <<beat, failed>>
  PROVE  BeatType' /\ failed' \in BOOLEAN
BY ReadToRenewType DEF BeginBeat, CallTyped, BeatType

LEMMA ClientTyped ==
  ASSUME Setting, CallTyped, Client, UNCHANGED punctual
  PROVE  CallTyped'
<1> USE DEF CallTyped, Point, Timed, Unwinding, Goto, jobVars, heartVars, endVars
<1>1. CASE StartProving
  BY <1>1 DEF StartProving, BeatType
<1>2. CASE RenewFirst
  BY <1>2, ReadToRenewType DEF RenewFirst
<1>3. CASE SubmitJob
  <2>1. JobTimeout + 1 \in 0 .. JobTimeout + 1
    BY DEF Setting, PreparationAssumption
  <2> QED
    BY <1>3, <2>1 DEF SubmitJob, BeatType
<1>4. CASE PollJob
  BY <1>4 DEF PollJob, BeatType
<1>5. CASE BuildArtifact
  BY <1>5 DEF BuildArtifact, BeatType
<1>6. CASE HeartbeatNow
  BY <1>6, BeginBeatType DEF HeartbeatNow
<1>7. CASE MarkReady \/ EndTask \/ Stop \/ Unwind
  BY <1>7 DEF MarkReady, EndTask, Stop, Unwind, BeatType
<1>8. CASE Rollback
  <2>1. \A ok \in BOOLEAN : End(ok) => CallTyped'
    BY <1>8 DEF Rollback, End, BeatType
  <2>2. CASE pc' \in {"releasing", "isolating"} /\ UNCHANGED <<heartVars, jobVars, endVars>>
    BY <1>8, <2>2 DEF Rollback, BeatType
  <2>3. StatusRead \in {{"Reserved"}, {"Proving"}, {"ProofReady"}} =>
          pc' \in {"releasing", "isolating"} /\ UNCHANGED <<heartVars, jobVars, endVars>>
    BY <1>8 DEF Rollback
  <2>4. StatusRead \notin {{"Reserved"}, {"Proving"}, {"ProofReady"}} =>
          \E ok \in BOOLEAN : End(ok)
    <3>1. (StatusRead \in {{"ManualReview"}, {"ReplanRequired"}, {"Released"}}) \in BOOLEAN
      OBVIOUS
    <3> QED
      BY <1>8, <3>1 DEF Rollback
  <2> QED
    BY <2>1, <2>2, <2>3, <2>4
<1>9. CASE ReleaseOwn \/ IsolateOwn
  <2>1. End(TRUE) \/ End(FALSE)
    BY <1>9 DEF ReleaseOwn, IsolateOwn
  <2> QED
    BY <1>9, <2>1 DEF ReleaseOwn, IsolateOwn, End, BeatType
<1> QED
  BY <1>1, <1>2, <1>3, <1>4, <1>5, <1>6, <1>7, <1>8, <1>9 DEF Client

(* What others do to the records leaves the call where it is.              *)
LEMMA QuietCall ==
  ASSUME OtherSession \/ ScanFindsSpent
  PROVE  UNCHANGED <<pc, jobVars, heartVars, endVars>>
<1>1. CASE OtherSession
  <2>1. PICK m \in Manager \ {Self} :
      \/ \E o \in Op \ {Plan}, N \in SUBSET Note : Quietly(Store!ReserveNotes(m, o, N))
      \/ Quietly(Store!ReleaseReserved(Plan))
      \/ \E from \in Store!Status :
           \/ Quietly(Store!MarkManualReview(m, Plan, from))
           \/ Quietly(Store!MarkReplanRequired(m, Plan, from, 0))
    BY <1>1 DEF OtherSession
  <2> QED
    BY <2>1 DEF Quietly
<1>2. CASE ScanFindsSpent
  BY <1>2 DEF ScanFindsSpent, Quietly
<1> QED
  BY <1>1, <1>2

LEMMA CallTypedStep ==
  ASSUME Setting, CallTyped, [Next]_vars
  PROVE  CallTyped'
<1> USE DEF CallTyped, Point, Timed, Unwinding, jobVars, heartVars, endVars
<1>0. NoBeat \in [from : Store!Active \cup {"NoRecord"}, ttl : 0 .. LeaseDuration]
  BY DEF NoBeat, Setting, Records!StoreAssumption
<1>1. CASE Reserve /\ UNCHANGED punctual
  BY <1>1 DEF Reserve, Goto, BeatType
<1>2. CASE Client /\ UNCHANGED punctual
  BY <1>2, ClientTyped
<1>3. CASE TimerFires /\ UNCHANGED punctual
  BY <1>3, BeginBeatType, IntervalFits DEF TimerFires
<1>4. CASE BeatEnds /\ UNCHANGED punctual
  <2>1. BeatType' /\ beat' = NoBeat
    BY <1>0, <1>4 DEF BeatEnds, BeatType
  <2>2. due' \in 0 .. LeaseDuration /\ due' <= Interval(LeaseDuration)
    BY <1>4, IntervalFits DEF BeatEnds
  <2>3. failed' \in BOOLEAN /\ pc' \in Point
    BY <1>4 DEF BeatEnds, AfterBeat
  <2> QED
    BY <1>4, <2>1, <2>2, <2>3 DEF BeatEnds
<1>5. CASE TaskFails /\ UNCHANGED punctual
  BY <1>5 DEF TaskFails, Throw, Goto, BeatType
<1>6. CASE JobEnds /\ UNCHANGED punctual
  BY <1>6 DEF JobEnds, BeatType
<1>7. CASE Tick /\ UNCHANGED punctual
  <2>1. Less(beat.ttl) \in 0 .. LeaseDuration /\ Less(left) \in 0 .. JobTimeout + 1
        /\ Less(due) \in 0 .. LeaseDuration /\ Less(due) <= due
    BY DEF Less, BeatType, Setting, PreparationAssumption, Records!StoreAssumption
  <2>2. BeatType'
    BY <1>7, <2>1 DEF Tick, BeatType
  <2>3. beat = NoBeat => beat' = NoBeat
    BY <1>7 DEF Tick, NoBeat, Less
  <2>4. due' <= Interval(LeaseDuration)
    BY <1>7, <2>1, IntervalFits DEF Tick
  <2> QED
    BY <1>7, <2>1, <2>2, <2>3, <2>4 DEF Tick
<1>8. CASE (OtherSession \/ ScanFindsSpent) /\ UNCHANGED punctual
  BY <1>8, QuietCall DEF BeatType
<1>9. CASE UNCHANGED vars
  BY <1>9 DEF vars, BeatType
<1> QED
  BY <1>1, <1>2, <1>3, <1>4, <1>5, <1>6, <1>7, <1>8, <1>9 DEF Next, Steady

LEMMA TypedStep ==
  ASSUME Setting, Typed, [Next]_vars
  PROVE  Typed'
<1>1. CallTyped' /\ Store!TypeOK'
  BY CallTypedStep, StoreTyping, TypedParts
<1> QED
  BY <1>1, TypedParts, PTL

LEMMA TypedInit ==
  ASSUME Setting, Init
  PROVE  Typed
<1>1. Store!TypeOK
  <2>1. Records!Init
    BY SameReading DEF Init
  <2>2. Records!TypeOK
    BY <2>1 DEF Setting, Records!Init, Records!TypeOK, Records!StatusType, Records!LeaseType,
         Records!BroadcastType, Records!EvidenceType, Records!OutcomeType,
         Records!ClaimType, Records!Lease, Records!NoLease, Records!Broadcast,
         Records!NoBroadcast, Records!TxId, Records!PayloadId,
         Records!OperationStatus, Records!StoreAssumption, MaxTx, MaxPayload
  <2> QED
    BY <2>2, SameReading
<1>2. CallTyped
  <2>1. 0 \in 0 .. LeaseDuration /\ 0 \in 0 .. JobTimeout + 1
    BY DEF Setting, Records!StoreAssumption, PreparationAssumption
  <2>2. BeatType /\ beat = NoBeat
    BY <2>1 DEF Init, BeatType, NoBeat
  <2>3. due = 0 /\ due <= Interval(LeaseDuration)
    BY IntervalFits DEF Init
  <2> QED
    BY <2>1, <2>2, <2>3 DEF Init, CallTyped, Point
<1> QED
  BY <1>1, <1>2, TypedParts

(* The variables of a preparation keep their ranges, and no renewal is in  *)
(* flight outside a call (runWithReservationHeartbeat, waitForProof).      *)
THEOREM PreparationTyping ==
  ASSUME Setting
  PROVE  Spec => []TypeOK
<1>1. Init => Typed
  BY TypedInit
<1>2. Typed /\ [Next]_vars => Typed'
  BY TypedStep
<1>3. Typed => TypeOK
  BY DEF Typed
<1> QED
  BY <1>1, <1>2, <1>3, PTL DEF Spec

(* Every run of a preparation, with whatever other sessions do meanwhile,  *)
(* is for the records a run of the store: what the store guarantees it     *)
(* guarantees here (prepareTransfer, reservation-workflow.js).             *)
THEOREM PreparationUsesTheStore ==
  ASSUME Setting
  PROVE  Spec => Records!Spec
<1>1. Init => Records!Init
  BY SameReading DEF Init
<1>2. Typed /\ [Next]_vars => [Records!Next]_Records!vars
  BY StoreStep DEF Typed, TypeOK, BeatType, vars, storeVars, Records!vars
<1>3. Typed /\ [Next]_vars => Typed'
  BY TypedStep
<1>4. Init => Typed
  BY TypedInit
<1> QED
  BY <1>1, <1>2, <1>3, <1>4, PTL DEF Spec, Records!Spec
------------------------------------------------------------------------------
(* What a call does to the records of the reservation, one by one.         *)

Recorded(n) == status[Plan][n] # "NoRecord"
LiveRecord(n) == status[Plan][n] \notin {"NoRecord", "ConfirmedSpent"}

SamePayload(n) == broadcast'[Plan][n].payload = broadcast[Plan][n].payload

SameRecord(n) ==
  /\ status'[Plan][n] = status[Plan][n] /\ lease'[Plan][n] = lease[Plan][n]
  /\ SamePayload(n)

SameRecords == UNCHANGED claim /\ \A n \in Note : SameRecord(n)

(* The live records leave status from for status to.                       *)
AllLeave(from, to) ==
  /\ UNCHANGED claim
  /\ \E n \in Note : LiveRecord(n)
  /\ \A n \in Note :
       IF LiveRecord(n) THEN status[Plan][n] = from /\ status'[Plan][n] = to /\ SamePayload(n)
       ELSE SameRecord(n)

(* ... and are leased to this session for the full time.                   *)
AllTaken == \A n \in Note :
  LiveRecord(n) => lease'[Plan][n].owner = Self /\ lease'[Plan][n].ttl = LeaseDuration

(* What becomes of a record by another session, or by the chain: nobody    *)
(* but the holder moves a record whose lease runs, and nobody at all takes *)
(* a finished proof out of the books.                                      *)
ForeignRecord(n) ==
  /\ SamePayload(n)
  /\ \/ SameRecord(n)
     \/ Recorded(n) /\ status'[Plan][n] = "ConfirmedSpent"
     \/ /\ LiveRecord(n) /\ status[Plan][n] # "ManualReview"
        /\ status'[Plan][n] \in {"Released", "ReplanRequired", "ManualReview"}
        /\ status[Plan][n] \in {"Proving", "ProofReady"} => lease[Plan][n].ttl = 0
        /\ status[Plan][n] = "ProofReady" => status'[Plan][n] = "ManualReview"

LEMMA RecordReading ==
  /\ \A n : n \in Records!Linked(Plan) <=> n \in Note /\ Recorded(n)
  /\ \A n : n \in Records!Live(Plan) <=> n \in Note /\ LiveRecord(n)
BY DEF Records!Linked, Records!Live, Records!NoRecord, Recorded, LiveRecord

LEMMA WholeReading == Whole <=> \A n \in Note : status[Plan][n] # "ConfirmedSpent"
BY SameReading, RecordReading DEF Whole, Recorded, LiveRecord

LEMMA KeptRecords ==
  ASSUME UNCHANGED storeVars
  PROVE  SameRecords
BY DEF storeVars, SameRecords, SameRecord, SamePayload

(* A transition out of the worker's hands, whoever makes it.               *)
LEMMA LeavingEffect ==
  ASSUME Setting, Records!TypeOK, NEW from, NEW to \in Records!Status,
         Records!AllIn(Plan, from), Records!MoveTo(Plan, to),
         Records!DropLease(Plan), Records!SettleBroadcast(Plan) \/ UNCHANGED broadcast,
         UNCHANGED claim
  PROVE  AllLeave(from, to)
<1>1. Plan \in Op
  BY DEF Setting, PreparationAssumption
<1>2. ASSUME NEW n \in Note
      PROVE  SamePayload(n)
  <2>1. broadcast[Plan][n] \in Records!Broadcast
    BY <1>1 DEF Records!TypeOK, Records!BroadcastType
  <2>2. \/ broadcast'[Plan][n] = broadcast[Plan][n]
        \/ broadcast'[Plan][n] = [broadcast[Plan][n] EXCEPT !.inFlight = FALSE]
    BY <1>1, Records!SettleBroadcastRecord DEF Setting
  <2> QED
    BY <2>1, <2>2 DEF SamePayload, Records!Broadcast
<1>3. ASSUME NEW n \in Note
      PROVE  IF LiveRecord(n) THEN status[Plan][n] = from /\ status'[Plan][n] = to
             ELSE status'[Plan][n] = status[Plan][n] /\ lease'[Plan][n] = lease[Plan][n]
  <2>1. status'[Plan][n] = IF n \in Records!Live(Plan) THEN to ELSE status[Plan][n]
    BY <1>1, Records!MoveToRecord DEF Setting
  <2>2. lease'[Plan][n] = IF n \in Records!Live(Plan) THEN Records!NoLease ELSE lease[Plan][n]
    BY <1>1, Records!DropLeaseRecord DEF Setting
  <2>3. n \in Records!Live(Plan) => status[Plan][n] = from
    BY DEF Records!AllIn
  <2> QED
    BY <2>1, <2>2, <2>3, RecordReading
<1>4. \E n \in Note : LiveRecord(n)
  BY RecordReading DEF Records!AllIn
<1> QED
  BY <1>2, <1>3, <1>4 DEF AllLeave, SameRecord

LEMMA ReleaseEffect ==
  ASSUME Setting, Records!TypeOK, Records!ReleaseReserved(Plan)
  PROVE  AllLeave("Reserved", "Released")
BY LeavingEffect DEF Records!ReleaseReserved, Records!Status

LEMMA ReviewEffect ==
  ASSUME Setting, Records!TypeOK, NEW m, NEW from, Records!MarkManualReview(m, Plan, from)
  PROVE  AllLeave(from, "ManualReview")
BY LeavingEffect DEF Records!MarkManualReview, Records!Status

LEMMA ReplanEffect ==
  ASSUME Setting, Records!TypeOK, NEW m, NEW from, NEW tx,
         Records!MarkReplanRequired(m, Plan, from, tx)
  PROVE  AllLeave(from, "ReplanRequired")
BY LeavingEffect DEF Records!MarkReplanRequired, Records!Status

LEMMA ProvingEffect ==
  ASSUME Setting, Records!TypeOK, Records!MarkProving(Self, Plan)
  PROVE  AllLeave("Reserved", "Proving") /\ AllTaken
<1>1. Plan \in Op
  BY DEF Setting, PreparationAssumption
<1>2. ASSUME NEW n \in Note
      PROVE  /\ status'[Plan][n] = IF n \in Records!Live(Plan) THEN "Proving" ELSE status[Plan][n]
             /\ lease'[Plan][n] = IF n \in Records!Live(Plan)
                                  THEN [owner |-> Self, ttl |-> LeaseDuration]
                                  ELSE lease[Plan][n]
             /\ n \in Records!Live(Plan) => status[Plan][n] = "Reserved"
  BY <1>1, Records!MoveToRecord
     DEF Setting, Records!MarkProving, Records!Status, Records!OnLive, Records!AllIn,
         Records!TypeOK, Records!LeaseType
<1>3. \E n \in Note : LiveRecord(n)
  BY RecordReading DEF Records!MarkProving, Records!AllIn
<1>4. UNCHANGED <<broadcast, claim>>
  BY DEF Records!MarkProving
<1> QED
  BY <1>2, <1>3, <1>4, RecordReading DEF AllLeave, AllTaken, SameRecord, SamePayload

LEMMA RenewalEffect ==
  ASSUME Setting, Records!TypeOK, Records!RenewLease(Self, Plan, LeaseDuration)
  PROVE  /\ UNCHANGED claim
         /\ \A n \in Note :
              /\ status'[Plan][n] = status[Plan][n] /\ SamePayload(n)
              /\ lease'[Plan][n].owner = lease[Plan][n].owner
              /\ LiveRecord(n) => lease'[Plan][n].ttl = LeaseDuration
<1>1. Plan \in Op /\ LeaseDuration \in Nat
  BY DEF Setting, PreparationAssumption, Records!StoreAssumption
<1>2. UNCHANGED <<status, broadcast, claim>>
  BY DEF Records!RenewLease
<1>3. ASSUME NEW n \in Note
      PROVE  /\ lease'[Plan][n].owner = lease[Plan][n].owner
             /\ LiveRecord(n) => lease'[Plan][n].ttl = LeaseDuration
  <2>1. lease[Plan][n] \in Records!Lease
    BY <1>1 DEF Records!TypeOK, Records!LeaseType
  <2>2. lease'[Plan][n] = IF n \in Records!Live(Plan)
          THEN [lease[Plan][n] EXCEPT !.ttl = Records!Later(@, LeaseDuration)]
          ELSE lease[Plan][n]
    BY <1>1 DEF Records!RenewLease, Records!OnLive, Records!TypeOK, Records!LeaseType
  <2>3. Records!Later(lease[Plan][n].ttl, LeaseDuration) = LeaseDuration
    BY <1>1, <2>1 DEF Records!Later, Records!Lease
  <2> QED
    BY <2>1, <2>2, <2>3, RecordReading DEF Records!Lease
<1> QED
  BY <1>2, <1>3 DEF SamePayload

LEMMA ProofEffect ==
  ASSUME Setting, Records!TypeOK, Records!MarkProofReady(Self, Plan, 1, TRUE, 0)
  PROVE  /\ UNCHANGED claim /\ AllTaken
         /\ \A n \in Note :
              IF LiveRecord(n)
              THEN status'[Plan][n] = "ProofReady" /\ broadcast'[Plan][n].payload = 1
              ELSE SameRecord(n)
<1>1. Plan \in Op
  BY DEF Setting, PreparationAssumption
<1>2. ASSUME NEW n \in Note
      PROVE  /\ status'[Plan][n] = IF n \in Records!Live(Plan) THEN "ProofReady"
                                   ELSE status[Plan][n]
             /\ lease'[Plan][n] = IF n \in Records!Live(Plan)
                                  THEN [owner |-> Self, ttl |-> LeaseDuration]
                                  ELSE lease[Plan][n]
  BY <1>1, Records!MoveToRecord
     DEF Setting, Records!MarkProofReady, Records!Status, Records!OnLive,
         Records!TypeOK, Records!LeaseType
<1>3. ASSUME NEW n \in Note
      PROVE  IF n \in Records!Live(Plan) THEN broadcast'[Plan][n].payload = 1
             ELSE broadcast'[Plan][n] = broadcast[Plan][n]
  <2>1. broadcast[Plan][n] \in Records!Broadcast
    BY <1>1 DEF Records!TypeOK, Records!BroadcastType
  <2>2. broadcast'[Plan][n] = IF n \in Records!Live(Plan)
          THEN [broadcast[Plan][n] EXCEPT !.payload = 1, !.signDoc = TRUE, !.bytes = 0]
          ELSE broadcast[Plan][n]
    BY <1>1 DEF Records!MarkProofReady, Records!WriteBroadcast, Records!OnLive,
                Records!TypeOK, Records!BroadcastType
  <2> QED
    BY <2>1, <2>2 DEF Records!Broadcast
<1>4. UNCHANGED claim
  BY DEF Records!MarkProofReady
<1> QED
  BY <1>2, <1>3, <1>4, RecordReading DEF AllTaken, SameRecord, SamePayload

(* Time passes for every lease alike.                                      *)
LEMMA TickEffect ==
  ASSUME Setting, Records!TypeOK, Records!Tick \/ UNCHANGED storeVars
  PROVE  /\ UNCHANGED claim
         /\ \A n \in Note :
              /\ status'[Plan][n] = status[Plan][n] /\ SamePayload(n)
              /\ lease'[Plan][n].owner = lease[Plan][n].owner
              /\ lease[Plan][n].ttl \in Nat
              /\ lease'[Plan][n].ttl \in {lease[Plan][n].ttl, Less(lease[Plan][n].ttl)}
<1>1. Plan \in Op
  BY DEF Setting, PreparationAssumption
<1>2. UNCHANGED <<status, broadcast, claim>>
  BY DEF Records!Tick, storeVars
<1>3. ASSUME NEW n \in Note
      PROVE  /\ lease'[Plan][n].owner = lease[Plan][n].owner
             /\ lease[Plan][n].ttl \in Nat
             /\ lease'[Plan][n].ttl \in {lease[Plan][n].ttl, Less(lease[Plan][n].ttl)}
  <2>1. lease[Plan][n] \in Records!Lease
    BY <1>1 DEF Records!TypeOK, Records!LeaseType
  <2>2. \/ lease'[Plan][n] = lease[Plan][n]
        \/ lease'[Plan][n] = [lease[Plan][n] EXCEPT !.ttl = IF @ > 0 THEN @ - 1 ELSE 0]
    BY <1>1 DEF Records!Tick, storeVars
  <2>3. lease[Plan][n].ttl \in Nat
    BY <2>1 DEF Records!Lease, Setting, Records!StoreAssumption
  <2> QED
    BY <2>1, <2>2, <2>3 DEF Records!Lease, Less
<1> QED
  BY <1>2, <1>3 DEF SamePayload

(* The reservation: its records are made, and the claim token taken.       *)
LEMMA ReserveEffect ==
  ASSUME Setting, Records!TypeOK, NEW N \in SUBSET Note, Records!ReserveNotes(Self, Plan, N)
  PROVE  /\ \E n \in Note : Recorded(n)'
         /\ Plan \in claim'[Self]
         /\ \A m \in Manager \ {Self} : claim'[m] = claim[m]
<1>1. Plan \in Op /\ Self \in Manager
  BY DEF Setting, PreparationAssumption
<1>2. PICK n \in N : TRUE
  BY DEF Records!ReserveNotes
<1>3. status'[Plan][n] = "Reserved"
  BY <1>1, <1>2 DEF Records!ReserveNotes, Records!TypeOK, Records!StatusType
<1>4. claim' = [claim EXCEPT ![Self] = @ \cup {Plan}]
  BY DEF Records!ReserveNotes
<1> QED
  BY <1>1, <1>2, <1>3, <1>4 DEF Recorded, Records!TypeOK, Records!ClaimType

(* The claim token stays with the session that reserved.                   *)
ClaimFits ==
  /\ pc # "idle" => Plan \in claim[Self] /\ \E n \in Note : Recorded(n)
  /\ \A m \in Manager \ {Self} : Plan \notin claim[m]

(* Without the claim token a lease that runs forbids what needs it.        *)
LEMMA LeaseRunsOut ==
  ASSUME NEW m \in Manager \ {Self}, Plan \notin claim[m], NEW from, NEW to,
         <<from, to>> \in Records!LeaseRequired, Records!LeaseAllows(m, Plan, from, to)
  PROVE  /\ <<from, to>> \in Records!ExpiredLeaseRecovery
         /\ \A n \in Note : LiveRecord(n) => lease[Plan][n].ttl = 0
BY RecordReading DEF Records!LeaseAllows, Records!HoldsLease, Records!LeaseExpired

LEMMA ReviewByOther ==
  ASSUME Setting, Records!TypeOK, NEW m \in Manager \ {Self}, Plan \notin claim[m],
         NEW from, Records!MarkManualReview(m, Plan, from)
  PROVE  UNCHANGED claim /\ \A n \in Note : ForeignRecord(n)
<1>1. AllLeave(from, "ManualReview")
  BY ReviewEffect
<1>2. from # "ManualReview"
  BY DEF Records!MarkManualReview, Records!CanTransition, Records!AllowedTransitions
<1>3. from \in {"Proving", "ProofReady"} =>
        \A n \in Note : LiveRecord(n) => lease[Plan][n].ttl = 0
  BY LeaseRunsOut, Records!NeedLease DEF Records!MarkManualReview, Setting
<1> QED
  BY <1>1, <1>2, <1>3 DEF AllLeave, ForeignRecord, SameRecord

LEMMA ReplanByOther ==
  ASSUME Setting, Records!TypeOK, NEW m \in Manager \ {Self}, Plan \notin claim[m],
         NEW from, Records!MarkReplanRequired(m, Plan, from, 0)
  PROVE  UNCHANGED claim /\ \A n \in Note : ForeignRecord(n)
<1>1. AllLeave(from, "ReplanRequired")
  BY ReplanEffect
<1>2. from # "ManualReview"
  BY DEF Records!MarkReplanRequired
<1>3. from \in {"Proving", "ProofReady"} =>
        /\ <<from, "ReplanRequired">> \in Records!ExpiredLeaseRecovery
        /\ \A n \in Note : LiveRecord(n) => lease[Plan][n].ttl = 0
  BY LeaseRunsOut, Records!NeedLease DEF Records!MarkReplanRequired, Setting
<1>4. from # "ProofReady"
  BY <1>3 DEF Records!ExpiredLeaseRecovery
<1> QED
  BY <1>1, <1>2, <1>3, <1>4 DEF AllLeave, ForeignRecord, SameRecord

LEMMA ReserveByOther ==
  ASSUME Setting, Records!TypeOK, NEW m \in Manager \ {Self}, NEW o \in Op \ {Plan},
         NEW N \in SUBSET Note, Records!ReserveNotes(m, o, N)
  PROVE  /\ \A n \in Note : ForeignRecord(n)
         /\ \A w \in Manager : Plan \in claim'[w] <=> Plan \in claim[w]
<1>1. Plan \in Op /\ Self \in Manager
  BY DEF Setting, PreparationAssumption
<1>2. status'[Plan] = status[Plan]
  BY <1>1, Records!ReserveNotesValue DEF Setting, Records!TypeOK
<1>3. UNCHANGED <<lease, broadcast>> /\ claim' = [claim EXCEPT ![m] = @ \cup {o}]
  BY DEF Records!ReserveNotes
<1> QED
  BY <1>1, <1>2, <1>3
     DEF ForeignRecord, SameRecord, SamePayload, Records!TypeOK, Records!ClaimType

LEMMA ScanByOther ==
  ASSUME Setting, Records!TypeOK, NEW S \in SUBSET Note, NEW by, Records!ReconcileSpent(S, by)
  PROVE  UNCHANGED claim /\ \A n \in Note : ForeignRecord(n)
<1>1. Plan \in Op
  BY DEF Setting, PreparationAssumption
<1> DEFINE affected == {p \in Op : Records!Linked(p) \cap S # {}}
           written == {p \in affected : ~Records!PriorSuccess(p)}
           spent(n) == Plan \in written /\ n \in Records!Linked(Plan) \cap S
<1>2. ASSUME NEW n \in Note
      PROVE  /\ status'[Plan][n] = IF spent(n) THEN "ConfirmedSpent" ELSE status[Plan][n]
             /\ lease'[Plan][n] = IF spent(n) THEN Records!NoLease ELSE lease[Plan][n]
             /\ broadcast'[Plan][n] = IF spent(n) THEN [broadcast[Plan][n] EXCEPT !.inFlight = FALSE]
                                      ELSE broadcast[Plan][n]
             /\ spent(n) => Recorded(n)
  BY <1>1, RecordReading DEF Records!ReconcileSpent
<1>3. \A n \in Note : broadcast[Plan][n] \in Records!Broadcast
  BY <1>1 DEF Records!TypeOK, Records!BroadcastType
<1>4. UNCHANGED claim
  BY DEF Records!ReconcileSpent
<1> HIDE DEF spent
<1>5. \A n \in Note : SamePayload(n)
  BY <1>2, <1>3 DEF SamePayload, Records!Broadcast
<1> QED
  BY <1>2, <1>4, <1>5 DEF ForeignRecord, SameRecord

LEMMA OthersEffect ==
  ASSUME Setting, Records!TypeOK, ClaimFits, OtherSession \/ ScanFindsSpent
  PROVE  /\ \A n \in Note : ForeignRecord(n)
         /\ \A w \in Manager : Plan \in claim'[w] <=> Plan \in claim[w]
<1>1. CASE OtherSession
  <2>1. PICK m \in Manager \ {Self} :
      \/ \E o \in Op \ {Plan}, N \in SUBSET Note : Records!ReserveNotes(m, o, N)
      \/ Records!ReleaseReserved(Plan)
      \/ \E from \in Records!Status :
           \/ Records!MarkManualReview(m, Plan, from)
           \/ Records!MarkReplanRequired(m, Plan, from, 0)
    BY <1>1, SameCalls, SameReading DEF OtherSession, Quietly
  <2>2. Plan \notin claim[m]
    BY DEF ClaimFits
  <2>3. CASE Records!ReleaseReserved(Plan)
    BY <2>3, ReleaseEffect DEF AllLeave, ForeignRecord, SameRecord
  <2> QED
    BY <2>1, <2>2, <2>3, ReserveByOther, ReviewByOther, ReplanByOther
<1>2. CASE ScanFindsSpent
  BY <1>2, ScanCall, ScanByOther
<1> QED
  BY <1>1, <1>2
------------------------------------------------------------------------------
(* The inductive invariant.                                                *)

(* Where the preparation has its hands on the records and timers are on    *)
(* time: from the claim to the return, and while it rolls back a job that  *)
(* was under way.                                                          *)
Working ==
  /\ punctual /\ ~failed
  /\ \/ pc \in {"renewing", "stopping"} \cup Timed
     \/ job # "none" /\ pc \in Unwinding

(* The lease outlives the next tick of the timer, or a renewal that gives  *)
(* it its full length is in flight; time does not pass meanwhile.          *)
LeaseRuns(n) ==
  /\ status[Plan][n] \in {"Proving", "ProofReady"}
  /\ lease[Plan][n].owner = Self /\ lease[Plan][n].ttl > 0
  /\ pc \in Timed /\ beat = NoBeat => lease[Plan][n].ttl > due

LeaseFits ==
  Working => /\ \A n \in Note : LiveRecord(n) => LeaseRuns(n)
             /\ beat # NoBeat => beat.ttl = LeaseDuration

(* From MarkReady on the proof is on every record, and others can but      *)
(* quarantine them.                                                        *)
ProofFits ==
  /\ pc \in {"marked", "stopping", "returned"} =>
       \A n \in Note : Recorded(n) => broadcast[Plan][n].payload = 1
  /\ punctual /\ ~failed /\ pc \in {"marked", "stopping"} =>
       \A n \in Note : LiveRecord(n) => status[Plan][n] = "ProofReady"
  /\ punctual /\ ~failed /\ pc = "returned" =>
       \A n \in Note : LiveRecord(n) => status[Plan][n] \in {"ProofReady", "ManualReview"}

(* What the caller was told, and what became of the notes of a job.        *)
LetGo(n) ==
  /\ status[Plan][n] \notin {"Reserved", "Proving", "ProofReady"}
  /\ punctual /\ ~failed /\ job # "none" => status[Plan][n] \in {"ManualReview", "ConfirmedSpent"}

EndFits ==
  /\ result \in {"plain", "flagged"} <=> pc = "returned"
  /\ result = "error" <=> pc = "threw"
  /\ result = "plain" => ~failed
  /\ job # "none" => pc \notin {"idle", "reserved", "renewing", "submitting"}
  /\ pc = "threw" /\ cleaned => \A n \in Note : Recorded(n) => LetGo(n)

IInv == Typed /\ ClaimFits /\ LeaseFits /\ ProofFits /\ EndFits

(* What a step owes, the types apart.                                      *)
StepFits == ClaimFits' /\ LeaseFits' /\ ProofFits' /\ EndFits'

------------------------------------------------------------------------------
(* Steps that write no record of the reservation.                          *)

LEMMA SilentClaim ==
  ASSUME ClaimFits, SameRecords, pc # "idle" \/ pc' = "idle"
  PROVE  ClaimFits'
BY DEF ClaimFits, SameRecords, SameRecord, Recorded

LEMMA SilentLease ==
  ASSUME LeaseFits, SameRecords, UNCHANGED <<beat, due>>,
         Working' => Working, pc' \in Timed => pc \in Timed
  PROVE  LeaseFits'
BY DEF LeaseFits, SameRecords, SameRecord, LiveRecord, LeaseRuns

LEMMA SilentProof ==
  ASSUME ProofFits, SameRecords, UNCHANGED punctual, failed => failed',
         \/ pc' \notin {"marked", "stopping", "returned"}
         \/ pc' = pc
         \/ pc = "marked" /\ pc' = "stopping"
         \/ pc = "stopping" /\ pc' = "returned"
  PROVE  ProofFits'
BY DEF ProofFits, SameRecords, SameRecord, SamePayload, LiveRecord, Recorded

LEMMA SilentEnd ==
  ASSUME EndFits, UNCHANGED endVars,
         pc \notin {"returned", "threw"}, pc' \notin {"returned", "threw"},
         job' # "none" => pc' \notin {"idle", "reserved", "renewing", "submitting"}
  PROVE  EndFits'
BY DEF EndFits, endVars

LEMMA StillEnd ==
  ASSUME EndFits, SameRecords, UNCHANGED <<punctual, pc, endVars>>,
         job' # "none" <=> job # "none", failed => failed', pc = "returned" => failed' = failed
  PROVE  EndFits'
BY DEF EndFits, endVars, SameRecords, SameRecord, LetGo, Recorded

(* The task goes on, or throws, without a call to the store.               *)
LEMMA TaskGoesOn ==
  ASSUME IInv, SameRecords, UNCHANGED <<punctual, heartVars, endVars>>,
         pc \in Timed, pc' \in Timed \cup Unwinding,
         \/ pc' \notin {"marked", "stopping", "returned"} 
         \/ pc' = pc,
         job' # "none" => pc' # "submitting"
  PROVE  StepFits
<1>1. Working' => Working
  BY DEF Working, heartVars
<1>2. LeaseFits' 
  <2>1. CASE pc' \in Timed
    BY <1>1, <2>1, SilentLease DEF IInv, heartVars
  <2>2. CASE pc' \notin Timed
    BY <1>1, <2>2, SilentLease DEF IInv, heartVars
  <2> QED
    BY <2>1, <2>2
<1>3. ClaimFits'
  BY SilentClaim DEF IInv, Timed
<1>4. ProofFits'
  BY SilentProof DEF IInv, heartVars
<1>5. EndFits'
  BY SilentEnd DEF IInv, Timed, Unwinding
<1> QED
  BY <1>2, <1>3, <1>4, <1>5 DEF StepFits

LEMMA TaskSteps ==
  ASSUME IInv, UNCHANGED punctual, SubmitJob \/ PollJob \/ BuildArtifact \/ TaskFails
  PROVE  StepFits
<1> USE DEF Timed, Unwinding, jobVars, endVars
<1>1. SameRecords
  BY KeptRecords DEF SubmitJob, PollJob, BuildArtifact, TaskFails, Throw
<1>2. CASE SubmitJob
  BY <1>1, <1>2, TaskGoesOn DEF SubmitJob
<1>3. CASE PollJob
  BY <1>1, <1>3, TaskGoesOn DEF PollJob, Goto
<1>4. CASE BuildArtifact
  BY <1>1, <1>4, TaskGoesOn DEF BuildArtifact, Goto
<1>5. CASE TaskFails
  BY <1>1, <1>5, TaskGoesOn DEF TaskFails, Throw, Goto
<1> QED
  BY <1>2, <1>3, <1>4, <1>5

LEMMA EndTaskStep ==
  ASSUME IInv, UNCHANGED punctual, EndTask
  PROVE  StepFits
<1>1. SameRecords
  BY KeptRecords DEF EndTask
<1>2. pc = "marked" /\ pc' = "stopping" /\ UNCHANGED <<jobVars, heartVars, endVars>>
  BY DEF EndTask, Goto
<1>3. Working' => Working
  BY <1>2 DEF Working, heartVars, jobVars, Timed
<1>4. LeaseFits'
  BY <1>1, <1>2, <1>3, SilentLease DEF IInv, heartVars, Timed
<1>5. ClaimFits' /\ ProofFits' /\ EndFits'
  BY <1>1, <1>2, SilentClaim, SilentProof, SilentEnd DEF IInv, heartVars
<1> QED
  BY <1>4, <1>5 DEF StepFits

LEMMA StopStep ==
  ASSUME IInv, UNCHANGED punctual, Stop
  PROVE  StepFits
<1>1. SameRecords
  BY KeptRecords DEF Stop
<1>2. pc = "stopping" /\ pc' = "returned" /\ UNCHANGED <<jobVars, heartVars>>
  BY DEF Stop
<1>3. LeaseFits'
  BY <1>2 DEF LeaseFits, Working, Timed, Unwinding
<1>4. EndFits'
  BY <1>2 DEF Stop, IInv, EndFits, jobVars, heartVars
<1>5. ClaimFits' /\ ProofFits'
  BY <1>1, <1>2, SilentClaim, SilentProof DEF IInv, heartVars
<1> QED
  BY <1>3, <1>4, <1>5 DEF StepFits

LEMMA UnwindStep ==
  ASSUME IInv, UNCHANGED punctual, Unwind
  PROVE  StepFits
<1>1. SameRecords
  BY KeptRecords DEF Unwind
<1>2. pc = "failing" /\ pc' = "cleanup" /\ UNCHANGED <<jobVars, heartVars, endVars>>
  BY DEF Unwind, Goto
<1>3. (Working' => Working) /\ pc' \notin Timed
  BY <1>2 DEF Working, heartVars, jobVars, Timed, Unwinding
<1>4. LeaseFits'
  BY <1>1, <1>2, <1>3, SilentLease DEF IInv, heartVars
<1>5. ClaimFits' /\ ProofFits' /\ EndFits'
  BY <1>1, <1>2, SilentClaim, SilentProof, SilentEnd DEF IInv, heartVars
<1> QED
  BY <1>4, <1>5 DEF StepFits

LEMMA JobEndsStep ==
  ASSUME IInv, UNCHANGED punctual, JobEnds
  PROVE  StepFits
<1>1. SameRecords
  BY KeptRecords DEF JobEnds
<1>2. UNCHANGED <<pc, heartVars, endVars>> /\ job # "none" /\ job' # "none"
  BY DEF JobEnds
<1>3. (Working' => Working)
  BY <1>2 DEF Working, heartVars
<1>4. LeaseFits'
  BY <1>1, <1>2, <1>3, SilentLease DEF IInv, heartVars
<1>5. ClaimFits' /\ ProofFits' /\ EndFits'
  BY <1>1, <1>2, SilentClaim, SilentProof, StillEnd DEF IInv, heartVars
<1> QED
  BY <1>4, <1>5 DEF StepFits

LEMMA IdleStep ==
  ASSUME IInv, UNCHANGED vars
  PROVE  StepFits
<1>1. SameRecords
  BY KeptRecords DEF vars
<1>2. UNCHANGED <<punctual, pc, jobVars, heartVars, endVars>>
  BY DEF vars
<1>3. (Working' => Working)
  BY <1>2 DEF Working, heartVars, jobVars
<1>4. LeaseFits'
  BY <1>1, <1>2, <1>3, SilentLease DEF IInv, heartVars
<1>5. ClaimFits' /\ ProofFits' /\ EndFits'
  BY <1>1, <1>2, SilentClaim, SilentProof, StillEnd DEF IInv, heartVars, jobVars
<1> QED
  BY <1>4, <1>5 DEF StepFits

------------------------------------------------------------------------------
(* The heartbeat.                                                          *)

(* A renewal begun asks for the full lease, or is the end of the heartbeat. *)
LEMMA ReadOutcome ==
  ASSUME Setting, ReadToRenew
  PROVE  failed' = TRUE \/ (failed' = failed /\ beat' # NoBeat /\ beat'.ttl = LeaseDuration)
<1>1. LeaseDuration # 0
  BY DEF Setting
<1> QED
  BY <1>1 DEF ReadToRenew, NoBeat

LEMMA BeginOutcome ==
  ASSUME Setting, Typed, IF beat = NoBeat THEN BeginBeat ELSE UNCHANGED <<beat, failed>>
  PROVE  /\ failed => failed'
         /\ ~failed' => beat' # NoBeat /\ (beat' = beat \/ beat'.ttl = LeaseDuration)
BY ReadOutcome DEF BeginBeat, Typed, TypeOK

(* A renewal under way, from wherever it was begun.                        *)
LEMMA BegunLease ==
  ASSUME LeaseFits, SameRecords, Working' => Working /\ beat' # NoBeat,
         beat' = beat \/ beat'.ttl = LeaseDuration
  PROVE  LeaseFits'
BY DEF LeaseFits, SameRecords, SameRecord, LiveRecord, LeaseRuns

LEMMA RenewFirstStep ==
  ASSUME Setting, IInv, UNCHANGED punctual, RenewFirst
  PROVE  StepFits
<1>1. SameRecords
  BY KeptRecords DEF RenewFirst
<1>2. /\ pc = "renewing" /\ UNCHANGED <<jobVars, endVars>>
      /\ failed' = TRUE \/ (failed' = failed /\ beat' # NoBeat /\ beat'.ttl = LeaseDuration)
      /\ pc' = IF failed' THEN "failing" ELSE pc
  BY ReadOutcome DEF RenewFirst
<1>3. LeaseFits'
  <2>1. CASE failed'
    BY <2>1 DEF LeaseFits, Working
  <2>2. CASE ~failed'
    BY <1>1, <1>2, <2>2, BegunLease DEF Working, IInv
  <2> QED
    BY <2>1, <2>2
<1>4. job = "none" /\ job' = "none"
  BY <1>2 DEF IInv, EndFits, jobVars
<1>5. failed => failed'
  BY <1>2
<1>6. pc' \in {"failing", "renewing"}
  BY <1>2
<1>7. ClaimFits' /\ ProofFits' /\ EndFits'
  BY <1>1, <1>2, <1>4, <1>5, <1>6, SilentClaim, SilentProof, SilentEnd DEF IInv
<1> QED
  BY <1>3, <1>7 DEF StepFits

LEMMA TimerFiresStep ==
  ASSUME Setting, IInv, UNCHANGED punctual, TimerFires
  PROVE  StepFits
<1>1. SameRecords
  BY KeptRecords DEF TimerFires
<1>2. pc \in Timed /\ UNCHANGED <<pc, jobVars, endVars>>
  BY DEF TimerFires
<1>3. /\ failed => failed'
      /\ ~failed' => beat' # NoBeat /\ (beat' = beat \/ beat'.ttl = LeaseDuration)
  BY BeginOutcome DEF TimerFires, IInv
<1>4. LeaseFits'
  <2>1. CASE failed'
    BY <2>1 DEF LeaseFits, Working
  <2>2. CASE ~failed'
    BY <1>1, <1>2, <1>3, <2>2, BegunLease DEF Working, IInv
  <2> QED
    BY <2>1, <2>2
<1>5. pc \notin {"idle", "returned", "threw"}
  BY <1>2 DEF Timed
<1>6. ClaimFits' /\ ProofFits' /\ EndFits'
  BY <1>1, <1>2, <1>3, <1>5, SilentClaim, SilentProof, StillEnd DEF IInv, jobVars
<1> QED
  BY <1>4, <1>6 DEF StepFits

LEMMA HeartbeatNowStep ==
  ASSUME Setting, IInv, UNCHANGED punctual, HeartbeatNow
  PROVE  StepFits
<1>1. SameRecords
  BY KeptRecords DEF HeartbeatNow
<1>2. pc = "pulse" /\ pc' \in {"failing", "joining"} /\ UNCHANGED <<jobVars, endVars>>
  BY DEF HeartbeatNow, Goto
<1>3. /\ failed => failed'
      /\ ~failed' => beat' # NoBeat /\ (beat' = beat \/ beat'.ttl = LeaseDuration)
  BY BeginOutcome DEF HeartbeatNow, IInv
<1>4. LeaseFits'
  <2>1. CASE failed'
    BY <2>1 DEF LeaseFits, Working
  <2>2. CASE ~failed'
    BY <1>1, <1>2, <1>3, <2>2, BegunLease DEF Working, IInv, Timed
  <2> QED
    BY <2>1, <2>2
<1>5. ClaimFits' /\ ProofFits' /\ EndFits'
  BY <1>1, <1>2, <1>3, SilentClaim, SilentProof, SilentEnd DEF IInv
<1> QED
  BY <1>4, <1>5 DEF StepFits

(* A renewal that fails ends the heartbeat, and writes nothing.            *)
LEMMA BeatFails ==
  ASSUME IInv, UNCHANGED punctual, BeatEnds, failed' = TRUE, SameRecords
  PROVE  StepFits
<1>1. UNCHANGED <<jobVars, endVars>> /\ beat # NoBeat
  BY DEF BeatEnds
<1>2. pc \notin {"idle", "reserved", "returned", "threw"}
  BY <1>1 DEF IInv, Typed, TypeOK
<1>3. pc' = pc \/ (pc \in {"renewing", "joining"} /\ pc' = "failing")
  BY DEF BeatEnds, AfterBeat
<1>4. LeaseFits'
  BY DEF LeaseFits, Working
<1>5. ClaimFits' /\ ProofFits'
  BY <1>2, <1>3, SilentClaim, SilentProof DEF IInv
<1>6. EndFits'
  <2>1. CASE pc' = pc
    BY <1>1, <1>2, <2>1, StillEnd DEF IInv, jobVars
  <2>2. CASE pc \in {"renewing", "joining"} /\ pc' = "failing"
    BY <1>1, <2>2, SilentEnd DEF IInv
  <2> QED
    BY <1>3, <2>1, <2>2
<1> QED
  BY <1>4, <1>5, <1>6 DEF StepFits

(* One that commits gives the lease its full length.                       *)
LEMMA BeatCommits ==
  ASSUME Setting, IInv, UNCHANGED <<punctual, failed>>, BeatEnds,
         Store!RenewLease(Self, Plan, beat.ttl), beat.ttl > 0
  PROVE  StepFits
<1>1. UNCHANGED <<jobVars, endVars>> /\ beat # NoBeat /\ beat' = NoBeat
  BY DEF BeatEnds
<1>2. pc \notin {"idle", "reserved", "returned", "threw"}
  BY <1>1 DEF IInv, Typed, TypeOK
<1>3. /\ failed \/ pc' \in {pc, "submitting", "marking"}
      /\ pc' = pc \/ pc \in {"renewing", "joining"}
      /\ pc' \in {pc, "submitting", "marking", "failing"}
      /\ pc' = "submitting" => pc \in {"renewing", "submitting"}
  BY DEF BeatEnds, AfterBeat
<1>4. due' <= Interval(LeaseDuration) /\ due' < LeaseDuration /\ due' \in Nat
  <2>1. due \in 0 .. LeaseDuration /\ due <= Interval(LeaseDuration)
    BY DEF IInv, Typed, TypeOK
  <2>2. due' = Interval(LeaseDuration) \/ due' = due
    BY DEF BeatEnds
  <2>3. LeaseDuration \in Nat
    BY DEF Setting, Records!StoreAssumption
  <2> QED
    BY <2>1, <2>2, <2>3, IntervalFits
<1>5. Records!TypeOK
  BY SameReading DEF IInv, Typed, TypeOK
<1>6. ASSUME Working'
      PROVE  Working /\ beat.ttl = LeaseDuration
  <2>1. Working
    BY <1>1, <1>3, <1>6 DEF Working, Timed, Unwinding, jobVars
  <2> QED
    BY <1>1, <2>1 DEF IInv, LeaseFits
<1>7. LeaseFits'
  <2> SUFFICES ASSUME Working', NEW n \in Note, LiveRecord(n)'
               PROVE  LeaseRuns(n)'
    BY <1>1 DEF LeaseFits
  <2>1. Records!RenewLease(Self, Plan, LeaseDuration)
    BY <1>6, SameCalls
  <2>2. /\ status'[Plan][n] = status[Plan][n]
        /\ lease'[Plan][n].owner = lease[Plan][n].owner
        /\ LiveRecord(n) => lease'[Plan][n].ttl = LeaseDuration
    BY <1>5, <2>1, RenewalEffect
  <2>3. LiveRecord(n) /\ LeaseRuns(n)
    BY <1>6, <2>2 DEF LiveRecord, IInv, LeaseFits
  <2>4. LeaseDuration > 0
    BY DEF Setting, Records!StoreAssumption
  <2> QED
    BY <1>4, <2>2, <2>3, <2>4 DEF LeaseRuns
<1>8. UNCHANGED <<status, broadcast, claim>>
  BY DEF Store!RenewLease
<1>9. ClaimFits'
  BY <1>2, <1>8 DEF IInv, ClaimFits, Recorded
<1>10. ProofFits'
  BY <1>2, <1>3, <1>8 DEF IInv, ProofFits, Recorded, LiveRecord
<1>11. EndFits'
  <2>1. job' # "none" => pc' \notin {"idle", "reserved", "renewing", "submitting"}
    BY <1>1, <1>3 DEF IInv, EndFits, jobVars
  <2>2. pc' \notin {"returned", "threw"}
    BY <1>2, <1>3
  <2> QED
    BY <1>1, <1>2, <2>1, <2>2, SilentEnd DEF IInv
<1> QED
  BY <1>7, <1>9, <1>10, <1>11 DEF StepFits

LEMMA BeatEndsStep ==
  ASSUME Setting, IInv, UNCHANGED punctual, BeatEnds
  PROVE  StepFits
<1>1. CASE failed' = TRUE /\ UNCHANGED storeVars
  BY <1>1, KeptRecords, BeatFails
<1>2. CASE beat.ttl > 0 /\ Store!RenewLease(Self, Plan, beat.ttl) /\ UNCHANGED failed
  BY <1>2, BeatCommits
<1> QED
  BY <1>1, <1>2 DEF BeatEnds

------------------------------------------------------------------------------
(* Steps that write the records.                                           *)

LEMMA ReserveStep ==
  ASSUME Setting, IInv, UNCHANGED punctual, Reserve
  PROVE  StepFits
<1>1. pc = "idle" /\ pc' = "reserved" /\ UNCHANGED <<jobVars, heartVars, endVars>>
  BY DEF Reserve, Goto
<1>2. PICK N \in SUBSET Note : Records!ReserveNotes(Self, Plan, N)
  BY SameCalls DEF Reserve
<1>3. ClaimFits'
  BY <1>1, <1>2, ReserveEffect, SameReading DEF IInv, Typed, TypeOK, ClaimFits
<1>4. job' = "none"
  BY <1>1 DEF IInv, EndFits, jobVars
<1>5. LeaseFits' /\ ProofFits'
  BY <1>1, <1>4 DEF LeaseFits, ProofFits, Working, Timed
<1>6. EndFits'
  BY <1>1, <1>4, SilentEnd DEF IInv
<1> QED
  BY <1>3, <1>5, <1>6 DEF StepFits

(* A batch that leaves the claim where it is, and every record a record.   *)
LEMMA LeavingKeepsClaim ==
  ASSUME ClaimFits, pc # "idle", NEW from, NEW to, to # "NoRecord", AllLeave(from, to)
  PROVE  ClaimFits'
BY DEF ClaimFits, AllLeave, SameRecord, Recorded, LiveRecord

LEMMA StartProvingStep ==
  ASSUME Setting, IInv, UNCHANGED punctual, StartProving
  PROVE  StepFits
<1>1. pc = "reserved" /\ UNCHANGED <<jobVars, heartVars, endVars>>
  BY DEF StartProving, Goto
<1>2. job = "none" /\ job' = "none" /\ beat' = NoBeat
  BY <1>1 DEF IInv, Typed, TypeOK, EndFits, jobVars, heartVars
<1>3. CASE Store!MarkProving(Self, Plan) /\ pc' = "renewing"
  <2>1. AllLeave("Reserved", "Proving") /\ AllTaken
    BY <1>3, SameCalls, SameReading, ProvingEffect DEF IInv, Typed, TypeOK
  <2>2. LeaseDuration > 0
    BY DEF Setting, Records!StoreAssumption
  <2>3. LeaseFits'
    BY <1>2, <1>3, <2>1, <2>2
       DEF LeaseFits, LeaseRuns, AllLeave, AllTaken, SameRecord, LiveRecord, Timed
  <2>4. ClaimFits'
    BY <1>1, <2>1, LeavingKeepsClaim DEF IInv
  <2>5. ProofFits' /\ EndFits'
    BY <1>1, <1>2, <1>3, SilentEnd DEF IInv, ProofFits
  <2> QED
    BY <2>3, <2>4, <2>5 DEF StepFits
<1>4. CASE UNCHANGED storeVars /\ pc' = "cleanup"
  <2>1. LeaseFits' /\ ProofFits'
    BY <1>2, <1>4 DEF LeaseFits, ProofFits, Working, Timed
  <2>2. ClaimFits' /\ EndFits'
    BY <1>1, <1>2, <1>4, KeptRecords, SilentClaim, SilentEnd DEF IInv
  <2> QED
    BY <2>1, <2>2 DEF StepFits
<1> QED
  BY <1>3, <1>4 DEF StartProving, Goto

LEMMA MarkReadyStep ==
  ASSUME Setting, IInv, UNCHANGED punctual, MarkReady
  PROVE  StepFits
<1>1. pc = "marking" /\ UNCHANGED <<jobVars, heartVars, endVars>>
  BY DEF MarkReady, Goto
<1>2. CASE Whole /\ Store!MarkProofReady(Self, Plan, 1, TRUE, 0) /\ pc' = "marked"
  <2>1. /\ UNCHANGED claim /\ AllTaken
        /\ \A n \in Note :
             IF LiveRecord(n)
             THEN status'[Plan][n] = "ProofReady" /\ broadcast'[Plan][n].payload = 1
             ELSE SameRecord(n)
    BY <1>2, SameCalls, SameReading, ProofEffect DEF IInv, Typed, TypeOK
  <2>2. \A n \in Note : Recorded(n) => LiveRecord(n)
    BY <1>2, WholeReading DEF Recorded, LiveRecord
  <2>3. due' < LeaseDuration /\ LeaseDuration > 0
    <3>1. due \in 0 .. LeaseDuration /\ due <= Interval(LeaseDuration)
      BY DEF IInv, Typed, TypeOK
    <3>2. due' = due /\ LeaseDuration \in Nat
      BY <1>1 DEF heartVars, Setting, Records!StoreAssumption
    <3> QED
      BY <3>1, <3>2, IntervalFits
  <2>4. LeaseFits'
    <3>1. Working' /\ beat' # NoBeat => beat'.ttl = LeaseDuration
      BY <1>1 DEF IInv, LeaseFits, Working, Timed, heartVars
    <3>2. \A n \in Note : LiveRecord(n)' => LeaseRuns(n)'
      BY <2>1, <2>3 DEF LeaseRuns, LiveRecord, AllTaken, SameRecord
    <3> QED
      BY <3>1, <3>2 DEF LeaseFits
  <2>5. ClaimFits'
    BY <1>1, <2>1 DEF IInv, ClaimFits, SameRecord, Recorded, LiveRecord
  <2>6. ProofFits'
    BY <1>2, <2>1, <2>2 DEF ProofFits, SameRecord, Recorded, LiveRecord
  <2>7. EndFits'
    BY <1>1, <1>2, SilentEnd DEF IInv
  <2> QED
    BY <2>4, <2>5, <2>6, <2>7 DEF StepFits
<1>3. CASE UNCHANGED storeVars /\ pc' = "failing"
  <2>1. SameRecords /\ UNCHANGED <<punctual, heartVars, endVars>>
    BY <1>1, <1>3, KeptRecords
  <2> QED
    BY <1>1, <1>3, <2>1, TaskGoesOn DEF Timed, Unwinding
<1> QED
  BY <1>2, <1>3 DEF MarkReady, Goto

------------------------------------------------------------------------------
(* The rollback.                                                           *)

(* A record of the reservation, and what the status read says of it.       *)
LEMMA RecordRead ==
  ASSUME IInv, pc # "idle"
  PROVE  /\ \E n \in Note : Recorded(n)
         /\ \A n \in Note : Recorded(n) => status[Plan][n] \in StatusRead
BY SameReading, RecordReading DEF IInv, ClaimFits, StatusRead

(* The call throws.                                                        *)
LEMMA EndStep ==
  ASSUME IInv, UNCHANGED punctual, pc \in Unwinding, NEW ok \in BOOLEAN, End(ok),
         ClaimFits', ok => \A n \in Note : Recorded(n)' => LetGo(n)'
  PROVE  StepFits
<1>1. pc' = "threw" /\ result' = "error" /\ cleaned' = ok /\ UNCHANGED <<jobVars, heartVars>>
  BY DEF End
<1>2. LeaseFits' /\ ProofFits'
  BY <1>1 DEF LeaseFits, ProofFits, Working, Timed, Unwinding
<1>3. EndFits'
  BY <1>1 DEF EndFits
<1> QED
  BY <1>2, <1>3 DEF StepFits

LEMMA RollbackStep ==
  ASSUME IInv, UNCHANGED punctual, Rollback
  PROVE  StepFits
<1>1. pc = "cleanup" /\ SameRecords
  BY KeptRecords DEF Rollback
<1>2. ClaimFits'
  BY <1>1, SilentClaim DEF IInv
<1>3. CASE StatusRead \in {{"Reserved"}, {"Proving"}, {"ProofReady"}}
  <2>1. pc' \in {"releasing", "isolating"} /\ UNCHANGED <<heartVars, jobVars, endVars>>
    BY <1>3 DEF Rollback, Goto
  <2>2. (Working' => Working) /\ pc' \notin Timed
    BY <1>1, <2>1 DEF Working, heartVars, jobVars, Timed, Unwinding
  <2>3. LeaseFits'
    BY <1>1, <2>1, <2>2, SilentLease DEF IInv, heartVars
  <2>4. ProofFits' /\ EndFits'
    BY <1>1, <2>1, SilentProof, SilentEnd DEF IInv, heartVars
  <2> QED
    BY <1>2, <2>3, <2>4 DEF StepFits
<1>4. CASE StatusRead \notin {{"Reserved"}, {"Proving"}, {"ProofReady"}}
  <2> DEFINE ok == StatusRead \in {{"ManualReview"}, {"ReplanRequired"}, {"Released"}}
  <2>1. End(ok)
    BY <1>4 DEF Rollback
  <2>2. ASSUME ok, NEW n \in Note, Recorded(n)'
        PROVE  LetGo(n)'
    <3>1. Recorded(n) /\ status'[Plan][n] = status[Plan][n]
      BY <1>1, <2>2 DEF SameRecords, SameRecord, Recorded
    <3>2. status[Plan][n] \in {"ManualReview", "ReplanRequired", "Released"}
      BY <1>1, <2>2, <3>1, RecordRead
    <3>3. ~Working
      BY <3>2 DEF IInv, LeaseFits, LeaseRuns, LiveRecord
    <3>4. ~(punctual' /\ ~failed' /\ job' # "none")
      BY <1>1, <2>1, <3>3 DEF Working, Unwinding, End, heartVars, jobVars
    <3> QED
      BY <3>1, <3>2, <3>4 DEF LetGo
  <2>3. ok \in BOOLEAN
    OBVIOUS
  <2> HIDE DEF ok
  <2> QED
    BY <1>1, <1>2, <2>1, <2>2, <2>3, EndStep DEF Unwinding
<1> QED
  BY <1>3, <1>4

LEMMA ReleaseOwnStep ==
  ASSUME Setting, IInv, UNCHANGED punctual, ReleaseOwn
  PROVE  StepFits
<1>1. pc = "releasing"
  BY DEF ReleaseOwn
<1>2. CASE Whole /\ Store!ReleaseReserved(Plan) /\ End(TRUE)
  <2>1. AllLeave("Reserved", "Released")
    BY <1>2, SameCalls, SameReading, ReleaseEffect DEF IInv, Typed, TypeOK
  <2>2. ClaimFits'
    BY <1>1, <2>1, LeavingKeepsClaim DEF IInv
  <2>3. ~Working
    BY <2>1 DEF AllLeave, IInv, LeaseFits, LeaseRuns
  <2>4. ~(punctual' /\ ~failed' /\ job' # "none")
    BY <1>1, <1>2, <2>3 DEF Working, Unwinding, End, heartVars, jobVars
  <2>5. \A n \in Note : Recorded(n) => LiveRecord(n)
    BY <1>2, WholeReading DEF Recorded, LiveRecord
  <2>6. \A n \in Note : Recorded(n)' => LetGo(n)'
    BY <2>1, <2>4, <2>5 DEF AllLeave, SameRecord, LetGo, Recorded
  <2> QED
    BY <1>1, <1>2, <2>2, <2>6, EndStep DEF Unwinding
<1>3. CASE UNCHANGED storeVars /\ End(FALSE)
  BY <1>1, <1>3, KeptRecords, SilentClaim, EndStep DEF IInv, Unwinding
<1> QED
  BY <1>2, <1>3 DEF ReleaseOwn

LEMMA IsolateOwnStep ==
  ASSUME Setting, IInv, UNCHANGED punctual, IsolateOwn
  PROVE  StepFits
<1>1. pc = "isolating"
  BY DEF IsolateOwn
<1>2. CASE /\ Whole /\ End(TRUE)
           /\ \E from \in Store!Status : Store!MarkManualReview(Self, Plan, from)
  <2>1. PICK from \in Store!Status : Records!MarkManualReview(Self, Plan, from)
    BY <1>2, SameCalls
  <2>2. AllLeave(from, "ManualReview")
    BY <2>1, SameReading, ReviewEffect DEF IInv, Typed, TypeOK
  <2>3. ClaimFits'
    BY <1>1, <2>2, LeavingKeepsClaim DEF IInv
  <2>4. \A n \in Note : Recorded(n) => LiveRecord(n)
    BY <1>2, WholeReading DEF Recorded, LiveRecord
  <2>5. \A n \in Note : Recorded(n)' => LetGo(n)'
    BY <2>2, <2>4 DEF AllLeave, SameRecord, LetGo, Recorded
  <2> QED
    BY <1>1, <1>2, <2>3, <2>5, EndStep DEF Unwinding
<1>3. CASE UNCHANGED storeVars /\ End(FALSE)
  BY <1>1, <1>3, KeptRecords, SilentClaim, EndStep DEF IInv, Unwinding
<1> QED
  BY <1>2, <1>3 DEF IsolateOwn

------------------------------------------------------------------------------
(* The clock and the other sessions.                                       *)

LEMMA TickStep ==
  ASSUME Setting, IInv, UNCHANGED punctual, Tick
  PROVE  StepFits
<1>1. /\ UNCHANGED <<pc, job, failed, endVars>>
      /\ punctual => OnTime
      /\ due' = Less(due) /\ beat' = [beat EXCEPT !.ttl = Less(@)]
  BY DEF Tick
<1>2. /\ UNCHANGED claim
      /\ \A n \in Note :
           /\ status'[Plan][n] = status[Plan][n] /\ SamePayload(n)
           /\ lease'[Plan][n].owner = lease[Plan][n].owner
           /\ lease[Plan][n].ttl \in Nat
           /\ lease'[Plan][n].ttl \in {lease[Plan][n].ttl, Less(lease[Plan][n].ttl)}
  BY SameCalls, SameReading, TickEffect DEF Tick, IInv, Typed, TypeOK
<1>3. LeaseFits'
  <2> SUFFICES ASSUME Working'
               PROVE  LeaseFits'
    BY DEF LeaseFits
  <2>1. Working /\ OnTime
    BY <1>1 DEF Working
  <2>2. beat = NoBeat /\ pc \in Timed /\ due > 0 /\ due \in Nat
    BY <2>1 DEF OnTime, Calling, Working, Unwinding, IInv, Typed, TypeOK
  <2>3. beat' = NoBeat
    BY <1>1, <2>2 DEF NoBeat, Less
  <2>4. ASSUME NEW n \in Note, LiveRecord(n)'
        PROVE  LeaseRuns(n)'
    <3>1. LiveRecord(n) /\ LeaseRuns(n)
      BY <1>2, <2>1, <2>4 DEF LiveRecord, IInv, LeaseFits
    <3>2. lease[Plan][n].ttl > due
      BY <2>2, <3>1 DEF LeaseRuns
    <3>3. lease'[Plan][n].ttl > due' /\ lease'[Plan][n].ttl > 0
      BY <1>1, <1>2, <2>2, <3>2 DEF Less
    <3> QED
      BY <1>2, <3>1, <3>3 DEF LeaseRuns
  <2> QED
    BY <2>3, <2>4 DEF LeaseFits
<1>4. ClaimFits'
  BY <1>1, <1>2 DEF IInv, ClaimFits, Recorded
<1>5. ProofFits'
  BY <1>1, <1>2 DEF IInv, ProofFits, SamePayload, Recorded, LiveRecord
<1>6. EndFits'
  BY <1>1, <1>2 DEF IInv, EndFits, endVars, LetGo, Recorded
<1> QED
  BY <1>3, <1>4, <1>5, <1>6 DEF StepFits

LEMMA OthersStep ==
  ASSUME Setting, IInv, UNCHANGED punctual, OtherSession \/ ScanFindsSpent
  PROVE  StepFits
<1>1. UNCHANGED <<pc, jobVars, heartVars, endVars>>
  BY QuietCall
<1>2. /\ \A n \in Note : ForeignRecord(n)
      /\ \A w \in Manager : Plan \in claim'[w] <=> Plan \in claim[w]
  BY OthersEffect, SameReading DEF IInv, Typed, TypeOK
<1>3. \A n \in Note : Recorded(n)' <=> Recorded(n)
  BY <1>2 DEF ForeignRecord, SameRecord, Recorded, LiveRecord
<1>4. \A n \in Note : LiveRecord(n)' => LiveRecord(n)
  BY <1>2 DEF ForeignRecord, SameRecord, LiveRecord
<1>5. ClaimFits'
  BY <1>1, <1>2, <1>3 DEF IInv, ClaimFits, Setting, PreparationAssumption
<1>6. ASSUME NEW n \in Note, LiveRecord(n)', Working
      PROVE  SameRecord(n)
  <2>1. LeaseRuns(n)
    BY <1>4, <1>6 DEF IInv, LeaseFits
  <2> QED
    BY <1>2, <1>6, <2>1 DEF ForeignRecord, LeaseRuns, LiveRecord
<1>7. LeaseFits'
  <2>1. Working' => Working
    BY <1>1 DEF Working, jobVars, heartVars
  <2> QED
    BY <1>1, <1>4, <1>6, <2>1 DEF IInv, LeaseFits, LeaseRuns, SameRecord, heartVars
<1>8. ProofFits'
  <2>1. pc \in {"marked", "stopping"} /\ punctual /\ ~failed => Working
    BY DEF Working, Timed
  <2>2. ASSUME NEW n \in Note, LiveRecord(n)', punctual, ~failed, pc = "returned"
        PROVE  status'[Plan][n] \in {"ProofReady", "ManualReview"}
    <3>1. status[Plan][n] \in {"ProofReady", "ManualReview"}
      BY <1>4, <2>2 DEF IInv, ProofFits
    <3> QED
      BY <1>2, <2>2, <3>1 DEF ForeignRecord, SameRecord, LiveRecord
  <2>3. \A n \in Note : SamePayload(n)
    BY <1>2 DEF ForeignRecord
  <2> QED
    BY <1>1, <1>3, <1>4, <1>6, <2>1, <2>2, <2>3
       DEF IInv, ProofFits, SameRecord, SamePayload, heartVars
<1>9. EndFits'
  <2>1. ASSUME NEW n \in Note, Recorded(n)', LetGo(n)
        PROVE  LetGo(n)'
    BY <1>1, <1>2, <2>1 DEF ForeignRecord, SameRecord, LiveRecord, LetGo, jobVars, heartVars
  <2> QED
    BY <1>1, <1>3, <2>1 DEF IInv, EndFits, endVars, jobVars, heartVars
<1> QED
  BY <1>5, <1>7, <1>8, <1>9 DEF StepFits

------------------------------------------------------------------------------
LEMMA InvariantStep ==
  ASSUME Setting, IInv, [Next]_vars
  PROVE  IInv'
<1>1. Typed'
  BY TypedStep DEF IInv
<1>2. StepFits
  <2>1. CASE Steady(Reserve \/ Client \/ TimerFires \/ BeatEnds \/ TaskFails)
    BY <2>1, ReserveStep, StartProvingStep, RenewFirstStep, TaskSteps, HeartbeatNowStep,
       MarkReadyStep, EndTaskStep, StopStep, UnwindStep, RollbackStep, ReleaseOwnStep,
       IsolateOwnStep, TimerFiresStep, BeatEndsStep
       DEF Steady, Client
  <2>2. CASE Steady(JobEnds \/ Tick \/ OtherSession \/ ScanFindsSpent)
    BY <2>2, JobEndsStep, TickStep, OthersStep DEF Steady
  <2>3. CASE UNCHANGED vars
    BY <2>3, IdleStep
  <2> QED
    BY <2>1, <2>2, <2>3 DEF Next, Steady
<1> QED
  BY <1>1, <1>2 DEF IInv, StepFits

LEMMA InvariantInit ==
  ASSUME Setting, Init
  PROVE  IInv
<1>1. Typed
  BY TypedInit
<1>2. \A m \in Manager : claim[m] = {}
  BY DEF Init, Store!Init
<1>3. pc = "idle" /\ job = "none" /\ result = "none"
  BY DEF Init
<1> QED
  BY <1>1, <1>2, <1>3
     DEF IInv, ClaimFits, LeaseFits, Working, Timed, Unwinding, ProofFits, EndFits

(* Where the reservation is in the preparation's hands its records share   *)
(* one of two statuses.                                                    *)
LEMMA WorkingRead ==
  ASSUME Setting, IInv, Records!OperationInStep, Working, Whole
  PROVE  StatusRead \in {{"Proving"}, {"ProofReady"}}
<1>1. Plan \in Op /\ pc # "idle"
  BY DEF Setting, PreparationAssumption, Working, Timed, Unwinding
<1>2. PICK n \in Note : Recorded(n)
  BY <1>1, RecordRead
<1>3. \A k \in Note : Recorded(k) => LiveRecord(k) /\ status[Plan][k] \in {"Proving", "ProofReady"}
  BY WholeReading DEF IInv, LeaseFits, LeaseRuns, Recorded, LiveRecord
<1>4. \A k \in Note : Recorded(k) => status[Plan][k] = status[Plan][n]
  <2> SUFFICES ASSUME NEW k \in Note, Recorded(k)
               PROVE  status[Plan][k] = status[Plan][n]
    OBVIOUS
  <2>1. k \in Records!Live(Plan) /\ n \in Records!Live(Plan)
    BY <1>2, <1>3, RecordReading
  <2>2. \/ status[Plan][k] = status[Plan][n]
        \/ {status[Plan][k], status[Plan][n]} = {"Released", "Available"}
    BY <1>1, <2>1 DEF Records!OperationInStep
  <2> QED
    BY <1>2, <1>3, <2>2
<1>5. StatusRead = {status[Plan][n]}
  BY <1>2, <1>4, RecordReading, SameReading DEF StatusRead
<1> QED
  BY <1>2, <1>3, <1>5

LEMMA LeaseIsKept ==
  ASSUME Setting, IInv, Records!OperationInStep
  PROVE  LeaseKept
<1> SUFFICES ASSUME punctual, pc \in Timed, ~failed, Whole
             PROVE  StatusRead \in {{"Proving"}, {"ProofReady"}} /\ Store!HoldsLease(Self, Plan)
  BY DEF LeaseKept
<1>1. Working
  BY DEF Working
<1>2. StatusRead \in {{"Proving"}, {"ProofReady"}}
  BY <1>1, WorkingRead
<1>3. Plan \in claim[Self]
  BY DEF IInv, ClaimFits, Timed
<1>4. \A n \in Note : LiveRecord(n) => lease[Plan][n].owner = Self /\ lease[Plan][n].ttl > 0
  BY <1>1 DEF IInv, LeaseFits, LeaseRuns
<1>5. Records!HoldsLease(Self, Plan)
  BY <1>3, <1>4, RecordReading DEF Records!HoldsLease
<1> QED
  BY <1>2, <1>5, SameReading

LEMMA EndIsTold ==
  ASSUME IInv
  PROVE  FlagTellsAll /\ NothingStranded
<1>1. FlagTellsAll
  BY SameReading, RecordReading DEF IInv, ProofFits, EndFits, FlagTellsAll
<1>2. NothingStranded
  BY SameReading, RecordReading DEF IInv, EndFits, LetGo, NothingStranded, StatusRead
<1> QED
  BY <1>1, <1>2

LEMMA NotesAreHeld ==
  ASSUME IInv
  PROVE  JobHoldsNotes
<1> SUFFICES ASSUME punctual, job # "none", cleaned, ~failed, NEW n \in Note, Recorded(n)
             PROVE  status[Plan][n] \in {"Proving", "ProofReady", "ManualReview", "ConfirmedSpent"}
  BY SameReading, RecordReading DEF JobHoldsNotes, StatusRead
<1>1. CASE Working
  BY <1>1 DEF IInv, LeaseFits, LeaseRuns, Recorded, LiveRecord
<1>2. CASE pc = "returned"
  BY <1>2 DEF IInv, ProofFits, Recorded, LiveRecord
<1>3. CASE pc = "threw"
  BY <1>3 DEF IInv, EndFits, LetGo
<1>4. Working \/ pc \in {"returned", "threw"}
  BY DEF IInv, Typed, TypeOK, EndFits, Point, Working
<1> QED
  BY <1>1, <1>2, <1>3, <1>4

(* A preparation is safe whatever the prover, the clock and the other      *)
(* sessions do: under timers that are on time the lease never runs out     *)
(* under the prover, what is returned was written down and flagged if a    *)
(* renewal failed, a call that throws without a cleanup error leaves       *)
(* nothing locked under its own lease, and the notes of a job that may     *)
(* still deliver a proof are not given back (prepareTransfer,              *)
(* runWithReservationHeartbeat, waitForProof).                             *)
THEOREM PreparationsAreSafe ==
  ASSUME Setting
  PROVE  Spec => []PreparationIsSafe
<1>1. Init => IInv
  BY InvariantInit
<1>2. IInv /\ [Next]_vars => IInv'
  BY InvariantStep
<1>3. Spec => []Records!OperationInStep
  <2>1. Records!Spec => []Records!OperationInStep
    BY Records!OperationsStayInStep DEF Setting
  <2> QED
    BY <2>1, PreparationUsesTheStore, PTL
<1>4. IInv /\ Records!OperationInStep => PreparationIsSafe
  BY LeaseIsKept, EndIsTold, NotesAreHeld DEF PreparationIsSafe, IInv, Typed
<1> QED
  BY <1>1, <1>2, <1>3, <1>4, PTL DEF Spec

------------------------------------------------------------------------------
(* A batch transfer.                                                       *)

CONSTANTS Process   \* see BatchCheckpoint

VARIABLES bStatus, ttl, freed, disk, call, docs, spent, late

Batch == INSTANCE BatchCheckpoint WITH status <- bStatus

BatchPlace ==
  {"idle", "claim", "payload", "persistPayload", "check", "prove", "persistProof",
   "recheck", "proved", "authorise", "build", "renew", "mark", "return", "ready",
   "cleanup", "thrown", "failed", "failedUnclean"}

CallType ==
  [at : BatchPlace, kind : {"none", "prepare", "prove", "finalize"}, started : BOOLEAN,
   beat : {"off", "ok", "failed"}, late : BOOLEAN]

BatchTyped == Batch!TypeOK /\ call \in [Process -> CallType]

(* A record on its way, and one nobody signs for any more.                 *)
Claimed == {"Proving", "ProofReady"}
Settled == {"ReplanRequired", "ManualReview", "ConfirmedSpent", "Released"}

(* What a call has established by the place it is at.                      *)
PlaceFits(p) ==
  /\ ~Batch!At(p, "idle") => bStatus # "NoRecord"
  /\ call[p].started => bStatus \in Claimed \cup Settled
  /\ Batch!At(p, "payload") \/ Batch!At(p, "persistPayload") => bStatus \in Claimed \cup Settled
  /\ call[p].at \in {"check", "prove", "persistProof"} => "payload" \in disk
  /\ call[p].at \in {"recheck", "authorise", "build", "renew", "mark", "return"}
       => Batch!Artifact \subseteq disk
  /\ call[p].at \in {"build", "renew", "mark", "return", "ready"} => ~call[p].late
  /\ Batch!At(p, "failed") => bStatus \in Settled
  /\ call[p].late => spent

CallsFit == \A p \in Process : PlaceFits(p)

(* What the record says of the disk and of the chain.                      *)
RecordFits ==
  /\ disk # {} => bStatus \in Claimed \cup Settled
  /\ bStatus = "ProofReady" => Batch!Artifact \subseteq disk
  /\ late => spent

(* Who has something to sign, or is about to return it.  Without the       *)
(* second OneDoc is not inductive: two processes past the arbiter would    *)
(* break it in one step each.                                              *)
Signer(p) == p \in docs \/ Batch!At(p, "return")

SignersFit ==
  /\ \A p \in Process : Signer(p) => bStatus \in {"ProofReady"} \cup Settled
  /\ \A p, q \in Process : Signer(p) /\ Signer(q) => p = q
  /\ docs # {} => Batch!Artifact \subseteq disk
  /\ freed = "recovery" =>
       /\ bStatus \in {"ReplanRequired", "ConfirmedSpent"}
       /\ \A p \in Process : ~Signer(p)

BatchInv == BatchTyped /\ CallsFit /\ RecordFits /\ SignersFit

LEMMA BatchInit ==
  ASSUME Batch!CheckpointAssumption, Batch!Init
  PROVE  BatchInv
<1> USE DEF Batch!CheckpointAssumption, Batch!Init, Batch!Idle
<1>1. BatchTyped
  <2>1. Batch!Idle \in CallType
    BY DEF CallType, BatchPlace
  <2>2. call \in [Process -> CallType] /\ ttl = 0 /\ ~Batch!Leased
    BY <2>1 DEF Batch!Leased
  <2>3. \A p \in Process :
          /\ call[p].started \in BOOLEAN /\ call[p].beat \in {"off", "ok", "failed"}
          /\ call[p].kind \in {"none", "prepare", "prove", "finalize"}
    OBVIOUS
  <2>4. 0 \in 0 .. LeaseDuration
    OBVIOUS
  <2> QED
    BY <2>2, <2>3, <2>4 DEF BatchTyped, Batch!TypeOK
<1>2. CallsFit
  BY DEF CallsFit, PlaceFits, Batch!At
<1>3. RecordFits
  BY DEF RecordFits
<1>4. SignersFit
  BY DEF SignersFit, Signer, Batch!At
<1> QED
  BY <1>1, <1>2, <1>3, <1>4 DEF BatchInv

(* Every step keeps the invariant: markProofReady takes the record out of  *)
(* Proving, for which no signer is there yet, and nothing puts it back.    *)
LEMMA BatchStep ==
  ASSUME Batch!CheckpointAssumption, BatchInv, [Batch!Next]_Batch!vars
  PROVE  BatchInv'
<1> USE DEF Batch!CheckpointAssumption, BatchInv, BatchTyped, Batch!TypeOK, BatchPlace, CallType,
        Batch!Leased, CallsFit, PlaceFits, RecordFits, SignersFit, Signer, Claimed, Settled,
        Batch!At, Batch!Kind, Batch!Goto, Batch!recordVars
<1>1. ASSUME NEW p \in Process, Batch!Plan(p) PROVE BatchInv'
  <2>1. BatchTyped'
    BY <1>1 DEF Batch!Plan, Batch!Idle
  <2>2. \A q \in Process : PlaceFits(q)'
    BY <1>1 DEF Batch!Plan, Batch!Idle
  <2>3. RecordFits'
    BY <1>1 DEF Batch!Plan, Batch!Idle
  <2>4. SignersFit'
    BY <1>1 DEF Batch!Plan, Batch!Idle
  <2> QED
    BY <2>1, <2>2, <2>3, <2>4 DEF CallsFit
<1>2. ASSUME NEW p \in Process, Batch!Resume(p) PROVE BatchInv'
  BY <1>2 DEF Batch!Resume, Batch!Idle
<1>3. ASSUME NEW p \in Process, Batch!Finalize(p) PROVE BatchInv'
  BY <1>3 DEF Batch!Finalize, Batch!Idle, Batch!Artifact
<1>4. ASSUME NEW p \in Process, Batch!Claim(p) PROVE BatchInv'
  BY <1>4 DEF Batch!Claim
<1>5. ASSUME NEW p \in Process, Batch!Heartbeat(p) PROVE BatchInv'
  BY <1>5 DEF Batch!Heartbeat, Batch!Leased
<1>6. ASSUME NEW p \in Process, Batch!BuildPayload(p) PROVE BatchInv'
  BY <1>6 DEF Batch!BuildPayload, Batch!Throw
<1>7. ASSUME NEW p \in Process, Batch!PersistPayload(p) PROVE BatchInv'
  BY <1>7 DEF Batch!PersistPayload, Batch!Artifact
<1>8. ASSUME NEW p \in Process, Batch!CheckBeforeProof(p) PROVE BatchInv'
  BY <1>8 DEF Batch!CheckBeforeProof, Batch!Throw
<1>9. ASSUME NEW p \in Process, Batch!Prove(p) PROVE BatchInv'
  BY <1>9 DEF Batch!Prove, Batch!Throw
<1>10. ASSUME NEW p \in Process, Batch!PersistProof(p) PROVE BatchInv'
  BY <1>10 DEF Batch!PersistProof, Batch!Throw, Batch!Artifact
<1>11. ASSUME NEW p \in Process, Batch!CheckAfterProof(p) PROVE BatchInv'
  BY <1>11 DEF Batch!CheckAfterProof, Batch!Throw
<1>12. ASSUME NEW p \in Process, Batch!Authorise(p) PROVE BatchInv'
  <2>1. CASE bStatus = "Proving" /\ Batch!Goto(p, "recheck")
    BY <1>12, <2>1 DEF Batch!Authorise
  <2>2. CASE Batch!Throw(p)
    BY <1>12, <2>2 DEF Batch!Authorise, Batch!Throw
  <2> QED
    BY <1>12, <2>1, <2>2 DEF Batch!Authorise
<1>13. ASSUME NEW p \in Process, Batch!Build(p) PROVE BatchInv'
  BY <1>13 DEF Batch!Build, Batch!Throw
<1>14. ASSUME NEW p \in Process, Batch!Renew(p) PROVE BatchInv'
  BY <1>14 DEF Batch!Renew, Batch!Throw, Batch!Leased
<1>15. ASSUME NEW p \in Process, Batch!MarkReady(p) PROVE BatchInv'
  BY <1>15 DEF Batch!MarkReady, Batch!Throw, Batch!MayBeReady, Batch!Leased
<1>16. ASSUME NEW p \in Process, Batch!Return(p) PROVE BatchInv'
  <2> USE <1>16 DEF Batch!Return
  <2>1. BatchTyped'
    <3>1. [call[p] EXCEPT !.at = "ready", !.beat = "off"] \in CallType
      OBVIOUS
    <3>2. call' = [call EXCEPT ![p] = [call[p] EXCEPT !.at = "ready", !.beat = "off"]]
      OBVIOUS
    <3>3. call' \in [Process -> CallType]
      <4> HIDE DEF CallType
      <4> QED
        BY <3>1, <3>2
    <3>4. (docs \cup {p}) \subseteq Process
      OBVIOUS
    <3> QED
      BY <3>3, <3>4
  <2>2. ASSUME NEW q \in Process PROVE PlaceFits(q)'
    <3>1. CASE q = p
      BY <3>1
    <3>2. CASE q # p
      <4>1. call'[q] = call[q] /\ UNCHANGED <<Batch!recordVars, disk, spent, late>>
        BY <3>2
      <4> QED
        BY <4>1
    <3> QED
      BY <3>1, <3>2
  <2>3. RecordFits'
    OBVIOUS
  <2>4. \A q \in Process : Signer(q)' => Signer(q)
    OBVIOUS
  <2>5. /\ UNCHANGED <<bStatus, freed>> /\ docs' = docs \cup {p}
        /\ Batch!Artifact \subseteq disk /\ disk' = disk
    OBVIOUS
  <2>6. Signer(p)
    OBVIOUS
  <2>7. SignersFit /\ docs \subseteq Process
    OBVIOUS
  <2>8. SignersFit'
    <3> HIDE <1>16 DEF Signer, BatchInv, CallsFit, PlaceFits, Batch!Return
    <3> QED
      BY <2>4, <2>5, <2>6, <2>7
  <2> QED
    BY <2>1, <2>2, <2>3, <2>8
<1>17. ASSUME NEW p \in Process, Batch!CleanUp(p) PROVE BatchInv'
  BY <1>17 DEF Batch!CleanUp
<1>18. ASSUME NEW p \in Process, Batch!Crash(p) PROVE BatchInv'
  BY <1>18 DEF Batch!Crash, Batch!Idle
<1>19. CASE Batch!Recover
  BY <1>19 DEF Batch!Recover, Batch!Leased
<1>20. CASE Batch!Resolve
  BY <1>20 DEF Batch!Resolve
<1>21. CASE Batch!ScanFindsSpent
  BY <1>21 DEF Batch!ScanFindsSpent
<1>22. CASE Batch!Spend
  BY <1>22 DEF Batch!Spend
<1>23. CASE Batch!Tick
  BY <1>23 DEF Batch!Tick, Batch!Leased
<1>24. CASE UNCHANGED Batch!vars
  BY <1>24 DEF Batch!vars
<1> QED
  BY <1>1, <1>2, <1>3, <1>4, <1>5, <1>6, <1>7, <1>8, <1>9, <1>10, <1>11,
     <1>12, <1>13, <1>14, <1>15, <1>16, <1>17, <1>18, <1>19, <1>20, <1>21,
     <1>22, <1>23, <1>24
     DEF Batch!Next, Batch!CallStep

LEMMA BatchInvariance ==
  ASSUME Batch!CheckpointAssumption
  PROVE  Batch!Spec => []BatchInv
<1>1. Batch!Init => BatchInv
  BY BatchInit
<1>2. BatchInv /\ [Batch!Next]_Batch!vars => BatchInv'
  BY BatchStep
<1> QED
  BY <1>1, <1>2, PTL DEF Batch!Spec

(* The instance counts as the theorems about finite sets do.               *)
LEMMA SameCardinality ==
  ASSUME NEW S
  PROVE  Batch!Cardinality(S) = Cardinality(S)
BY DEF Batch!Cardinality, Cardinality

LEMMA OneDocFits ==
  ASSUME BatchInv
  PROVE  Batch!OneDoc
<1>1. CASE docs = {}
  BY <1>1, FS_EmptySet, SameCardinality DEF Batch!OneDoc
<1>2. CASE docs # {}
  <2>1. PICK p \in docs : TRUE
    BY <1>2
  <2>2. docs = {p}
    BY <2>1 DEF BatchInv, BatchTyped, Batch!TypeOK, SignersFit, Signer
  <2>3. Cardinality({p}) = 1
    BY FS_Singleton
  <2> QED
    BY <2>2, <2>3, SameCardinality DEF Batch!OneDoc
<1> QED
  BY <1>1, <1>2

(* TypeOK is an invariant of the calls on one batch: what they write in    *)
(* records and checkpoints stays in range (prepareTransferBatch,           *)
(* provePreparedBatchTransfer, finalizePreparedBatchTransfer).             *)
THEOREM CheckpointTyping ==
  ASSUME Batch!CheckpointAssumption
  PROVE  Batch!Spec => []Batch!TypeOK
<1>1. BatchInv => Batch!TypeOK
  BY DEF BatchInv, BatchTyped
<1>2. Batch!Spec => []BatchInv
  BY BatchInvariance
<1> QED
  BY <1>1, <1>2, PTL

(* However many processes carry the batch on, however late, at most one    *)
(* gets something to sign, and only from a payload and a proof that are on *)
(* disk and of inputs that were not spent then; recovery frees no inputs   *)
(* something was signed for, and a failed preparation leaves the batch in  *)
(* nobody's hands (the same calls, with recovery and restarts).            *)
THEOREM BatchesAreSafe ==
  ASSUME Batch!CheckpointAssumption
  PROVE  Batch!Spec => []Batch!BatchIsSafe
<1>1. BatchInv => Batch!BatchIsSafe
  <2> SUFFICES ASSUME BatchInv PROVE Batch!BatchIsSafe
    OBVIOUS
  <2>1. Batch!TypeOK /\ Batch!DurableFirst /\ Batch!NoDocForSpent /\ Batch!RecoveryKeepsSigned
    BY DEF BatchInv, BatchTyped, Batch!TypeOK, CallsFit, PlaceFits, RecordFits, SignersFit,
           Signer, Batch!At,
           Batch!DurableFirst, Batch!NoDocForSpent, Batch!RecoveryKeepsSigned
  <2>2. Batch!FailedIsSettled
    BY DEF BatchInv, CallsFit, PlaceFits, Settled, Batch!FailedIsSettled
  <2> QED
    BY <2>1, <2>2, OneDocFits DEF Batch!BatchIsSafe
<1>2. Batch!Spec => []BatchInv
  BY BatchInvariance
<1> QED
  BY <1>1, <1>2, PTL
==============================================================================
