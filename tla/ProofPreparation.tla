-------------------------- MODULE ProofPreparation --------------------------
(***************************************************************************)
(* One prepareTransfer of src/transport/cosmos-client.js against the       *)
(* clock: the reservation is made and its lease kept by the heartbeat of   *)
(* reservation-workflow.js while an asynchronous prover job (prover.js) is *)
(* polled until its deadline, then the proof is written down, or the       *)
(* reservation rolled back.  The heartbeat reads the records and commits   *)
(* later, whatever the task does in between; other sessions of the wallet  *)
(* use the same store.                                                     *)
(***************************************************************************)
EXTENDS Naturals

CONSTANTS
  Note, Op, Manager, NoManager, LeaseDuration, Free, Spent,  \* see ReservationStore
  Self,       \* the session that prepares
  Plan,       \* the operation id of its reservation
  JobTimeout  \* timeoutMs of the prover adapter, in polling intervals

EvmOp == {}
EvidenceOp == {}
MaxTx == 1
MaxPayload == 1

PreparationAssumption ==
  /\ Self \in Manager /\ Plan \in Op
  /\ JobTimeout \in Nat \ {0}

VARIABLES
  punctual, \* timers fire on time; FALSE: the tab may be suspended
  status, lease, broadcast, evidence, outcome, claim,   \* see ReservationStore
  pc,       \* where the call is
  job,      \* the job at the prover
  left,     \* polling intervals to the deadline, 0 when it has passed
  asleep,   \* waiting for the next poll
  beat,     \* inFlight: the renewal that has read the records, if any
  due,      \* time to the next tick of the heartbeat timer
  failed,   \* heartbeatError, which is never cleared
  result,   \* what the caller got
  cleaned   \* FALSE: the rollback itself failed (reservationCleanupErrors)

Store == INSTANCE ReservationStore

storeVars == <<status, lease, broadcast, evidence, outcome, claim>>
jobVars == <<job, left, asleep>>
heartVars == <<beat, due, failed>>
endVars == <<result, cleaned>>
vars == <<punctual, storeVars, pc, jobVars, heartVars, endVars>>

(* The heartbeat timer runs at the first, a rollback follows the second.   *)
Timed == {"submitting", "polling", "built", "pulse", "joining", "marking", "marked"}
Unwinding == {"failing", "cleanup", "releasing", "isolating"}
Point == {"idle", "reserved", "renewing", "stopping", "returned", "threw"} \cup Timed \cup Unwinding

(* Points at which the client's own code or a store call runs, as opposed  *)
(* to the prover's or the application's.                                   *)
Calling == {"reserved", "renewing", "pulse", "joining", "marking", "marked", "stopping"} \cup Unwinding

NoBeat == [from |-> "NoRecord", ttl |-> 0]

(* reservationHeartbeatIntervalMs *)
Interval(duration) == IF duration < 3 THEN 1 ELSE duration \div 3

Init ==
  /\ punctual \in BOOLEAN
  /\ Store!Init
  /\ pc = "idle"
  /\ job = "none" /\ left = 0 /\ asleep = FALSE
  /\ beat = NoBeat /\ due = 0 /\ failed = FALSE
  /\ result = "none" /\ cleaned = TRUE

Goto(point) == pc' = point /\ UNCHANGED <<jobVars, endVars>>

(* The store takes a batch of the reservation's ids only while they are    *)
(* the live records of the operation.                                      *)
Whole == Store!Live(Plan) = Store!Linked(Plan)
StatusRead == {status[Plan][n] : n \in Store!Linked(Plan)}

------------------------------------------------------------------------------
(* The heartbeat.                                                          *)

(* renewLease reads the records and checks the lease ...                   *)
ReadToRenew ==
  IF /\ Whole /\ Store!HoldsLease(Self, Plan)
     /\ \E from \in Store!Active : Store!AllIn(Plan, from)
  THEN /\ beat' = [from |-> CHOOSE s \in StatusRead : TRUE, ttl |-> LeaseDuration]
       /\ UNCHANGED failed
  ELSE failed' = TRUE /\ UNCHANGED beat

(* heartbeat() does nothing any more once it has failed.                   *)
BeginBeat == IF failed THEN UNCHANGED <<beat, failed>> ELSE ReadToRenew

RenewFirst ==
  /\ pc = "renewing" /\ beat = NoBeat
  /\ ReadToRenew
  /\ pc' = IF failed' THEN "failing" ELSE pc
  /\ UNCHANGED <<storeVars, jobVars, due, endVars>>

TimerFires ==
  /\ pc \in Timed /\ due = 0
  /\ due' = Interval(LeaseDuration)
  /\ IF beat = NoBeat THEN BeginBeat ELSE UNCHANGED <<beat, failed>>
  /\ UNCHANGED <<storeVars, pc, jobVars, endVars>>

(* Who awaits the renewal goes on: the first one starts the timer.         *)
AfterBeat ==
  pc' = IF pc \notin {"renewing", "joining"} THEN pc
        ELSE IF failed' THEN "failing"
        ELSE IF pc = "renewing" THEN "submitting" ELSE "marking"

(* ... and commits by compare-and-set on the status it read.               *)
BeatEnds ==
  /\ beat # NoBeat
  /\ beat' = NoBeat
  /\ \/ /\ Store!AllIn(Plan, beat.from) /\ Store!HoldsLease(Self, Plan)
        /\ \A n \in Store!Live(Plan) : lease[Plan][n].ttl <= beat.ttl
        /\ beat.ttl > 0
        /\ Store!RenewLease(Self, Plan, beat.ttl)
        /\ UNCHANGED failed
     \/ (* refused, or the store cannot be reached *)
        /\ failed' = TRUE
        /\ UNCHANGED storeVars
  /\ AfterBeat
  /\ due' = IF pc = "renewing" THEN Interval(LeaseDuration) ELSE due
  /\ UNCHANGED <<jobVars, endVars>>

------------------------------------------------------------------------------
(* prepareTransfer.                                                        *)

(* preparePlanReservation: reserve, then markProving with the claim token. *)
Reserve ==
  /\ pc = "idle"
  /\ \E N \in SUBSET Note : Store!ReserveNotes(Self, Plan, N)
  /\ Goto("reserved") /\ UNCHANGED heartVars

StartProving ==
  /\ pc = "reserved"
  /\ \/ Whole /\ Store!MarkProving(Self, Plan) /\ Goto("renewing")
     \/ UNCHANGED storeVars /\ Goto("cleanup")
  /\ UNCHANGED heartVars

(* The task has thrown, for whatever reason.                               *)
Throw == Goto("failing") /\ UNCHANGED <<storeVars, heartVars>>

(* waitForProof                                                            *)
SubmitJob ==
  /\ pc = "submitting"
  /\ job' = "running" /\ left' = JobTimeout + 1 /\ asleep' = FALSE
  /\ pc' = "polling"
  /\ UNCHANGED <<storeVars, heartVars, endVars>>

(* mutation: polls until the job is over *)
PollForever ==
  /\ pc = "polling" /\ ~asleep
  /\ \/ job = "done" /\ Goto("built")
     \/ job = "failed" /\ Goto("failing")
     \/ job = "running" /\ asleep' = TRUE /\ UNCHANGED <<pc, job, left, endVars>>
  /\ UNCHANGED <<storeVars, heartVars>>

(* The deadline is looked at before the job is: one done after the last    *)
(* poll is not seen.                                                       *)
PollJob ==
  /\ pc = "polling" /\ ~asleep
  /\ \/ left = 0 /\ Goto("failing")
     \/ left > 0 /\ job = "done" /\ Goto("built")
     \/ left > 0 /\ job = "failed" /\ Goto("failing")
     \/ left > 0 /\ job = "running" /\ asleep' = TRUE /\ UNCHANGED <<pc, job, left, endVars>>
  /\ UNCHANGED <<storeVars, heartVars>>

(* The abort signal, or an error of submit, getJob, the execution builder  *)
(* or the sign doc; a single failing poll ends the wait.                   *)
TaskFails == pc \in {"submitting", "polling", "built", "marked"} /\ Throw

(* assertHeartbeatHealthy, then buildPreparedExecutionArtifact             *)
BuildArtifact ==
  /\ pc = "built"
  /\ Goto(IF failed THEN "failing" ELSE "pulse")
  /\ UNCHANGED <<storeVars, heartVars>>

(* heartbeatNow joins the renewal in flight or makes one.                  *)
HeartbeatNow ==
  /\ pc = "pulse"
  /\ IF beat = NoBeat THEN BeginBeat ELSE UNCHANGED <<beat, failed>>
  /\ Goto(IF failed' THEN "failing" ELSE "joining")
  /\ UNCHANGED <<storeVars, due>>

(* The proof is written down; the timer may have the next renewal in       *)
(* flight meanwhile, which this makes fail.                                *)
MarkReady ==
  /\ pc = "marking"
  /\ \/ Whole /\ Store!MarkProofReady(Self, Plan, 1, TRUE, 0) /\ Goto("marked")
     \/ UNCHANGED storeVars /\ Goto("failing")
  /\ UNCHANGED heartVars

EndTask ==
  /\ pc = "marked"
  /\ Goto("stopping")
  /\ UNCHANGED <<storeVars, heartVars>>

(* The finally clause: no more timer, the renewal in flight is awaited.    *)
Stop ==
  /\ pc = "stopping" /\ beat = NoBeat
  /\ pc' = "returned" /\ result' = IF failed THEN "flagged" ELSE "plain"
  /\ UNCHANGED <<storeVars, jobVars, heartVars, cleaned>>

------------------------------------------------------------------------------
(* rollbackPlanReservationPreservingError                                  *)

End(ok) ==
  /\ pc' = "threw" /\ result' = "error" /\ cleaned' = ok
  /\ UNCHANGED <<jobVars, heartVars>>

Unwind ==
  /\ pc = "failing" /\ beat = NoBeat
  /\ Goto("cleanup")
  /\ UNCHANGED <<storeVars, heartVars>>

(* mutation: a proof that is ready is left as it is *)
RollbackUnlessReady ==
  /\ pc = "cleanup"
  /\ UNCHANGED storeVars
  /\ IF StatusRead = {"Reserved"} THEN Goto("releasing") /\ UNCHANGED heartVars
     ELSE IF StatusRead = {"Proving"} THEN Goto("isolating") /\ UNCHANGED heartVars
     ELSE End(TRUE)

(* The status read decides; the store may have moved on before the call.   *)
Rollback ==
  /\ pc = "cleanup"
  /\ UNCHANGED storeVars
  /\ IF StatusRead = {"Reserved"} THEN Goto("releasing") /\ UNCHANGED heartVars
     ELSE IF StatusRead \in {{"Proving"}, {"ProofReady"}} THEN Goto("isolating") /\ UNCHANGED heartVars
     ELSE End(StatusRead \in {{"ManualReview"}, {"ReplanRequired"}, {"Released"}})

ReleaseOwn ==
  /\ pc = "releasing"
  /\ \/ Whole /\ Store!ReleaseReserved(Plan) /\ End(TRUE)
     \/ UNCHANGED storeVars /\ End(FALSE)

IsolateOwn ==
  /\ pc = "isolating"
  /\ \/ /\ Whole
        /\ \E from \in Store!Status : Store!MarkManualReview(Self, Plan, from)
        /\ End(TRUE)
     \/ UNCHANGED storeVars /\ End(FALSE)

------------------------------------------------------------------------------
(* The prover, the clock, the other sessions of the wallet.                *)

JobEnds ==
  /\ job = "running"
  /\ job' \in {"done", "failed"}
  /\ UNCHANGED <<storeVars, pc, left, asleep, heartVars, endVars>>

(* A punctual timer fires before its time passes, and the store answers    *)
(* within a polling interval.                                              *)
OnTime == beat = NoBeat /\ pc \notin Calling /\ (pc \in Timed => due > 0)

Less(k) == IF k = 0 THEN 0 ELSE k - 1

Tick ==
  /\ punctual => OnTime
  /\ IF \E o \in Op, n \in Note : lease[o][n].ttl > 0 THEN Store!Tick
     ELSE (left > 0 \/ asleep) /\ UNCHANGED storeVars
  /\ left' = Less(left) /\ asleep' = FALSE
  /\ due' = Less(due) /\ beat' = [beat EXCEPT !.ttl = Less(@)]
  /\ UNCHANGED <<pc, job, failed, endVars>>

Quietly(StoreStep) == StoreStep /\ UNCHANGED <<pc, jobVars, heartVars, endVars>>

OtherSession ==
  \E m \in Manager \ {Self} :
    \/ \E o \in Op \ {Plan}, N \in SUBSET Note : Quietly(Store!ReserveNotes(m, o, N))
    \/ Quietly(Store!ReleaseReserved(Plan))
    \/ \E from \in Store!Status :
         \/ Quietly(Store!MarkManualReview(m, Plan, from))
         \/ Quietly(Store!MarkReplanRequired(m, Plan, from, 0))

ScanFindsSpent ==
  \E S \in SUBSET Note : Quietly(Store!ReconcileSpent(S, [n \in S |-> Store!NoEvidence]))

Client ==
  \/ StartProving \/ RenewFirst \/ SubmitJob \/ PollJob
  \/ BuildArtifact \/ HeartbeatNow \/ MarkReady \/ EndTask \/ Stop
  \/ Unwind \/ Rollback \/ ReleaseOwn \/ IsolateOwn

Steady(Step) == Step /\ UNCHANGED punctual

Next ==
  Steady(\/ Reserve \/ Client \/ TimerFires \/ BeatEnds \/ TaskFails
         \/ JobEnds \/ Tick \/ OtherSession \/ ScanFindsSpent)

(* The client's code runs on and its calls are answered; time passes.  The *)
(* prover need not ever finish, nor any timer be on time.                  *)
Spec ==
  /\ Init /\ [][Next]_vars
  /\ WF_vars(Steady(Client)) /\ WF_vars(Steady(TimerFires))
  /\ WF_vars(Steady(BeatEnds)) /\ WF_vars(Steady(Tick))

------------------------------------------------------------------------------
(* The variables keep their ranges; nothing is in flight outside a call.   *)
TypeOK ==
  /\ punctual \in BOOLEAN
  /\ Store!TypeOK
  /\ pc \in Point
  /\ job \in {"none", "running", "done", "failed"}
  /\ left \in 0 .. JobTimeout + 1 /\ asleep \in BOOLEAN
  /\ beat \in [from : Store!Active \cup {"NoRecord"}, ttl : 0 .. LeaseDuration]
  /\ due \in 0 .. LeaseDuration /\ failed \in BOOLEAN
  /\ result \in {"none", "plain", "flagged", "error"} /\ cleaned \in BOOLEAN
  /\ pc \in {"idle", "reserved", "cleanup", "returned", "threw"} => beat = NoBeat

(* With timers on time the lease never runs out under the prover: no other *)
(* session can take the reservation away from a healthy heartbeat          *)
(* (reservationHeartbeatIntervalMs).                                       *)
LeaseKept ==
  punctual /\ pc \in Timed /\ ~failed /\ Whole
    => StatusRead \in {{"Proving"}, {"ProofReady"}} /\ Store!HoldsLease(Self, Plan)

(* What is returned was written down, and a result without the             *)
(* reconciliation flag never has a renewal fail behind its back.           *)
FlagTellsAll ==
  /\ result \in {"plain", "flagged"} =>
       \A n \in Store!Linked(Plan) : broadcast[Plan][n].payload = 1
  /\ result = "plain" => ~failed

(* A preparation that throws and reports no cleanup error leaves nothing   *)
(* locked under its own lease, wherever it failed and whatever other       *)
(* sessions did between its status read and its call.                      *)
NothingStranded ==
  result = "error" /\ cleaned =>
    StatusRead \cap {"Reserved", "Proving", "ProofReady"} = {}

(* A proof may come out of a job that was given up: unless a renewal or the *)
(* rollback failed, nobody has returned its notes to selection.            *)
JobHoldsNotes ==
  punctual /\ job # "none" /\ cleaned /\ ~failed =>
    StatusRead \subseteq {"Proving", "ProofReady", "ManualReview", "ConfirmedSpent"}

(* What the preparation keeps to, in every state of it.                    *)
PreparationIsSafe == TypeOK /\ LeaseKept /\ FlagTellsAll /\ NothingStranded /\ JobHoldsNotes

(* The call ends, whatever becomes of the job, of the lease and of the     *)
(* other sessions (the deadline of waitForProof).                          *)
PrepareEnds == pc = "reserved" ~> pc \in {"returned", "threw"}
==============================================================================
