------------------------- MODULE PayrollRetransmit -------------------------
(***************************************************************************)
(* One one-proof payroll operation (src/privacy/reference-payroll.js):     *)
(* reserved, proved, signed into an artifact, and its exact bytes sent and *)
(* sent again by processes that crash and restart.  A send needs a         *)
(* decision of inspectOneProofPayrollArtifactRetry: kept in memory, used   *)
(* once, and stale after a while.  The inputs move together, so they are   *)
(* one record; each call of the manager is one step (ManagerCalls looks    *)
(* inside).                                                                *)
(***************************************************************************)
EXTENDS Naturals, FiniteSets

CONSTANTS
  Process, NoProcess,
  Task, ProcessOf,  \* calls under way at once, and where they run
  Tx, NoTx,         \* signed TxRaw bytes, one for every signature made
  LeaseDuration,    \* in ticks
  DecisionTTL,      \* oneProofPayrollRetryDecisionTTLSeconds, in ticks
  MaxDecisions      \* bound on the decisions issued

ASSUME PayrollAssumption ==
  /\ IsFiniteSet(Task) /\ ProcessOf \in [Task -> Process]
  /\ NoProcess \notin Process /\ NoTx \notin Tx
  /\ LeaseDuration \in Nat \ {0} /\ DecisionTTL \in Nat \ {0} /\ MaxDecisions \in Nat

VARIABLES
  status, lease,   \* of the reservations
  marked,          \* the identity of their durable attempt
  inFlight,        \* broadcast_in_flight
  have,            \* artifacts with signed bytes a process holds
  disk,            \* those it has saved
  decision,        \* oneProofPayrollRetryDecisionBindings of a process
  issued,          \* decisions issued so far
  task,            \* what each call is doing
  sends,           \* sends so far
  net,             \* what became of the bytes
  landed,          \* ticks since they were included
  spent, expired   \* the inputs on the chain; the payload

recordVars == <<status, lease, marked, inFlight>>
memoryVars == <<have, disk, decision, issued>>
chainVars == <<net, landed, spent, expired>>
vars == <<recordVars, memoryVars, task, sends, chainVars>>

NoLease == [owner |-> NoProcess, ttl |-> 0]
Idle == [at |-> "idle", tx |-> NoTx, seen |-> "", read |-> "",
         until |-> 0, beat |-> "off", end |-> ""]

Init ==
  /\ status = "NoRecord" /\ lease = NoLease /\ marked = NoTx /\ inFlight = FALSE
  /\ have = [p \in Process |-> {}] /\ disk = {}
  /\ decision = [p \in Process |-> {}] /\ issued = 0
  /\ task = [t \in Task |-> Idle] /\ sends = 0
  /\ net = [x \in Tx |-> "none"] /\ landed = [x \in Tx |-> 0]
  /\ spent = FALSE /\ expired = FALSE

Holds(p) == lease.owner = p /\ lease.ttl > 0
LeaseOf(p) == [owner |-> p, ttl |-> LeaseDuration]
Goto(t, fields) == task' = [task EXCEPT ![t] = fields]
Step(t, at) == Goto(t, [task[t] EXCEPT !.at = at])
End(t, end) == Goto(t, [task[t] EXCEPT !.at = "done", !.beat = "off", !.end = end])

------------------------------------------------------------------------------
(* Preparation.                                                            *)

(* prepareOneProofPayrollReservation claims at once, or lets go again.  Of  *)
(* a Reserved record the owner is the process that holds the claim token.  *)
Reserve(p) ==
  /\ status = "NoRecord" /\ ~spent
  /\ status' = "Reserved"
  /\ lease' = [NoLease EXCEPT !.owner = p]
  /\ UNCHANGED <<marked, inFlight, memoryVars, task, sends, chainVars>>

Claim(p) ==
  /\ status = "Reserved" /\ lease.owner = p
  /\ \/ status' = "Proving" /\ lease' = LeaseOf(p)
     \/ status' = "Released" /\ lease' = NoLease
     \/ status' = "ManualReview" /\ lease' = NoLease
  /\ UNCHANGED <<marked, inFlight, memoryVars, task, sends, chainVars>>

(* The nullifiers are read before and after the proof.                     *)
Prove(p) ==
  /\ status = "Proving" /\ Holds(p) /\ ~spent /\ ~expired
  /\ status' = "ProofReady" /\ lease' = LeaseOf(p)
  /\ UNCHANGED <<marked, inFlight, memoryVars, task, sends, chainVars>>

(* Any process that has the proven artifact may have it signed.            *)
Sign(p, x) ==
  /\ status \notin {"NoRecord", "Reserved", "Proving", "Released"}
  /\ x \notin disk /\ \A q \in Process : x \notin have[q]
  /\ net[x] = "none" /\ ~expired
  /\ have' = [have EXCEPT ![p] = @ \cup {x}]
  /\ UNCHANGED <<recordVars, disk, decision, issued, task, sends, chainVars>>

Save(p, x) ==
  /\ x \in have[p] \ disk
  /\ disk' = disk \cup {x}
  /\ UNCHANGED <<recordVars, have, decision, issued, task, sends, chainVars>>

Resume(p, x) ==
  /\ x \in disk \ have[p]
  /\ have' = [have EXCEPT ![p] = @ \cup {x}]
  /\ UNCHANGED <<recordVars, disk, decision, issued, task, sends, chainVars>>

------------------------------------------------------------------------------
(* inspectOneProofPayrollArtifactRetry: the transaction, then the inputs.  *)

Observed(x) ==
  CASE net[x] = "included" -> "succeeded" [] net[x] = "failed" -> "failed"
    [] OTHER -> "not-found"

Inspect(t, x) ==
  /\ task[t].at = "idle"
  /\ issued + Cardinality({u \in Task : task[u].at = "inspected"}) < MaxDecisions
  /\ x \in have[ProcessOf[t]]
  /\ Goto(t, [Idle EXCEPT !.at = "inspected", !.tx = x, !.seen = Observed(x)])
  /\ UNCHANGED <<recordVars, memoryVars, sends, chainVars>>

SafeToSend(seen) == seen = "not-found" /\ ~spent /\ ~expired

Decide(t) ==
  LET p == ProcessOf[t] IN
  /\ task[t].at = "inspected"
  /\ IF SafeToSend(task[t].seen)
     THEN /\ decision' = [decision EXCEPT ![p] =
               @ \cup {[tx |-> task[t].tx, ttl |-> DecisionTTL, id |-> issued]}]
          /\ issued' = issued + 1
     ELSE UNCHANGED <<decision, issued>>
  /\ Goto(t, Idle)
  /\ UNCHANGED <<recordVars, have, disk, sends, chainVars>>

------------------------------------------------------------------------------
(* retransmitOneProofPayrollArtifact.                                      *)

Consume(p, d) == decision[p] \ {d}

Retransmit(t, d) ==
  LET p == ProcessOf[t] IN
  /\ task[t].at = "idle"
  /\ d \in decision[p] /\ d.tx \in have[p]
  /\ decision' = [decision EXCEPT ![p] = IF d.ttl > 0 /\ ~expired THEN Consume(p, d) ELSE @ \ {d}]
  /\ IF d.ttl > 0 /\ ~expired
     THEN Goto(t, [Idle EXCEPT !.at = "before", !.tx = d.tx, !.until = d.ttl])
     ELSE Goto(t, [Idle EXCEPT !.at = "done", !.end = "thrown"])
  /\ UNCHANGED <<recordVars, have, disk, issued, sends, chainVars>>

(* mutation: any attempt on the record will do *)
AnyAttempt(x) == TRUE

(* assertPayrollBroadcastIdentityMatches: what is recorded is this one.    *)
Matches(x) == marked \in {x, NoTx}

(* The set is read again; a lease must be renewed while it is ProofReady.  *)
BeforeMarker(t) ==
  LET p == ProcessOf[t] IN
  /\ task[t].at = "before"
  /\ IF ~Matches(task[t].tx)
     THEN End(t, "flagged") /\ UNCHANGED lease
     ELSE IF status # "ProofReady" THEN Step(t, "mark") /\ UNCHANGED lease
     ELSE IF Holds(p) THEN Step(t, "mark") /\ lease' = LeaseOf(p)
     ELSE End(t, IF marked = NoTx THEN "thrown" ELSE "flagged") /\ UNCHANGED lease
  /\ UNCHANGED <<status, marked, inFlight, memoryVars, sends, chainVars>>

MayMark(t) == status = "ProofReady" /\ Holds(ProcessOf[t])

MarkFails(t) == End(t, "flagged")

(* markOneProofPayrollReservationBroadcastAttempting: write the marker, or *)
(* find it there; Submitted and Unknown need no lease.  Its acknowledgement*)
(* may be lost after it was written.                                       *)
Mark(t) ==
  LET x == task[t].tx IN
  /\ task[t].at = "mark"
  /\ \/ /\ MayMark(t) /\ Matches(x)
        /\ marked' = x /\ inFlight' = TRUE /\ lease' = LeaseOf(ProcessOf[t])
        /\ \/ Goto(t, [task[t] EXCEPT !.at = "send", !.beat = "ok"])
           \/ End(t, "flagged")
     \/ /\ status \in {"Submitted", "Unknown"} /\ Matches(x) /\ marked # NoTx
        /\ Step(t, "send")
        /\ UNCHANGED <<lease, marked, inFlight>>
     \/ /\ ~(MayMark(t) /\ Matches(x))
        /\ ~(status \in {"Submitted", "Unknown"} /\ Matches(x) /\ marked # NoTx)
        /\ MarkFails(t)
        /\ UNCHANGED <<lease, marked, inFlight>>
  /\ UNCHANGED <<status, memoryVars, sends, chainVars>>

(* startPayrollBroadcastHeartbeat: one failed renewal is enough.           *)
Heartbeat(t) ==
  /\ task[t].beat = "ok"
  /\ IF status = "ProofReady" /\ Holds(ProcessOf[t])
     THEN lease' = LeaseOf(ProcessOf[t]) /\ lease' # lease /\ UNCHANGED task
     ELSE Goto(t, [task[t] EXCEPT !.beat = "failed"]) /\ UNCHANGED lease
  /\ UNCHANGED <<status, marked, inFlight, memoryVars, sends, chainVars>>

(* mutation: freshness was judged when the call began *)
FreshOnce(t) == TRUE

Fresh(t) == task[t].until > 0

(* The last look at the clock and the heartbeat, then the bytes go out.    *)
Send(t) ==
  LET x == task[t].tx IN
  /\ task[t].at = "send"
  /\ IF Fresh(t) /\ task[t].beat # "failed"
     THEN /\ Step(t, "answer") /\ sends' = sends + 1
          /\ net' = [net EXCEPT ![x] = IF @ = "none" THEN "pending" ELSE @]
     ELSE Step(t, "unknown") /\ UNCHANGED <<sends, net>>
  /\ UNCHANGED <<recordVars, memoryVars, landed, spent, expired>>

(* The callback resolves, or rejects or times out with the bytes out.      *)
Answer(t) ==
  /\ task[t].at = "answer"
  /\ \/ task[t].beat # "failed" /\ Step(t, "resolved")
     \/ Step(t, "unknown")
  /\ UNCHANGED <<recordVars, memoryVars, sends, chainVars>>

(* recordPayrollBroadcastResolved; failing, it falls back on Unknown.      *)
RecordResolved(t) ==
  /\ task[t].at = "resolved"
  /\ IF status \in {"Submitted", "Unknown", "ConfirmedSpent"} /\ marked = task[t].tx
     THEN End(t, "returned") /\ UNCHANGED recordVars
     ELSE IF status = "ProofReady" /\ marked = task[t].tx /\ inFlight /\ Holds(ProcessOf[t])
     THEN /\ End(t, "returned")
          /\ status' = "Submitted" /\ lease' = NoLease /\ inFlight' = FALSE /\ UNCHANGED marked
     ELSE Step(t, "unknown") /\ UNCHANGED recordVars
  /\ UNCHANGED <<memoryVars, sends, chainVars>>

(* recordPayrollBroadcastUnknown; the error tells the caller to reconcile. *)
RecordUnknown(t) ==
  /\ task[t].at = "unknown"
  /\ IF /\ marked = task[t].tx
        /\ \/ status = "ProofReady" /\ inFlight /\ Holds(ProcessOf[t])
           \/ status = "Submitted"
     THEN status' = "Unknown" /\ lease' = NoLease /\ inFlight' = FALSE /\ UNCHANGED marked
     ELSE UNCHANGED recordVars
  /\ End(t, "flagged")
  /\ UNCHANGED <<memoryVars, sends, chainVars>>

Again(t) ==
  /\ task[t].at = "done" /\ issued < MaxDecisions
  /\ Goto(t, Idle)
  /\ UNCHANGED <<recordVars, memoryVars, sends, chainVars>>

------------------------------------------------------------------------------
(* reconcileOneProofPayrollReservation, of a transaction the caller has    *)
(* queried: first the records, then the inputs, then the manager.          *)

StartReconcile(t, x) ==
  /\ task[t].at = "idle"
  /\ x \in have[ProcessOf[t]] /\ marked = x
  /\ Goto(t, [Idle EXCEPT !.at = "reconcile", !.tx = x, !.seen = Observed(x),
                            !.read = status])
  /\ UNCHANGED <<recordVars, memoryVars, sends, chainVars>>

(* reconcileOneProofPayrollOperationEvidence, outputs as expected.         *)
Reconciled(seen) ==
  CASE seen = "not-found" -> IF spent THEN "ManualReview" ELSE "Pending"
    [] seen = "failed" -> IF spent THEN "ManualReview" ELSE "Failed"
    [] seen = "succeeded" -> IF spent THEN "Succeeded" ELSE "ManualReview"

ReviewAllowed(p) ==
  \/ status \in {"Submitted", "Unknown", "ReplanRequired"}
  \/ status = "ProofReady" /\ (Holds(p) \/ lease.ttl = 0)

Reconcile(t) ==
  LET read == task[t].read
      result == Reconciled(task[t].seen)
  IN  /\ task[t].at = "reconcile"
      /\ IF result = "Pending"
         THEN UNCHANGED recordVars /\ End(t, "none")
         ELSE IF result = "Succeeded" /\ read \in {"Submitted", "Unknown", "ConfirmedSpent"}
         THEN /\ status' = "ConfirmedSpent" /\ lease' = NoLease /\ inFlight' = FALSE
              /\ UNCHANGED marked /\ End(t, "paid")
         ELSE IF result = "Failed" /\ read \in {"Submitted", "Unknown"}
         THEN /\ IF status \in {"Submitted", "Unknown"}
                 THEN status' = "ReplanRequired" /\ lease' = NoLease /\ UNCHANGED <<marked, inFlight>>
                 ELSE UNCHANGED recordVars
              /\ End(t, "failed")
         ELSE /\ IF ReviewAllowed(ProcessOf[t])
                 THEN status' = "ManualReview" /\ lease' = NoLease /\ inFlight' = FALSE /\ UNCHANGED marked
                 ELSE UNCHANGED recordVars
              /\ End(t, "review")
      /\ UNCHANGED <<memoryVars, sends, chainVars>>

------------------------------------------------------------------------------
(* Other sessions of the owner, the chain, the clock, crashes.             *)

(* releaseReserved and updateMany; recoverExpiredLeases; and              *)
(* recoverExpiredProofReadyBroadcastFailure.                               *)
OthersLetGo ==
  /\ \/ status = "Reserved" /\ status' \in {"Released", "ReplanRequired"}
     \/ status = "Proving" /\ lease.ttl = 0 /\ status' \in {"ReplanRequired", "ManualReview"}
     \/ status = "ProofReady" /\ lease.ttl = 0 /\ status' = "ManualReview"
     \/ /\ status = "ProofReady" /\ lease.ttl = 0 /\ marked # NoTx
        /\ net[marked] = "failed" /\ ~spent /\ status' = "ReplanRequired"
  /\ lease' = NoLease /\ inFlight' = FALSE
  /\ UNCHANGED <<marked, memoryVars, task, sends, chainVars>>

ScanFindsSpent ==
  /\ spent /\ status \notin {"NoRecord", "ConfirmedSpent"}
  /\ status' = "ConfirmedSpent" /\ lease' = NoLease /\ inFlight' = FALSE
  /\ UNCHANGED <<marked, memoryVars, task, sends, chainVars>>

Settle(x) ==
  /\ net[x] = "pending"
  /\ \/ ~spent /\ ~expired /\ spent' = TRUE /\ net' = [net EXCEPT ![x] = "included"]
     \/ net' = [net EXCEPT ![x] = "failed"] /\ UNCHANGED spent
     \/ net' = [net EXCEPT ![x] = "none"] /\ UNCHANGED spent
  /\ UNCHANGED <<recordVars, memoryVars, task, sends, landed, expired>>

SpendElsewhere ==
  /\ ~spent /\ spent' = TRUE
  /\ UNCHANGED <<recordVars, memoryVars, task, sends, net, landed, expired>>

Expire ==
  /\ ~expired /\ expired' = TRUE
  /\ UNCHANGED <<recordVars, memoryVars, task, sends, net, landed, spent>>

Less(k) == IF k = 0 THEN 0 ELSE k - 1

Tick ==
  /\ \/ lease.ttl > 0
     \/ \E t \in Task : task[t].until > 0
     \/ \E p \in Process : \E d \in decision[p] : d.ttl > 0
  /\ lease' = [lease EXCEPT !.ttl = Less(@)]
  /\ task' = [t \in Task |-> [task[t] EXCEPT !.until = Less(@)]]
  /\ decision' = [p \in Process |-> {[d EXCEPT !.ttl = Less(@)] : d \in decision[p]}]
  /\ landed' = [x \in Tx |->
       IF net[x] = "included" /\ landed[x] < DecisionTTL THEN landed[x] + 1 ELSE landed[x]]
  /\ UNCHANGED <<status, marked, inFlight, have, disk, issued, sends, net, spent, expired>>

(* A new process is not the owner of the old one's lease.                  *)
Crash(p) ==
  /\ have[p] # {} \/ lease.owner = p
  /\ lease' = IF lease.owner = p THEN [lease EXCEPT !.owner = NoProcess] ELSE lease
  /\ have' = [have EXCEPT ![p] = {}]
  /\ decision' = [decision EXCEPT ![p] = {}]
  /\ task' = [t \in Task |-> IF ProcessOf[t] = p THEN Idle ELSE task[t]]
  /\ UNCHANGED <<status, marked, inFlight, disk, issued, sends, chainVars>>

CallStep(t) ==
  \/ Decide(t) \/ BeforeMarker(t) \/ Mark(t) \/ Send(t) \/ Answer(t)
  \/ RecordResolved(t) \/ RecordUnknown(t) \/ Reconcile(t)

Next ==
  \/ \E t \in Task :
       \/ CallStep(t) \/ Heartbeat(t) \/ Again(t)
       \/ \E x \in Tx : Inspect(t, x) \/ StartReconcile(t, x)
       \/ \E d \in decision[ProcessOf[t]] : Retransmit(t, d)
  \/ \E p \in Process :
       \/ Reserve(p) \/ Claim(p) \/ Prove(p) \/ Crash(p)
       \/ \E x \in Tx : Sign(p, x) \/ Save(p, x) \/ Resume(p, x)
  \/ \E x \in Tx : Settle(x)
  \/ OthersLetGo \/ ScanFindsSpent \/ SpendElsewhere \/ Expire \/ Tick

Spec == Init /\ [][Next]_vars

------------------------------------------------------------------------------
(* The variables keep their ranges. *)
TypeOK ==
  /\ status \in {"NoRecord", "Reserved", "Proving", "ProofReady", "Submitted", "Unknown",
                 "ReplanRequired", "ManualReview", "ConfirmedSpent", "Released"}
  /\ lease \in [owner : Process \cup {NoProcess}, ttl : 0 .. LeaseDuration]
  /\ marked \in Tx \cup {NoTx} /\ inFlight \in BOOLEAN
  /\ inFlight => marked # NoTx /\ status = "ProofReady"
  /\ have \in [Process -> SUBSET Tx] /\ disk \subseteq Tx
  /\ issued \in 0 .. MaxDecisions /\ sends \in Nat
  /\ net \in [Tx -> {"none", "pending", "included", "failed"}]
  /\ spent \in BOOLEAN /\ expired \in BOOLEAN

(* Of all the bytes ever signed for the operation, by processes that did   *)
(* not know of each other's, one transaction only is sent                  *)
(* (assertPayrollBroadcastIdentityMatches).                                *)
OneTransaction ==
  \A x, y \in Tx : net[x] # "none" /\ net[y] # "none" => x = y

(* What is sent is on the record first, through every crash.               *)
MarkedBeforeSent == \A x \in Tx : net[x] # "none" => marked = x

(* Every send has used up a decision of its own: concurrent calls cannot   *)
(* cross the boundary twice on one look at the chain.                      *)
SendsAreDecided == sends <= issued

(* A transaction that is already in a block is only sent again by a call   *)
(* that looked before it was, and not long after (the decision's expiry is *)
(* checked again at the boundary).                                         *)
NoLateResend ==
  [][\A x \in Tx :
       net[x] = "included" /\ sends' > sends /\ (\E t \in Task : task[t].at = "send" /\ task[t].tx = x)
         => landed[x] < DecisionTTL]_vars

(* Inputs whose payment may still happen are not let go: neither recovery  *)
(* nor reconciliation replans while bytes may be included.                 *)
LivePayloadIsHeld ==
  status \in {"ReplanRequired", "Released"} =>
    /\ \A x \in Tx : net[x] \notin {"pending", "included"}
    /\ \A t \in Task : task[t].at = "send" /\ Fresh(t) => net[task[t].tx] = "failed"

(* A call that returns has its outcome on the record; when the record      *)
(* cannot be written the caller is told to reconcile instead.              *)
ReturnedIsRecorded ==
  \A t \in Task :
    task[t].end = "returned" =>
      marked = task[t].tx /\ status \notin {"Reserved", "Proving", "ProofReady"}

(* A payment is reported paid only when its own transaction was included.  *)
PaidIsPaid == \A t \in Task : task[t].end = "paid" => net[task[t].tx] = "included"

(* What the processes of an operation keep to together.                    *)
PaymentIsSafe ==
  TypeOK /\ OneTransaction /\ MarkedBeforeSent /\ SendsAreDecided /\ LivePayloadIsHeld
    /\ ReturnedIsRecorded /\ PaidIsPaid
==============================================================================
