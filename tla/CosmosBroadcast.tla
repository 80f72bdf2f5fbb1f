--------------------------- MODULE CosmosBroadcast ---------------------------
(***************************************************************************)
(* How a wallet session takes a payment from a plan to the chain with      *)
(* src/transport/cosmos-client.js: prepareTransfer reserves the notes and  *)
(* has the proof made, signDirectAndBroadcast asks the wallet, marks the   *)
(* attempt, sends, and writes down what became of it.  Every await is a    *)
(* step, every durable step is a call of ReservationStore, and a call may  *)
(* end at any of them.  Around it: the network, the clock, other sessions  *)
(* reconciling, crashes.                                                   *)
(***************************************************************************)
EXTENDS Naturals

CONSTANTS
  Note, Op, Manager, NoManager, EvmOp, EvidenceOp,
  MaxTx, MaxPayload, LeaseDuration, Free, Spent,
  Task,       \* calls of the client that may be in progress at once
  SessionOf,  \* the session (its reservation manager) a task runs in
  NoOp,       \* what a task is about while it is idle
  AsksAgain   \* payments the application may ask to broadcast again

ASSUME CallAssumption ==
  /\ SessionOf \in [Task -> Manager]
  /\ AsksAgain \subseteq Op
  /\ NoOp \notin Op
  /\ MaxTx >= 1

(* What ReservationStore assumes of the constants it shares. *)
ASSUME RecordAssumption ==
  /\ NoManager \notin Manager
  /\ EvmOp \subseteq Op /\ EvidenceOp \subseteq Op
  /\ MaxTx \in Nat /\ MaxPayload \in Nat /\ LeaseDuration \in Nat \ {0}
  /\ Free \notin Op /\ Spent \notin Op /\ Free # Spent

VARIABLES
  status, lease, broadcast, evidence, outcome, claim,   \* see ReservationStore
  pc,        \* the await each task is at
  op, tx,    \* the operation it is about, and the transaction signed for it
  net,       \* net[o][k]: where the k-th transaction of operation o is
  expired,   \* operations whose payload has passed its expires_at
  spent      \* notes whose nullifier is on the chain

Store == INSTANCE ReservationStore

storeVars == <<status, lease, broadcast, evidence, outcome, claim>>
taskVars == <<pc, op, tx>>
chainVars == <<net, expired, spent>>
vars == <<storeVars, taskVars, chainVars>>

Tx == 1 .. MaxTx

Point ==
  {"idle", "reserved", "proving", "rollback", "releasing", "isolating",
   "signing", "signed", "renewed", "unspent", "fresh", "marked", "sending",
   "waiting", "included", "unclear",
   "wallet_rejected", "aborted_before_rpc", "check_tx_rejected"}

Net == {"unsent", "pending", "included", "failed", "refused", "lost"}

Init ==
  /\ Store!Init
  /\ pc = [t \in Task |-> "idle"]
  /\ op = [t \in Task |-> NoOp]
  /\ tx = [t \in Task |-> 0]
  /\ net = [o \in Op |-> [k \in Tx |-> "unsent"]]
  /\ expired = {}
  /\ spent = {}

Goto(t, point) == pc' = [pc EXCEPT ![t] = point] /\ UNCHANGED <<op, tx>>

(* The call of task t has returned or thrown. *)
Finish(t) ==
  /\ pc' = [pc EXCEPT ![t] = "idle"]
  /\ op' = [op EXCEPT ![t] = NoOp]
  /\ tx' = [tx EXCEPT ![t] = 0]

(* The batch a task names is the whole operation; the store refuses it     *)
(* once some record of it is spent.                                        *)
Whole(o) == Store!Live(o) = Store!Linked(o)

Inputs(o) == Store!Linked(o)
Unspent(o) == Inputs(o) \cap spent = {}

------------------------------------------------------------------------------
(* prepareTransfer.                                                        *)

Reserve(t, o, N) ==
  /\ pc[t] = "idle"
  /\ Store!ReserveNotes(SessionOf[t], o, N)
  /\ pc' = [pc EXCEPT ![t] = "reserved"]
  /\ op' = [op EXCEPT ![t] = o]
  /\ UNCHANGED <<tx, chainVars>>

StartProving(t) ==
  /\ pc[t] = "reserved"
  /\ Whole(op[t])
  /\ Store!MarkProving(SessionOf[t], op[t])
  /\ Goto(t, "proving")
  /\ UNCHANGED chainVars

(* The prover answered: heartbeatNow and markReservationProofReady, with   *)
(* the hash of the sign doc that will be put before the wallet.            *)
FinishProof(t) ==
  /\ pc[t] = "proving"
  /\ op[t] \notin EvmOp
  /\ Whole(op[t])
  /\ \E payload \in 1 .. MaxPayload :
       Store!MarkProofReady(SessionOf[t], op[t], payload, TRUE, 0)
  /\ Finish(t)
  /\ UNCHANGED chainVars

PrepareFails(t) ==
  /\ pc[t] \in {"reserved", "proving"}
  /\ Goto(t, "rollback")
  /\ UNCHANGED <<storeVars, chainVars>>

(* rollbackPlanReservation: the status read decides, and may be old by the *)
(* time the store is called.                                               *)
Rollback(t) ==
  /\ pc[t] = "rollback"
  /\ LET read == {status[op[t]][n] : n \in Inputs(op[t])}
     IN  IF read = {"Reserved"} THEN Goto(t, "releasing")
         ELSE IF read \in {{"Proving"}, {"ProofReady"}} THEN Goto(t, "isolating")
         ELSE Finish(t)
  /\ UNCHANGED <<storeVars, chainVars>>

ReleaseOwn(t) ==
  /\ pc[t] = "releasing"
  /\ Whole(op[t])
  /\ Store!ReleaseReserved(op[t])
  /\ Finish(t)
  /\ UNCHANGED chainVars

IsolateOwn(t) ==
  /\ pc[t] = "isolating"
  /\ Whole(op[t])
  /\ \E from \in Store!Status : Store!MarkManualReview(SessionOf[t], op[t], from)
  /\ Finish(t)
  /\ UNCHANGED chainVars

------------------------------------------------------------------------------
(* signDirectAndBroadcast.                                                 *)

(* mutation: the heartbeat asks for more than the lease duration *)
RenewLonger(t, o) ==
  Whole(o) /\ Store!RenewLease(SessionOf[t], o, LeaseDuration + 1)

Renew(t, o) ==
  Whole(o) /\ Store!RenewLease(SessionOf[t], o, LeaseDuration)

Preparing == {"reserved", "proving", "rollback", "releasing", "isolating"}

(* The application does not call again for a payment it already tried to   *)
(* send, or is sending.  No code of the client makes it so.                *)
FirstCall(t, o) ==
  /\ \A n \in Inputs(o) : broadcast[o][n].count = 0
  /\ \A u \in Task \ {t} : op[u] = o => pc[u] \in Preparing

(* withReservationHeartbeat renews before anything else; the sign doc must *)
(* be the one the reservation is bound to.  Whether an attempt was marked  *)
(* already is not asked before the wallet is.                              *)
Start(t, o) ==
  /\ pc[t] = "idle"
  /\ o \in AsksAgain \/ FirstCall(t, o)
  /\ \A n \in Inputs(o) : broadcast[o][n].signDoc
  /\ Renew(t, o)
  /\ pc' = [pc EXCEPT ![t] = "signing"]
  /\ op' = [op EXCEPT ![t] = o]
  /\ UNCHANGED <<tx, chainVars>>

(* The heartbeat timer, while the prover or the broadcast call runs.       *)
Heartbeat(t) ==
  /\ pc[t] \in Point \ ({"idle"} \cup (Preparing \ {"proving"}))
  /\ Renew(t, op[t])
  /\ UNCHANGED <<taskVars, chainVars>>

WalletSigns(t) ==
  /\ pc[t] = "signing"
  /\ \E k \in Tx : tx' = [tx EXCEPT ![t] = k]
  /\ pc' = [pc EXCEPT ![t] = "signed"]
  /\ UNCHANGED <<op, storeVars, chainVars>>

WalletRejects(t) ==
  /\ pc[t] = "signing"
  /\ Goto(t, "wallet_rejected")
  /\ UNCHANGED <<storeVars, chainVars>>

(* heartbeatNow: the lease must still be this session's after the wallet.  *)
RenewAfterWallet(t) ==
  /\ pc[t] = "signed"
  /\ Renew(t, op[t])
  /\ Goto(t, "renewed")
  /\ UNCHANGED chainVars

CheckNullifiers(t) ==
  /\ pc[t] = "renewed"
  /\ IF Unspent(op[t]) THEN Goto(t, "unspent") ELSE Finish(t)
  /\ UNCHANGED <<storeVars, chainVars>>

CheckFreshness(t) ==
  /\ pc[t] = "unspent"
  /\ IF op[t] \in expired THEN Finish(t) ELSE Goto(t, "fresh")
  /\ UNCHANGED <<storeVars, chainVars>>

(* mutation: a mark that cannot be written does not stop the broadcast *)
MarkIfPossible(t) ==
  /\ pc[t] = "fresh"
  /\ \/ Store!MarkBroadcastAttempting(SessionOf[t], op[t], tx[t], tx[t], TRUE, FALSE)
     \/ UNCHANGED storeVars
  /\ Goto(t, "marked")
  /\ UNCHANGED chainVars

(* beginBroadcastReservation: the exact identity, durable before the RPC.  *)
Mark(t) ==
  /\ pc[t] = "fresh"
  /\ Whole(op[t])
  /\ Store!MarkBroadcastAttempting(SessionOf[t], op[t], tx[t], tx[t], TRUE, FALSE)
  /\ Goto(t, "marked")
  /\ UNCHANGED chainVars

(* The synchronous beforeBroadcast hook throws. *)
AbortBeforeRpc(t) ==
  /\ pc[t] = "marked"
  /\ Goto(t, "aborted_before_rpc")
  /\ UNCHANGED <<storeVars, chainVars>>

(* broadcastTxSync: the node takes the transaction, its CheckTx refuses    *)
(* it, or it never gets there.                                             *)
Send(t) ==
  /\ pc[t] = "marked"
  /\ net[op[t]][tx[t]] = "unsent"
  /\ \E fate \in {"pending", "refused", "lost"} :
       net' = [net EXCEPT ![op[t]][tx[t]] = fate]
  /\ Goto(t, "sending")
  /\ UNCHANGED <<storeVars, expired, spent>>

(* mutation: any error of the RPC is taken for a refusal *)
AnswerOrRefusal(t) ==
  /\ pc[t] = "sending"
  /\ \/ net[op[t]][tx[t]] # "refused" /\ Goto(t, "waiting")
     \/ Goto(t, "check_tx_rejected")
  /\ UNCHANGED <<storeVars, chainVars>>

(* Its answer, unless that is lost. *)
Answer(t) ==
  /\ pc[t] = "sending"
  /\ \/ net[op[t]][tx[t]] # "refused" /\ Goto(t, "waiting")
     \/ net[op[t]][tx[t]] = "refused" /\ Goto(t, "check_tx_rejected")
     \/ Goto(t, "unclear")
  /\ UNCHANGED <<storeVars, chainVars>>

(* waitForTx: indexed with code 0; with another code, not in time, or not  *)
(* to be read it is unclear.                                               *)
WaitForTx(t) ==
  /\ pc[t] = "waiting"
  /\ \/ net[op[t]][tx[t]] = "included" /\ Goto(t, "included")
     \/ Goto(t, "unclear")
  /\ UNCHANGED <<storeVars, chainVars>>

RecordSubmitted(t) ==
  /\ pc[t] = "included"
  /\ Whole(op[t])
  /\ Store!MarkSubmitted(SessionOf[t], op[t], tx[t], tx[t])
  /\ Finish(t)
  /\ UNCHANGED chainVars

RecordUnknown(t) ==
  /\ pc[t] = "unclear"
  /\ Whole(op[t])
  /\ Store!MarkUnknown(SessionOf[t], op[t], tx[t], tx[t])
  /\ Finish(t)
  /\ UNCHANGED chainVars

Refusal == {"wallet_rejected", "aborted_before_rpc", "check_tx_rejected"}

RecordRejection(t) ==
  /\ pc[t] \in Refusal
  /\ Whole(op[t])
  /\ Store!MarkBroadcastRejected(SessionOf[t], op[t], pc[t])
  /\ Finish(t)
  /\ UNCHANGED chainVars

(* The call throws: a guard of the store, a failing store, query or wallet.*)
(* From the RPC to its outcome every error is caught, and between the mark *)
(* and the RPC there is only the hook.                                     *)
Throw(t) ==
  /\ pc[t] \in Point \ {"idle", "reserved", "proving", "marked", "sending", "waiting"}
  /\ Finish(t)
  /\ UNCHANGED <<storeVars, chainVars>>

------------------------------------------------------------------------------
(* Other calls on the same records: what an application does to cancel,    *)
(* reconcile and recover, in any session, with evidence that is true.      *)

(* tx_absent_or_failed_confirmed and nullifier_unspent_confirmed: absence  *)
(* is confirmed once the payload has expired.                              *)
ConfirmedFailed(o, k) ==
  /\ Unspent(o)
  /\ k \in Tx
  /\ net[o][k] = "failed" \/ (o \in expired /\ net[o][k] # "included")

Cancel(o) ==
  /\ Store!ReleaseReserved(o)
  /\ UNCHANGED <<taskVars, chainVars>>

ReportFailure(m, o, k) ==
  /\ ConfirmedFailed(o, k)
  /\ Store!MarkBroadcastFailed(m, o, k)
  /\ UNCHANGED <<taskVars, chainVars>>

RecoverExpired(o, k) ==
  /\ Unspent(o)
  /\ k \in Tx
  /\ net[o][k] = "failed"
  /\ Store!RecoverExpiredProofReady(o, k)
  /\ UNCHANGED <<taskVars, chainVars>>

Replan(m, o, from, k) ==
  /\ k # 0 => ConfirmedFailed(o, k)
  /\ Store!MarkReplanRequired(m, o, from, k)
  /\ UNCHANGED <<taskVars, chainVars>>

Isolate(m, o, from) ==
  /\ Store!MarkManualReview(m, o, from)
  /\ UNCHANGED <<taskVars, chainVars>>

Resolve(o, to) ==
  /\ Store!ResolveManualReview(o, to)
  /\ UNCHANGED <<taskVars, chainVars>>

(* A scan found notes spent; for those this wallet's transactions spent it *)
(* may have the evidence.                                                  *)
Found(n) ==
  {Store!NoEvidence} \cup
    {e \in EvidenceOp \X Tx : n \in Inputs(e[1]) /\ net[e[1]][e[2]] = "included"}

Reconcile(S) ==
  /\ \E by \in [S -> UNION {Found(n) : n \in S}] :
       /\ \A n \in S : by[n] \in Found(n)
       /\ Store!ReconcileSpent(S, by)
  /\ UNCHANGED <<taskVars, chainVars>>

------------------------------------------------------------------------------
(* The chain, the clock and crashes.                                       *)

Include(o, k) ==
  /\ net[o][k] = "pending"
  /\ Unspent(o)
  /\ o \notin expired
  /\ net' = [net EXCEPT ![o][k] = "included"]
  /\ spent' = spent \cup Inputs(o)
  /\ UNCHANGED <<storeVars, taskVars, expired>>

(* Included with a code, or dropped from the mempool. *)
FailTx(o, k) ==
  /\ net[o][k] = "pending"
  /\ \E fate \in {"failed", "lost"} : net' = [net EXCEPT ![o][k] = fate]
  /\ UNCHANGED <<storeVars, taskVars, expired, spent>>

(* The note is spent by a wallet that knows nothing of these records.      *)
SpendElsewhere(n) ==
  /\ n \notin spent
  /\ spent' = spent \cup {n}
  /\ UNCHANGED <<storeVars, taskVars, net, expired>>

Expire(o) ==
  /\ o \notin expired
  /\ Inputs(o) # {}
  /\ expired' = expired \cup {o}
  /\ UNCHANGED <<storeVars, taskVars, net, spent>>

Tick == Store!Tick /\ UNCHANGED <<taskVars, chainVars>>

Crash(m) ==
  /\ Store!Crash(m)
  /\ LET own(t) == SessionOf[t] = m
     IN  /\ pc' = [t \in Task |-> IF own(t) THEN "idle" ELSE pc[t]]
         /\ op' = [t \in Task |-> IF own(t) THEN NoOp ELSE op[t]]
         /\ tx' = [t \in Task |-> IF own(t) THEN 0 ELSE tx[t]]
  /\ UNCHANGED chainVars

------------------------------------------------------------------------------

TaskStep(t) ==
  \/ \E o \in Op, N \in SUBSET Note : Reserve(t, o, N)
  \/ StartProving(t) \/ FinishProof(t) \/ PrepareFails(t)
  \/ Rollback(t) \/ ReleaseOwn(t) \/ IsolateOwn(t)
  \/ \E o \in Op : Start(t, o)
  \/ Heartbeat(t) \/ WalletSigns(t) \/ WalletRejects(t) \/ RenewAfterWallet(t)
  \/ CheckNullifiers(t) \/ CheckFreshness(t)
  \/ Mark(t) \/ AbortBeforeRpc(t) \/ Send(t) \/ Answer(t) \/ WaitForTx(t)
  \/ RecordSubmitted(t) \/ RecordUnknown(t) \/ RecordRejection(t) \/ Throw(t)

RecoveryStep(o) ==
  \/ Cancel(o)
  \/ \E m \in Manager, k \in Tx : ReportFailure(m, o, k)
  \/ \E k \in Tx : RecoverExpired(o, k)
  \/ \E m \in Manager, from \in Store!Status, k \in Store!TxId : Replan(m, o, from, k)
  \/ \E m \in Manager, from \in Store!Status : Isolate(m, o, from)
  \/ \E to \in Store!Status : Resolve(o, to)

ChainStep(o) == \E k \in Tx : Include(o, k) \/ FailTx(o, k)

Next ==
  \/ \E t \in Task : TaskStep(t)
  \/ \E o \in Op : RecoveryStep(o) \/ ChainStep(o) \/ Expire(o)
  \/ \E S \in SUBSET spent : Reconcile(S)
  \/ \E n \in Note : SpendElsewhere(n)
  \/ Tick
  \/ \E m \in Manager : Crash(m)

Spec == Init /\ [][Next]_vars

------------------------------------------------------------------------------
(* What the workflow promises.                                             *)

(* Whatever a node has ever been given can be looked up after a crash: its *)
(* hash, bytes and sign doc are on every input of the operation            *)
(* (broadcastIdentity, marked before the RPC).                             *)
MarkedBeforeSent ==
  \A o \in Op \ EvmOp, k \in Tx :
    net[o][k] # "unsent" =>
      \A n \in Inputs(o) :
        LET b == broadcast[o][n]
        IN  b.count >= 1 /\ b.submitted = k /\ b.bytes = k /\ b.signDoc

MayPay(o, k) ==
  net[o][k] = "included" \/ (net[o][k] = "pending" /\ o \notin expired)

(* What may free the note of a payment that may still happen: an operator, *)
(* and a second Cosmos call for the payment that is refused                *)
(* (RejectedBeforeBroadcast).                                              *)
Excused(o, n) ==
  \/ "operator_approved" \in evidence[o][n]
  \/ o \in AsksAgain /\ "broadcast_rejected" \in evidence[o][n]

Holding == {"ProofReady", "Submitted", "Unknown", "ManualReview", "ConfirmedSpent"}

(* While a transaction has paid, or may still pay, its inputs are not free *)
(* for another plan, however the call ended, whoever recovers, and whether *)
(* or not the worker is alive.                                             *)
LivePayloadIsHeld ==
  \A o \in Op, k \in Tx :
    MayPay(o, k) => \A n \in Inputs(o) : status[o][n] \in Holding \/ Excused(o, n)

(* A note pays once: no two operations both have a transaction on it that  *)
(* has paid or may still pay, through refusals, lost answers, expiry,      *)
(* reconciliation and replanning, unless it was freed early.               *)
PayOnce ==
  \A o1, o2 \in Op : \A n \in Inputs(o1) \cap Inputs(o2) : \A k1, k2 \in Tx :
    o1 # o2 /\ MayPay(o1, k1) /\ MayPay(o2, k2) => Excused(o1, n) \/ Excused(o2, n)

(* On this path Submitted is said of a transaction only after it was seen  *)
(* included with code 0; every other answer is Unknown or a refusal.       *)
SubmittedIsIncluded ==
  \A o \in Op \ EvmOp, n \in Note :
    status[o][n] = "Submitted" => net[o][broadcast[o][n].submitted] = "included"

(* Calls for one reservation may overlap and the wallet sign twice: at     *)
(* most one transaction of an operation is ever given to a node.           *)
OneTransaction ==
  \A o \in Op : \A k1, k2 \in Tx :
    net[o][k1] # "unsent" /\ net[o][k2] # "unsent" => k1 = k2

(* Nobody pays twice: neither two operations from one note, nor one        *)
(* operation with two transactions.                                        *)
PaidOnce == PayOnce /\ OneTransaction

(* docs/reservation-state-machine.md, the row of markBroadcastRejected: a  *)
(* payment recorded as rejected (by the wallet, by an abort before the RPC,*)
(* by CheckTx) was never taken by a node.                                  *)
RejectedBeforeBroadcast ==
  \A o \in Op, n \in Note :
    "broadcast_rejected" \in evidence[o][n] =>
      \A k \in Tx : net[o][k] \notin {"pending", "included"}
==============================================================================
