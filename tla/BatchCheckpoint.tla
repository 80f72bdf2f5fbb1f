--------------------------- MODULE BatchCheckpoint ---------------------------
(***************************************************************************)
(* One-proof batch transfers (src/transport/cosmos-client.js,              *)
(* prepareTransferBatch, provePreparedBatchTransfer and                    *)
(* finalizePreparedBatchTransfer, and their wrappers of wallet-client.js): *)
(* payload and proof are written to the application's disk on the way, and *)
(* a process that finds them after a restart, or believes it does, takes   *)
(* the batch from there.  Processes share the wallet's lease owner; the    *)
(* claim token is in the checkpoint.  The inputs move together and are one *)
(* record.                                                                 *)
(***************************************************************************)
EXTENDS Naturals, FiniteSets

CONSTANTS
  Process,
  LeaseDuration   \* in ticks

CheckpointAssumption == LeaseDuration \in Nat \ {0}

VARIABLES
  status, ttl,    \* of the reservations, and what is left of their lease
  freed,          \* who gave the inputs back: "no", "recovery", "operator"
  disk,           \* checkpoints written: "payload", "proof"
  call,           \* what each process is doing
  docs,           \* processes that returned something to sign
  spent,          \* the inputs on the chain
  late            \* they were spent when the proof on disk was written

recordVars == <<status, ttl, freed>>
vars == <<recordVars, disk, call, docs, spent, late>>

Artifact == {"payload", "proof"}
Idle == [at |-> "idle", kind |-> "none", started |-> FALSE, beat |-> "off",
         late |-> FALSE]

Init ==
  /\ status = "NoRecord" /\ ttl = 0 /\ freed = "no"
  /\ disk = {} /\ call = [p \in Process |-> Idle]
  /\ docs = {} /\ spent = FALSE /\ late = FALSE

Leased == ttl > 0
At(p, at) == call[p].at = at
Kind(p, kind) == call[p].kind = kind
Goto(p, at) == call' = [call EXCEPT ![p].at = at]

(* A failed preparation cleans up, the other two calls just throw.         *)
Throw(p) == Goto(p, IF Kind(p, "prepare") THEN "cleanup" ELSE "thrown")

------------------------------------------------------------------------------
(* prepareTransferBatch.                                                   *)

Plan(p) ==
  /\ At(p, "idle") /\ status = "NoRecord" /\ ~spent
  /\ status' = "Reserved"
  /\ call' = [call EXCEPT ![p] = [Idle EXCEPT !.at = "claim", !.kind = "prepare"]]
  /\ UNCHANGED <<ttl, freed, disk, docs, spent, late>>

(* markProving and the heartbeat, or the rollback of preparePlanReservation.*)
Claim(p) ==
  /\ At(p, "claim")
  /\ \/ /\ status = "Reserved"
        /\ status' = "Proving" /\ ttl' = LeaseDuration
        /\ call' = [call EXCEPT ![p].at = "payload", ![p].beat = "ok"]
     \/ Goto(p, "cleanup") /\ UNCHANGED <<status, ttl>>
  /\ UNCHANGED <<freed, disk, docs, spent, late>>

Heartbeat(p) ==
  /\ call[p].beat = "ok"
  /\ IF Leased /\ status \in {"Proving", "ProofReady"}
     THEN ttl < LeaseDuration /\ ttl' = LeaseDuration /\ UNCHANGED call
     ELSE call' = [call EXCEPT ![p].beat = "failed"] /\ UNCHANGED ttl
  /\ UNCHANGED <<status, freed, disk, docs, spent, late>>

(* Tree state, paths, owner intent, envelope; any of them may fail.        *)
BuildPayload(p) ==
  /\ At(p, "payload")
  /\ Goto(p, "persistPayload") \/ Throw(p)
  /\ UNCHANGED <<recordVars, disk, docs, spent, late>>

(* onPreparedPayload: the flag is set before the callback runs, which may  *)
(* write and still reject.                                                 *)
PersistPayload(p) ==
  /\ At(p, "persistPayload")
  /\ \/ disk' = disk \cup {"payload"} /\ call' = [call EXCEPT ![p].at = "check", ![p].started = TRUE]
     \/ /\ disk' \in {disk, disk \cup {"payload"}}
        /\ call' = [call EXCEPT ![p].at = "cleanup", ![p].started = TRUE]
  /\ UNCHANGED <<recordVars, docs, spent, late>>

------------------------------------------------------------------------------
(* provePreparedBatchTransfer, inside the preparation or after a restart.  *)

Resume(p) ==
  /\ At(p, "idle") /\ "payload" \in disk
  /\ call' = [call EXCEPT ![p] = [Idle EXCEPT !.at = "check", !.kind = "prove"]]
  /\ UNCHANGED <<recordVars, disk, docs, spent, late>>

(* Envelope, active configuration, nullifiers; then the prover.            *)
CheckBeforeProof(p) ==
  /\ At(p, "check")
  /\ (~spent /\ Goto(p, "prove")) \/ Throw(p)
  /\ UNCHANGED <<recordVars, disk, docs, spent, late>>

Prove(p) ==
  /\ At(p, "prove")
  /\ Goto(p, "persistProof") \/ Throw(p)
  /\ UNCHANGED <<recordVars, disk, docs, spent, late>>

PersistProof(p) ==
  /\ At(p, "persistProof")
  /\ \/ /\ disk' = disk \cup {"proof"} /\ late' = spent
        /\ call' = [call EXCEPT ![p].at = "recheck", ![p].late = spent]
     \/ disk' = disk \cup {"proof"} /\ late' = spent /\ Throw(p)
     \/ Throw(p) /\ UNCHANGED <<disk, late>>
  /\ UNCHANGED <<recordVars, docs, spent>>

(* The nullifiers again; a resumed call has done its part.                 *)
CheckAfterProof(p) ==
  /\ At(p, "recheck")
  /\ \/ ~spent /\ Goto(p, IF Kind(p, "prove") THEN "proved" ELSE "build")
     \/ Throw(p)
  /\ UNCHANGED <<recordVars, disk, docs, spent, late>>

------------------------------------------------------------------------------
(* finalizePreparedBatchTransfer, from both checkpoints.                   *)

Finalize(p) ==
  /\ At(p, "idle") /\ Artifact \subseteq disk
  /\ call' = [call EXCEPT ![p] = [Idle EXCEPT !.kind = "finalize", !.late = late,
       !.at = IF status = "ManualReview" THEN "thrown" ELSE "authorise"]]
  /\ UNCHANGED <<recordVars, disk, docs, spent, late>>

(* authoritativeBatchRecoveryReservation: a status and a token, no clock.  *)
Authorise(p) ==
  /\ At(p, "authorise")
  /\ (status = "Proving" /\ Goto(p, "recheck")) \/ Throw(p)
  /\ UNCHANGED <<recordVars, disk, docs, spent, late>>

(* The sign doc, or an EVM transaction with the wallet's authorization.    *)
Build(p) ==
  /\ At(p, "build")
  /\ \/ call[p].beat # "failed" /\ Goto(p, IF Kind(p, "prepare") THEN "renew" ELSE "mark")
     \/ Throw(p)
  /\ UNCHANGED <<recordVars, disk, docs, spent, late>>

(* heartbeatNow *)
Renew(p) ==
  /\ At(p, "renew")
  /\ IF Leased /\ status \in {"Proving", "ProofReady"} /\ call[p].beat # "failed"
     THEN ttl' = LeaseDuration /\ Goto(p, "mark")
     ELSE Throw(p) /\ UNCHANGED ttl
  /\ UNCHANGED <<status, freed, disk, docs, spent, late>>

(* mutation: what is marked already is marked *)
ReadyOrMarked == (status = "Proving" /\ Leased) \/ status = "ProofReady"

MayBeReady == status = "Proving" /\ Leased

(* markProofReady; its answer may be lost after it was written.            *)
MarkReady(p) ==
  /\ At(p, "mark")
  /\ \/ MayBeReady /\ status' = "ProofReady" /\ ttl' = LeaseDuration /\ (Goto(p, "return") \/ Throw(p))
     \/ Throw(p) /\ UNCHANGED <<status, ttl>>
  /\ UNCHANGED <<freed, disk, docs, spent, late>>

Return(p) ==
  /\ At(p, "return")
  /\ docs' = docs \cup {p}
  /\ call' = [call EXCEPT ![p].at = "ready", ![p].beat = "off"]
  /\ UNCHANGED <<recordVars, disk, spent, late>>

(* The catch clauses: quarantine, by one's own token or because the lease  *)
(* has run out; rollbackPlanReservation comes to the same but for a claim  *)
(* that failed.  When the store fails too, the error says so.              *)
CleanUp(p) ==
  /\ At(p, "cleanup")
  /\ \/ /\ IF status \in {"Proving", "ProofReady"}
           THEN status' = "ManualReview" /\ ttl' = 0
           ELSE IF status = "Reserved" /\ ~call[p].started
           THEN status' = "Released" /\ ttl' = 0
           ELSE UNCHANGED <<status, ttl>>
        /\ call' = [call EXCEPT ![p].at = "failed", ![p].beat = "off"]
     \/ /\ call' = [call EXCEPT ![p].at = "failedUnclean", ![p].beat = "off"]
        /\ UNCHANGED <<status, ttl>>
  /\ UNCHANGED <<freed, disk, docs, spent, late>>

------------------------------------------------------------------------------
(* Other sessions of the wallet, the operator, the chain, the clock.       *)

Recover ==
  /\ ~Leased
  /\ \/ status \in {"Reserved", "Proving"} /\ status' = "ReplanRequired" /\ freed' = "recovery"
     \/ status \in {"Proving", "ProofReady"} /\ status' = "ManualReview" /\ UNCHANGED freed
  /\ UNCHANGED <<ttl, disk, call, docs, spent, late>>

Resolve ==
  /\ status = "ManualReview" /\ ~spent
  /\ status' \in {"Released", "ReplanRequired"} /\ freed' = "operator"
  /\ UNCHANGED <<ttl, disk, call, docs, spent, late>>

ScanFindsSpent ==
  /\ spent /\ status \notin {"NoRecord", "ConfirmedSpent"}
  /\ status' = "ConfirmedSpent" /\ ttl' = 0
  /\ UNCHANGED <<freed, disk, call, docs, spent, late>>

Spend ==
  /\ ~spent /\ spent' = TRUE
  /\ UNCHANGED <<recordVars, disk, call, docs, late>>

Tick ==
  /\ Leased /\ ttl' = ttl - 1
  /\ UNCHANGED <<status, freed, disk, call, docs, spent, late>>

(* What was returned is with the application and may be used.              *)
Crash(p) ==
  /\ ~At(p, "idle")
  /\ call' = [call EXCEPT ![p] = Idle]
  /\ UNCHANGED <<recordVars, disk, docs, spent, late>>

CallStep(p) ==
  \/ Claim(p) \/ BuildPayload(p) \/ PersistPayload(p) \/ CheckBeforeProof(p) \/ Prove(p)
  \/ PersistProof(p) \/ CheckAfterProof(p) \/ Authorise(p) \/ Build(p) \/ Renew(p)
  \/ MarkReady(p) \/ Return(p) \/ CleanUp(p)

Next ==
  \/ \E p \in Process :
       Plan(p) \/ Resume(p) \/ Finalize(p) \/ CallStep(p) \/ Heartbeat(p) \/ Crash(p)
  \/ Recover \/ Resolve \/ ScanFindsSpent \/ Spend \/ Tick

Spec == Init /\ [][Next]_vars

------------------------------------------------------------------------------
(* The variables keep their ranges. *)
TypeOK ==
  /\ status \in {"NoRecord", "Reserved", "Proving", "ProofReady", "ReplanRequired",
                 "ManualReview", "ConfirmedSpent", "Released"}
  /\ ttl \in 0 .. LeaseDuration /\ (Leased => status \in {"Proving", "ProofReady"})
  /\ freed \in {"no", "recovery", "operator"}
  /\ disk \subseteq Artifact /\ docs \subseteq Process
  /\ spent \in BOOLEAN /\ late \in BOOLEAN
  /\ \A p \in Process :
       /\ call[p].started \in BOOLEAN /\ call[p].beat \in {"off", "ok", "failed"}
       /\ call[p].kind \in {"none", "prepare", "prove", "finalize"}

(* Of all the processes that carry one batch on, the slow one included,    *)
(* at most one gets something to sign: the move to ProofReady is the       *)
(* arbiter, and a record that left Proving does not come back.             *)
OneDoc == Cardinality(docs) <= 1

(* There is nothing to sign before payload and proof are on the disk, by   *)
(* whichever call it was made.                                             *)
DurableFirst ==
  (docs # {} \/ status = "ProofReady") => Artifact \subseteq disk

(* Inputs that were spent when the proof was written are not signed for:   *)
(* the nullifiers are read once more behind every proof, this call's or    *)
(* one of before the restart.                                              *)
NoDocForSpent ==
  \A p \in Process :
    call[p].at \in {"build", "renew", "mark", "return", "ready"} => ~call[p].late

(* Recovery by itself never gives back inputs that something was made to   *)
(* sign for, however late the process that made it returns.                *)
RecoveryKeepsSigned == freed = "recovery" => docs = {}

(* A preparation that failed, and could write, leaves the batch in nobody's*)
(* hands: neither it nor a process that resumed it goes on from there.     *)
FailedIsSettled ==
  \A p \in Process : At(p, "failed") => status \notin {"Reserved", "Proving", "ProofReady"}

(* What the calls on one batch keep to, restarts between them included.    *)
BatchIsSafe ==
  TypeOK /\ OneDoc /\ DurableFirst /\ NoDocForSpent /\ RecoveryKeepsSigned /\ FailedIsSettled
==============================================================================
