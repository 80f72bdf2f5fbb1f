---------------------------- MODULE EvmBroadcast ----------------------------
(***************************************************************************)
(* sendTransaction of src/transport/evm.js on a reserved payment: the      *)
(* attempt is marked with the binding hash of the prepared transaction,    *)
(* and the wallet signs, sends and answers in one call.  No hash of the    *)
(* transaction is known before, and no heartbeat runs while the wallet     *)
(* asks its user.  Preparation, the other sessions, the chain and crashes  *)
(* are those of CosmosBroadcast, and the payments of both transports share *)
(* the notes and the store: EvmOp are the ones prepared for an EVM wallet. *)
(***************************************************************************)
EXTENDS CosmosBroadcast

(* bytes is the hash of to, data, value, ..., the same whichever nonce the *)
(* wallet takes; submitted is a network hash.                              *)
Artifact == 1

EvmPoint == {"checking", "ready", "asking", "asked", "hashed", "opaque", "declined"}

(* The executionBuilder's transaction is bound, there is no sign doc.      *)
EvmFinishProof(t) ==
  /\ pc[t] = "proving"
  /\ op[t] \in EvmOp
  /\ Whole(op[t])
  /\ \E payload \in 1 .. MaxPayload :
       Store!MarkProofReady(SessionOf[t], op[t], payload, FALSE, Artifact)
  /\ Finish(t)
  /\ UNCHANGED chainVars

(* The records are read, not the lease: the transaction must be the one    *)
(* the reservation was proved for.                                         *)
EvmStart(t, o) ==
  /\ pc[t] = "idle"
  /\ o \in EvmOp
  /\ o \in claim[SessionOf[t]]
  /\ \A n \in Inputs(o) : broadcast[o][n].bytes = Artifact
  /\ pc' = [pc EXCEPT ![t] = "checking"]
  /\ op' = [op EXCEPT ![t] = o]
  /\ UNCHANGED <<tx, storeVars, chainVars>>

(* The wallet's chain id, then recheckReservedInputNullifiers.             *)
EvmCheckNullifiers(t) ==
  /\ pc[t] = "checking"
  /\ IF Unspent(op[t]) THEN Goto(t, "ready") ELSE Finish(t)
  /\ UNCHANGED <<storeVars, chainVars>>

(* mutation: a mark that cannot be written does not stop the wallet *)
EvmMarkIfPossible(t) ==
  /\ pc[t] = "ready"
  /\ \/ Store!MarkBroadcastAttempting(SessionOf[t], op[t], 0, Artifact, FALSE, FALSE)
     \/ UNCHANGED storeVars
  /\ Goto(t, "asking")
  /\ UNCHANGED chainVars

(* beginBroadcastReservation *)
EvmMark(t) ==
  /\ pc[t] = "ready"
  /\ Whole(op[t])
  /\ Store!MarkBroadcastAttempting(SessionOf[t], op[t], 0, Artifact, FALSE, FALSE)
  /\ Goto(t, "asking")
  /\ UNCHANGED chainVars

(* The user refuses (code 4001), or the wallet signs a transaction of its  *)
(* choice of nonce and gives it to its node, which need not get it.        *)
WalletRefuses(t) ==
  /\ pc[t] = "asking"
  /\ Goto(t, "declined")
  /\ UNCHANGED <<storeVars, chainVars>>

WalletSends(t) ==
  /\ pc[t] = "asking"
  /\ \E k \in Tx :
       /\ net[op[t]][k] = "unsent"
       /\ \E fate \in {"pending", "refused", "lost"} :
            net' = [net EXCEPT ![op[t]][k] = fate]
       /\ tx' = [tx EXCEPT ![t] = k]
  /\ pc' = [pc EXCEPT ![t] = "asked"]
  /\ UNCHANGED <<op, storeVars, expired, spent>>

(* Its hash, or an error, or something that is no hash. *)
WalletAnswers(t) ==
  /\ pc[t] = "asked"
  /\ \/ net[op[t]][tx[t]] # "refused" /\ Goto(t, "hashed")
     \/ Goto(t, "opaque")
  /\ UNCHANGED <<storeVars, chainVars>>

EvmRecordSubmitted(t) ==
  /\ pc[t] = "hashed"
  /\ Whole(op[t])
  /\ Store!MarkSubmitted(SessionOf[t], op[t], tx[t], 0)
  /\ Finish(t)
  /\ UNCHANGED chainVars

EvmRecordRejection(t) ==
  /\ pc[t] = "declined"
  /\ Whole(op[t])
  /\ Store!MarkBroadcastRejected(SessionOf[t], op[t], "wallet_rejected")
  /\ Finish(t)
  /\ UNCHANGED chainVars

(* markBroadcastReservationManualReview *)
EvmIsolate(t) ==
  /\ pc[t] = "opaque"
  /\ Whole(op[t])
  /\ \E from \in Store!Status : Store!MarkManualReview(SessionOf[t], op[t], from)
  /\ Finish(t)
  /\ UNCHANGED chainVars

(* A check, the mark or the bookkeeping fails: the lease may have run out  *)
(* while the wallet asked.                                                 *)
EvmThrow(t) ==
  /\ pc[t] \in {"checking", "ready", "hashed", "opaque", "declined"}
  /\ Finish(t)
  /\ UNCHANGED <<storeVars, chainVars>>

EvmTaskStep(t) ==
  \/ EvmFinishProof(t)
  \/ \E o \in Op : EvmStart(t, o)
  \/ EvmCheckNullifiers(t) \/ EvmMark(t) \/ WalletRefuses(t) \/ WalletSends(t)
  \/ WalletAnswers(t) \/ EvmRecordSubmitted(t) \/ EvmRecordRejection(t)
  \/ EvmIsolate(t) \/ EvmThrow(t)

EvmNext == Next \/ \E t \in Task : EvmTaskStep(t)

EvmSpec == Init /\ [][EvmNext]_vars

------------------------------------------------------------------------------
(* The variables keep their ranges. *)
EvmTypeOK ==
  /\ Store!TypeOK
  /\ pc \in [Task -> Point \cup EvmPoint]
  /\ op \in [Task -> Op \cup {NoOp}]
  /\ tx \in [Task -> Store!TxId]
  /\ net \in [Op -> [Tx -> Net]]
  /\ expired \subseteq Op /\ spent \subseteq Note

(* Before a wallet is asked, every input carries a durable attempt with    *)
(* the binding of the transaction: a crash before the hash is known leaves *)
(* a trace (beginBroadcastReservation).                                    *)
AttemptBeforeWallet ==
  \A o \in EvmOp, k \in Tx :
    net[o][k] # "unsent" =>
      \A n \in Inputs(o) : broadcast[o][n].count >= 1 /\ broadcast[o][n].bytes = Artifact

(* On either transport, what a node may have is on the records before the  *)
(* node may have it.                                                       *)
NothingSentUnmarked == MarkedBeforeSent /\ AttemptBeforeWallet

(* An attempt whose network hash nobody recorded is let go only by the     *)
(* wallet's explicit refusal or by an operator: the binding hash is the    *)
(* same for every nonce and proves no failure.                             *)
HashlessNeedsOperator ==
  \A o \in EvmOp : \A n \in Inputs(o) :
    LET b == broadcast[o][n]
    IN  b.count >= 1 /\ b.submitted = 0 /\ status[o][n] \in {"ReplanRequired", "Failed", "Released"}
          => {"broadcast_rejected", "operator_approved"} \cap evidence[o][n] # {}

(* A payment an EVM wallet refused was never taken by a node.              *)
RefusedWasNotSent ==
  \A o \in EvmOp, n \in Note :
    "broadcast_rejected" \in evidence[o][n] =>
      \A k \in Tx : net[o][k] \notin {"pending", "included"}

(* What a record says became of a payment is what became of it: Submitted  *)
(* (Cosmos) means included, refused means not taken, and an attempt nobody *)
(* knows the hash of is not written off.                                   *)
RecordsAreTrue == SubmittedIsIncluded /\ HashlessNeedsOperator /\ RefusedWasNotSent
==============================================================================
