---------------------------- MODULE EvmConfirmation ----------------------------
(***************************************************************************)
(* waitForEvmTransaction (src/src/browser/wallet-client.js): what a caller *)
(* is told of a privacy transaction the wallet sent.  The receipt is       *)
(* polled, the transaction is read back and compared with the prepared     *)
(* one, the events of the receipt are compared with what the prepared call *)
(* must emit (verifyEvmPrivacyReceipt of src/src/transport/evm.js), and    *)
(* the finality of the receipt's block is awaited (EvmFinality), while the *)
(* fork choice of the node moves: the same transaction may then be in      *)
(* another block, with another outcome.                                    *)
(***************************************************************************)
EXTENDS EvmFinality, Sequences

CONSTANTS
  Prepared,       \* the prepared transaction [to, data, value]
  Expectation,    \* what it must emit: [event, entries], an entry is [sender, content]
  Sender,         \* the account it was sent from
  Sent,           \* transactions the wallet may have sent: [from, to, data, value, network]
  Network,        \* the configured EVM chain
  Executions,     \* the logs an execution may leave: sequences of
                  \*   [address, event, index, sender, operator, content]
  ReceiptPolls    \* attempts of waitForEvmReceipt

EvmConfirmationAssumption ==
  /\ DOMAIN Prepared = {"to", "data", "value"} /\ ReceiptPolls \in Nat \ {0}
  /\ Expectation.entries # << >>
  /\ \A t \in Sent : DOMAIN t = {"from", "to", "data", "value", "network"}

VARIABLES
  logs,      \* block -> the logs of the transaction in it
  sentTx,    \* the transaction with the hash the wallet returned
  confirm    \* [step, polls, found, errors, ok], the running waitForEvmTransaction

confirmVars == <<vars, logs, sentTx, confirm>>
Problems == {"status", "identity", "event", "finality"}

(***************************************************************************)
(* verifyEvmTransactionIdentity: the fields a wallet does not fill in.     *)
(***************************************************************************)
Identity(t) ==
  /\ t.from = Sender /\ t.network = Network
  /\ [f \in DOMAIN Prepared |-> t[f]] = Prepared

(***************************************************************************)
(* verifyEvmPrivacyReceipt.                                                *)
(***************************************************************************)
\* expectedPrivacyLogs: other contracts and events may be in the receipt.
Own(events) ==
  SelectSeq(events, LAMBDA log : log.address = Prepared.to /\ log.event = Expectation.event)

EffectiveSender(entry) == IF entry.sender = "operator" THEN Sender ELSE entry.sender
Fits(log, entry) ==
  /\ log.sender = EffectiveSender(entry) /\ log.operator = Sender
  /\ log.content = entry.content

EventsFit(events) ==
  LET own == Own(events)
      entries == Expectation.entries
  IN  /\ Len(own) = Len(entries)
      /\ \A i, j \in 1 .. Len(own) : i # j => own[i].index # own[j].index
      /\ \A i \in 1 .. Len(own) : /\ own[i].index \in 1 .. Len(entries)
                                  /\ Fits(own[i], entries[own[i].index])

(***************************************************************************)
(* The wait.                                                               *)
(***************************************************************************)
Ask ==
  /\ confirm.step \in {"idle", "answered"} /\ phase \in {"idle", "answered"}
  /\ confirm' = [step |-> "receipt", polls |-> 0, found |-> None, errors |-> {}, ok |-> FALSE]
  /\ UNCHANGED <<vars, logs, sentTx>>

(* waitForEvmReceipt: null until the transaction is in a block.            *)
PollReceipt ==
  /\ confirm.step = "receipt"
  /\ confirm' =
       IF Mined(head) # {}
       THEN [confirm EXCEPT !.step = "read", !.found = CHOOSE b \in Mined(head) : TRUE]
       ELSE IF confirm.polls + 1 < ReceiptPolls THEN [confirm EXCEPT !.polls = @ + 1]
       ELSE [confirm EXCEPT !.step = "answered"]
  /\ UNCHANGED <<vars, logs, sentTx>>

(* An error of evmJsonRpc outside waitForEvmFinality throws.               *)
ReadFails ==
  /\ confirm.step \in {"receipt", "read"}
  /\ confirm' = [confirm EXCEPT !.step = "answered"]
  /\ UNCHANGED <<vars, logs, sentTx>>

(* The transaction is read back, or null when the node has forgotten it;   *)
(* everything that can be said of the receipt is said, and the finality of *)
(* the receipt in hand, however old it is, is awaited.                     *)
ErrorsOf(b, known) ==
  (IF tx[b] = "ok" THEN {} ELSE {"status"})
    \cup (IF known /\ Identity(sentTx) THEN {} ELSE {"identity"})
    \cup (IF tx[b] = "ok" /\ ~ EventsFit(logs[b]) THEN {"event"} ELSE {})

AwaitFinalityOf(b) == StartFrom(b)

ReadBack ==
  /\ confirm.step = "read"
  /\ \E known \in BOOLEAN :
       /\ Mined(head) # {} => known
       /\ LET errors == ErrorsOf(confirm.found, known) IN
          IF "status" \in errors
          THEN /\ confirm' = [confirm EXCEPT !.step = "answered", !.errors = errors]
               /\ UNCHANGED vars
          ELSE /\ confirm' = [confirm EXCEPT !.step = "finality", !.errors = errors]
               /\ AwaitFinalityOf(confirm.found)
  /\ UNCHANGED <<logs, sentTx>>

Conclude ==
  /\ confirm.step = "finality" /\ phase = "answered"
  /\ LET errors == confirm.errors \cup (IF verified THEN {} ELSE {"finality"}) IN
     confirm' = [confirm EXCEPT !.step = "answered", !.errors = errors, !.ok = errors = {}]
  /\ UNCHANGED <<vars, logs, sentTx>>

(***************************************************************************)
(* The node, and the wait of EvmFinality.                                  *)
(***************************************************************************)
NewBlock ==
  /\ Mine
  /\ \E events \in Executions :
       logs' = [b \in DOMAIN line' |-> IF b \in DOMAIN logs THEN logs[b] ELSE events]
  /\ UNCHANGED <<sentTx, confirm>>
Fork == (Choose \/ Finalize) /\ UNCHANGED <<logs, sentTx, confirm>>
PollFinality == Poll /\ UNCHANGED <<logs, sentTx, confirm>>

-----------------------------------------------------------------------------
ConfirmInit ==
  /\ Init /\ sentTx \in Sent
  /\ logs = [b \in {0} |-> << >>]
  /\ confirm = [step |-> "idle", polls |-> 0, found |-> None, errors |-> {}, ok |-> FALSE]

Wait == PollReceipt \/ ReadFails \/ ReadBack \/ PollFinality \/ Conclude
ConfirmNext == Ask \/ Wait \/ NewBlock \/ Fork

-----------------------------------------------------------------------------
(***************************************************************************)
(* Properties.                                                             *)
(***************************************************************************)
\* Every variable has its type.
ConfirmTypeOK ==
  /\ DOMAIN logs = DOMAIN line /\ sentTx \in Sent
  /\ confirm.step \in {"idle", "receipt", "read", "finality", "answered"}
  /\ confirm.polls \in 0 .. ReceiptPolls - 1 /\ confirm.found \in DOMAIN line \cup {None}
  /\ confirm.errors \subseteq Problems /\ confirm.ok \in BOOLEAN

\* What was executed is what was prepared: the contract emitted one event for
\* every prepared item, in any order, and none for anything else.
Executed(events) ==
  \E order \in [1 .. Len(Expectation.entries) -> 1 .. Len(Own(events))] :
      /\ {order[i] : i \in DOMAIN order} = 1 .. Len(Own(events))
      /\ \A i \in DOMAIN order :
            /\ Own(events)[order[i]].index = i
            /\ Fits(Own(events)[order[i]], Expectation.entries[i])

\* A caller told "ok" has its operation: the block of the receipt it was
\* given can never be replaced, in it the transaction succeeded and executed
\* exactly the prepared items, and the transaction is the prepared one, of
\* the right account and network, although receipt, transaction and finality
\* are read one after the other while the fork choice moves.
OkIsTrue ==
  confirm.ok =>
    /\ tx[confirm.found] = "ok" /\ Executed(logs[confirm.found])
    /\ [f \in DOMAIN Prepared |-> sentTx[f]] = Prepared
    /\ sentTx.from = Sender /\ sentTx.network = Network
    /\ Mode # "receipt" => confirm.found \in settled

=============================================================================
