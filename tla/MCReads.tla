------------------------------- MODULE MCReads -------------------------------
(***************************************************************************)
(* Instances of EvmConfirmation, EvmFinality, SpendEvidence, AdapterQuery,  *)
(* RestQuery, NoteStore and NotePlanner: what a wallet learns by asking again and     *)
(* again, and that it comes to an end.  A history is of one of them; the   *)
(* others stay as they are.                                                *)
(***************************************************************************)
EXTENDS Naturals, Sequences

VARIABLES
  machine,
  line, tx, head, settled, phase, receipt, attempt, refetched, conflict,
  verified, logs, sentTx, confirm,                                \* confirmation
  block, reports, status, outcome,                                \* SpendEvidence
  used, batch, aAttempt, aPhase, statuses, flight, asked,         \* AdapterQuery
  active, rPhase, list, index, rAttempt, masked, result, lacks, told, \* RestQuery
  blocks, spentAt, replaced, since, reorgs, store, calls,         \* NoteStore
  notes, ids, received, payments, pending                         \* NotePlanner

forkVars == <<line, tx, head, settled, phase, receipt, attempt, refetched,
              conflict, verified>>
confirmVars == <<logs, sentTx, confirm>>
evmVars == <<forkVars, confirmVars>>
evidenceVars == <<block, reports, status, outcome>>
adapterVars == <<used, batch, aAttempt, aPhase, statuses, flight, asked>>
restVars == <<active, rPhase, list, index, rAttempt, masked, result, lacks, told>>
storeVars == <<blocks, spentAt, replaced, since, reorgs, store, calls>>
planVars == <<notes, ids, received, payments, pending>>
mcVars == <<machine, evmVars, evidenceVars, adapterVars, restVars, storeVars, planVars>>

------------------------------------------------------------------------------
(* A node that forks over four blocks, one wait after another.             *)
Tagged == INSTANCE EvmFinality WITH
  Mode <- "finalized", Confirmations <- 2, Attempts <- 2, Depth <- 9, MaxBlock <- 3

Prepared == [to |-> "privacy", data |-> "batch", value |-> 0]
Carrying(from, data, network) ==
  [from |-> from, to |-> "privacy", data |-> data, value |-> 0, network |-> network]
Log(i, sender, content) ==
  [address |-> "privacy", event |-> "item", index |-> i, sender |-> sender,
   operator |-> "alice", content |-> content]
First == Log(1, "alice", "a")
Second == Log(2, "carol", "b")
Stray == [First EXCEPT !.address = "token"]
ByOperator == [sender |-> "operator", content |-> "a"]
ByCarol == [sender |-> "carol", content |-> "b"]

(* One item, executed or caught by a proxy, a node that forks.             *)
OneItem == INSTANCE EvmConfirmation WITH
  Mode <- "confirmations", Confirmations <- 2, Attempts <- 2, Depth <- 2, MaxBlock <- 3,
  Expectation <- [event |-> "item", entries |-> <<ByOperator>>],
  Sender <- "alice", Sent <- {Carrying("alice", "batch", 1)}, Network <- 1,
  Executions <- {<<>>, <<First>>}, ReceiptPolls <- 1

(* Two items, one of them authorised by another account; every receipt,    *)
(* and every transaction the wallet may have sent.                         *)
TwoItems == INSTANCE EvmConfirmation WITH
  Mode <- "finalized", Confirmations <- 2, Attempts <- 2, Depth <- 2, MaxBlock <- 1,
  Expectation <- [event |-> "item", entries |-> <<ByOperator, ByCarol>>],
  Sender <- "alice", Network <- 1, ReceiptPolls <- 2,
  Sent <- {Carrying("alice", "batch", 1), Carrying("alice", "other", 1), Carrying("bob", "batch", 1),
           Carrying("alice", "batch", 2)},
  Executions <- {<<>>, <<First>>, <<First, Second>>, <<Second, Stray, First>>,
                 <<First, First>>, <<Second, Second>>, <<First, Log(2, "alice", "b")>>,
                 <<First, Second, Second>>, <<First, Log(3, "carol", "b")>>,
                 <<First, [Second EXCEPT !.operator = "carol"]>>}

(* One payment whose payload a relayer may carry in a transaction of its   *)
(* own (twin), or which a rival wallet forestalls by paying the same amount*)
(* from the same note into another output; what is compared is separate    *)
(* fields or a digest.                                                     *)
OneTx == {"own", "twin", "rival"}
Fields == {"output", "amount"}
Fragments == INSTANCE SpendEvidence WITH
  Op <- {"pay"}, Input <- {1}, InputsOf <- [pay |-> {1}], Tx <- OneTx, OwnTx <- [pay |-> "own"],
  Spends <- [t \in OneTx |-> {1}], Content <- Fields, Evm <- TRUE, MaxReports <- 2,
  Agrees <- [own |-> [pay |-> Fields], twin |-> [pay |-> Fields], rival |-> [pay |-> {"amount"}]],
  Shown <- {{}, {"tx", "bytes", "outcome"}, {"tx", "bytes", "outcome", "output"},
            {"amount", "verified"}, {"bytes", "output", "amount"},
            {"tx", "bytes", "doc", "outcome", "verified", "output", "amount"}}
Digests == INSTANCE SpendEvidence WITH
  Op <- {"pay"}, Input <- {1}, InputsOf <- [pay |-> {1}], Tx <- OneTx, OwnTx <- [pay |-> "own"],
  Spends <- [t \in OneTx |-> {1}], Content <- {"digest"}, Evm <- TRUE, MaxReports <- 2,
  Agrees <- [own |-> [pay |-> {"digest"}], twin |-> [pay |-> {"digest"}], rival |-> [pay |-> {}]],
  Shown <- {{}, {"tx", "bytes", "outcome", "digest"}, {"digest", "verified"}, {"doc"},
            {"tx", "bytes", "doc", "outcome", "verified", "digest"}}

(* A payment of two notes, the second of which a rival may spend, beside a *)
(* payment of one.                                                         *)
Page == INSTANCE SpendEvidence WITH
  Op <- {"pay", "tip"}, Input <- {1, 2, 3}, InputsOf <- [pay |-> {1, 2}, tip |-> {3}],
  Tx <- {"own", "rival", "tipTx"}, OwnTx <- [pay |-> "own", tip |-> "tipTx"],
  Spends <- [own |-> {1, 2}, rival |-> {2}, tipTx |-> {3}], Content <- Fields, Evm <- FALSE,
  Agrees <- [own   |-> [pay |-> Fields, tip |-> {}],
             rival |-> [pay |-> {"amount"}, tip |-> {}],
             tipTx |-> [pay |-> {}, tip |-> Fields]],
  Shown <- {{"tx", "bytes", "outcome"}, {"tx", "output", "amount"}}, MaxReports <- 1

(* Two batches of one nullifier, one retry.                                *)
Adapter == INSTANCE AdapterQuery WITH
  Nullifier <- {"n1", "n2"}, Batches <- <<{"n1"}, {"n2"}>>, Retries <- 1,
  attempt <- aAttempt, phase <- aPhase, since <- asked

(* Three endpoints, every read may fail over; or two, three reads at once, *)
(* that of nullifiers pinned.                                              *)
Moving == INSTANCE RestQuery WITH
  Rest <- <<"e1", "e2", "e3">>, Read <- {"nullifiers", "scan"},
  Sensitive <- {"nullifiers"}, Scan <- {"scan"}, Failover <- TRUE, Retries <- 1,
  BodyStalls <- FALSE, phase <- rPhase, attempt <- rAttempt
Pinned == INSTANCE RestQuery WITH
  Rest <- <<"e1", "e2">>, Read <- {"balance", "nullifiers", "scan"},
  Sensitive <- {"nullifiers"}, Scan <- {"scan"}, Failover <- FALSE, Retries <- 1,
  BodyStalls <- FALSE, phase <- rPhase, attempt <- rAttempt

(* Syncing goes on through spends, failing queries, a reorganisation and   *)
(* reloads.                                                                *)
Notes == INSTANCE NoteStore WITH
  Note <- {"n1"}, Other <- "other", Call <- {"c"}, Width <- 1, MaxHeight <- 1,
  MaxReorg <- 1, MaxPages <- 1, Missing <- {}, Spendable <- {"n1"},
  QueriesFail <- TRUE, Locked <- TRUE, Coordinated <- TRUE

(* A wallet pays what one note can hold, out of notes of up to 4.          *)
Payments == INSTANCE NotePlanner WITH
  Arrivals <- {[amount |-> a, usable |-> TRUE] : a \in {1, 2, 4}}
                \cup {[amount |-> 4, usable |-> FALSE]},
  Target <- 1 .. 4, MaxShielded <- 4, MaxInputs <- 2, MaxOutputs <- 2,
  SearchStepLimit <- 100, MaxReceived <- 3, MaxPayments <- 1

ASSUME Tagged!EvmFinalityAssumption
ASSUME OneItem!EvmConfirmationAssumption /\ TwoItems!EvmConfirmationAssumption
ASSUME Moving!RestAssumption /\ Pinned!RestAssumption
ASSUME Fragments!EvidenceAssumption /\ Digests!EvidenceAssumption /\ Page!EvidenceAssumption
ASSUME Adapter!QueryAssumption /\ Notes!NoteStoreAssumption /\ Payments!PlannerAssumption

------------------------------------------------------------------------------
MCInit ==
  /\ machine \in {"tagged", "one item", "two items", "adapter",
                  "moving", "pinned", "notes", "payments", "fragments", "digests", "page"}
  /\ IF machine = "two items" THEN TwoItems!ConfirmInit ELSE OneItem!ConfirmInit
  /\ IF machine = "moving" THEN Moving!Init ELSE Pinned!Init
  /\ IF machine = "page" THEN Page!Init ELSE Fragments!Init
  /\ Adapter!Init /\ Notes!Init /\ Payments!Init

AdapterStep(Step) == Step /\ UNCHANGED <<machine, evmVars, evidenceVars, restVars, storeVars, planVars>>
PlanStep(Step) == Step /\ UNCHANGED <<machine, evmVars, evidenceVars, adapterVars, restVars, storeVars>>
Evm(Step) == Step /\ UNCHANGED <<machine, evidenceVars, adapterVars, restVars, storeVars, planVars>>
Evidence(Step) ==
  Step /\ UNCHANGED <<machine, evmVars, adapterVars, restVars, storeVars, planVars>>
Waiting(Step) == Step /\ UNCHANGED confirmVars
Rest(Step) == Step /\ UNCHANGED <<machine, evmVars, evidenceVars, adapterVars, storeVars, planVars>>

MCNext ==
  \/ machine = "tagged" /\ Evm(Waiting(Tagged!Next))
  \/ machine = "one item" /\ Evm(OneItem!ConfirmNext)
  \/ machine = "two items" /\ Evm(TwoItems!ConfirmNext)
  \/ machine = "moving" /\ Rest(Moving!Next)
  \/ machine = "pinned" /\ Rest(Pinned!Next)
  \/ machine = "adapter" /\ AdapterStep(Adapter!Next)
  \/ machine = "notes" /\ Notes!Next
       /\ UNCHANGED <<machine, evmVars, evidenceVars, adapterVars, restVars, planVars>>
  \/ machine = "payments" /\ PlanStep(Payments!Next)
  \/ machine = "fragments" /\ Evidence(Fragments!Next)
  \/ machine = "digests" /\ Evidence(Digests!Next)
  \/ machine = "page" /\ Evidence(Page!Next)

(* Answers come or fail, timers fire, code runs on, and the plan is        *)
(* followed: the fair steps of each specification, of which one at a time  *)
(* is enabled, or finitely many before all is done.                        *)
Fairly ==
  \/ machine = "tagged" /\ Evm(Waiting(Tagged!Poll))
  \/ machine = "one item" /\ Evm(OneItem!Wait)
  \/ machine = "two items" /\ Evm(TwoItems!Wait)
  \/ machine = "adapter" /\ AdapterStep(Adapter!Client \/ Adapter!TimeOut)
  \/ machine = "moving" /\ Rest(\E r \in DOMAIN rPhase :
       Moving!Code(r) \/ Moving!TimeOut(r) \/ Moving!Body(r))
  \/ machine = "pinned" /\ Rest(\E r \in DOMAIN rPhase :
       Pinned!Code(r) \/ Pinned!TimeOut(r) \/ Pinned!Body(r))
  \/ machine = "payments" /\ PlanStep(Payments!Follow)
  \/ machine = "page" /\ Evidence(Page!ReconcileFresh)

SyncFairness ==
  /\ WF_storeVars(machine = "notes" /\ Notes!CallStep("c"))
  /\ SF_storeVars(machine = "notes" /\ Notes!StartScan("c", "wallet", "privacy_scan"))
  /\ SF_storeVars(machine = "notes" /\ Notes!RollbackLoad("c", 1))
  /\ <>[][machine = "notes" => Notes!Undisturbed]_storeVars

MCSpec == MCInit /\ [][MCNext]_mcVars /\ WF_mcVars(Fairly) /\ SyncFairness

------------------------------------------------------------------------------
(* What a caller is told of its transaction is so, and stays so.           *)
ConfirmedIsFinal ==
  /\ machine = "tagged" => Tagged!TypeOK /\ Tagged!VerifiedIsFinal /\ Tagged!ConflictIsTerminal
  /\ machine = "one item" => OneItem!ConfirmTypeOK /\ OneItem!OkIsTrue
  /\ machine = "two items" => TwoItems!ConfirmTypeOK /\ TwoItems!OkIsTrue
  /\ machine = "fragments" => Fragments!TypeOK /\ Fragments!SuccessIsTrue
  /\ machine = "digests" => Digests!SuccessIsTrue
  /\ machine = "page" => Page!TypeOK /\ Page!SuccessIsTrue

(* A query that returns is answered in full, one that is refused was so by *)
(* every endpoint, and only those entitled to it are asked.                *)
AnswersAreWhole ==
  /\ machine = "adapter" => Adapter!TypeOK /\ Adapter!Complete
  /\ machine = "moving" => Moving!LackingMeansAll /\ Moving!FailedMeansAll
  /\ machine = "pinned" => Pinned!TypeOK /\ Pinned!StaysHome

(* No late answer counts, the endpoint in use is one that has answered, and*)
(* no later evidence takes a success back.                                 *)
AnswersAreFresh ==
  [][/\ machine = "adapter" => Adapter!FreshStep
     /\ machine = "pinned" => Pinned!MovesToAnswerStep
     /\ machine = "fragments" => Fragments!SuccessStaysStep
     /\ machine = "page" => Page!SuccessStaysStep]_mcVars

(* What is begun ends: every read; the quarantine of an operation whose own*)
(* transaction is final, which comes to be recorded as succeeded; a payment*)
(* the wallet's notes cover, which is made by following the plans.         *)
Wants ==
  CASE machine = "tagged" -> phase = "polling"
    [] machine \in {"one item", "two items"} -> confirm.step = "receipt"
    [] machine = "adapter" -> aPhase \in {"call", "wait"}
    [] machine \in {"moving", "pinned"} -> \E r \in DOMAIN rPhase : rPhase[r] = "send"
    [] machine = "page" -> Page!OwnIsFinal("pay")
    [] machine = "payments" -> Payments!Covered
    [] OTHER -> FALSE
HasEnded ==
  CASE machine = "tagged" -> phase = "answered"
    [] machine \in {"one item", "two items"} -> confirm.step = "answered"
    [] machine = "adapter" -> aPhase \in {"done", "threw"}
    [] machine \in {"moving", "pinned"} -> \A r \in DOMAIN rPhase : rPhase[r] \in {"idle", "done"}
    [] machine = "page" -> outcome["pay"] = "Succeeded"
    [] machine = "payments" -> pending = Payments!Nothing
    [] OTHER -> FALSE
WaitsEnd == Wants ~> HasEnded

NotesSettle == Notes!SpentIsLearned /\ Notes!EveryNoteIsFound

------------------------------------------------------------------------------
(* Two invocations at once: the one awaited and one given up.              *)
TwoInvocations == \A f, g, h \in flight : f = g \/ f = h \/ g = h
==============================================================================
