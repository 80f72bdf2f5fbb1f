--------------------------- MODULE SpendEvidence ---------------------------
(***************************************************************************)
(* What the reservation store concludes from spent evidence (reservation.js*)
(* coalesceSpentNotesByLookupKey, evaluateOperationSuccessEvidence,        *)
(* operationReconciliationTransitions and reconcileSpentByLookupKeys).     *)
(*                                                                         *)
(* An input note may be spent by the operation's own transaction, by a twin*)
(* that carries the same payload (a relayer's) or by a rival (another      *)
(* wallet of the owner).  Evidence reaches the store in fragments: each is *)
(* a true reading of the chain at some moment, shows only part of what it  *)
(* knows, and may be delivered late, twice, out of order, or in one page   *)
(* with fragments read before a reorganisation.                            *)
(***************************************************************************)
EXTENDS Naturals, FiniteSets

CONSTANTS
  Op,          \* operations; every one requires success evidence
  Input,       \* input notes
  InputsOf,    \* [Op -> SUBSET Input], disjoint
  Tx,          \* transactions that may spend the inputs
  OwnTx,       \* [Op -> Tx]: the identity persisted with the reservations
  Spends,      \* [Tx -> SUBSET Input]
  Agrees,      \* [Tx -> [Op -> SUBSET Content]]: what matches the operation's expectation
  Content,     \* the expected fields: {"digest"} or the separate fields
  Shown,       \* the sets of attributes a fragment may show
  Evm,         \* whether the reservations are tagged with the evm transport
  MaxReports   \* bound: fragments collected at a time

Unspent == "unspent"
Identity == {"tx", "bytes", "doc"}
Attribute == Identity \cup {"outcome", "verified"} \cup Content

EvidenceAssumption ==
  /\ \A o1, o2 \in Op : o1 # o2 => InputsOf[o1] \cap InputsOf[o2] = {}
  /\ \A o \in Op : InputsOf[o] # {} /\ OwnTx[o] \in Tx /\ InputsOf[o] \subseteq Spends[OwnTx[o]]
  /\ \A o \in Op : Agrees[OwnTx[o]][o] = Content
  /\ Shown \subseteq SUBSET Attribute

VARIABLES
  block,     \* [Tx -> {"out", "in", "final", "failed"}]: where the chain has it
  reports,   \* fragments collected and not yet dropped
  status,    \* [Input -> {"Submitted", "ConfirmedSpent"}]
  outcome    \* [Op -> operation_status, which its linked records share]

vars == <<block, reports, status, outcome>>

OpOf(i) == CHOOSE o \in Op : i \in InputsOf[o]
Executed(t) == block[t] \in {"in", "final"}
IsSpent(i) == \E t \in Tx : Executed(t) /\ i \in Spends[t]

Init ==
  /\ block = [t \in Tx |-> "out"]
  /\ reports = {}
  /\ status = [i \in Input |-> "Submitted"]
  /\ outcome = [o \in Op |-> "none"]

------------------------------------------------------------------------------
(* The chain.                                                              *)

Include(t) ==
  /\ block[t] \in {"out", "failed"}
  /\ \A i \in Spends[t] : ~IsSpent(i)
  /\ block' = [block EXCEPT ![t] = "in"]
  /\ UNCHANGED <<reports, status, outcome>>

(* A nullifier is spent already: the transaction is included and fails.    *)
Fail(t) ==
  /\ block[t] = "out"
  /\ \E i \in Spends[t] : IsSpent(i)
  /\ block' = [block EXCEPT ![t] = "failed"]
  /\ UNCHANGED <<reports, status, outcome>>

Finalize(t) ==
  /\ block[t] = "in"
  /\ block' = [block EXCEPT ![t] = "final"]
  /\ UNCHANGED <<reports, status, outcome>>

(* A reorganisation before finality; a CometBFT chain has none.            *)
Reorganise(t) ==
  /\ Evm /\ block[t] = "in"
  /\ block' = [block EXCEPT ![t] = "out"]
  /\ UNCHANGED <<reports, status, outcome>>

------------------------------------------------------------------------------
(* Evidence.                                                               *)

(* operationSuccessEvidence: what a note says of its spending transaction. *)
(* "verified" stands for the transaction, privacy receipt and finality     *)
(* verifications of waitForEvmTransaction together.                        *)
Reading(i, t, shows) ==
  [input |-> i, of |-> t, ok |-> block[t] # "failed", final |-> block[t] = "final",
   shows |-> IF block[t] = "failed" THEN shows \ Content ELSE shows]

Provided(r) == r.shows # {}

Says(r, a) ==
  CASE a \in Identity   -> r.of
    [] a = "outcome"    -> r.ok
    [] a = "verified"   -> r.final
    [] a \in Content    -> a \in Agrees[r.of][OpOf(r.input)]

(* duplicateOperationEvidenceConflicts: two fragments of one input.        *)
Contradict(r1, r2) ==
  \E a \in r1.shows \cap r2.shows : Says(r1, a) # Says(r2, a)

(* mutation: fragments need no common identity *)
AlwaysLinked(F) == TRUE

(* duplicateOperationEvidenceLinkConflicts: the fragments with evidence    *)
(* all show one identity.                                                  *)
Linked(F) ==
  LET present == {r \in F : Provided(r)}
  IN  Cardinality(present) < 2
      \/ \E a \in Identity \cup (Content \cap {"digest"}) : \A r \in present : a \in r.shows

(* coalesceSpentNotesByLookupKey: the fragments of each input, or a throw. *)
Coalesces(P) ==
  \A i \in {r.input : r \in P} :
    LET F == {r \in P : r.input = i}
    IN  (\A r1, r2 \in F : ~Contradict(r1, r2)) /\ Linked(F)

(* mergedDuplicateOperationEvidence: the values the fragments give.        *)
Merged(F, a) == {Says(r, a) : r \in {r \in F : a \in r.shows}}

(* evaluateOperationTxIdentity: on EVM the network hash and the artifact   *)
(* both, otherwise either; the sign doc only guards against a mismatch.    *)
IdentityMatches(o, F) ==
  /\ \A a \in Identity : Merged(F, a) \subseteq {OwnTx[o]}
  /\ IF Evm THEN Merged(F, "tx") # {} /\ Merged(F, "bytes") # {}
            ELSE Merged(F, "tx") # {} \/ Merged(F, "bytes") # {}

(* The execution outcome and, on EVM, the explicit receipt and the three   *)
(* verifications.                                                          *)
OutcomeMatches(F) ==
  /\ FALSE \notin Merged(F, "outcome")
  /\ Evm => TRUE \in Merged(F, "outcome") /\ TRUE \in Merged(F, "verified")

ContentMatches(F) == \A a \in Content : Merged(F, a) = {TRUE}

Proves(o, F) == IdentityMatches(o, F) /\ OutcomeMatches(F) /\ ContentMatches(F)

(* operationReconciliationOutcome.                                         *)
OutcomeOf(o, P) ==
  IF ~(InputsOf[o] \subseteq {r.input : r \in P}) THEN "ManualReview"
  ELSE IF \A i \in InputsOf[o] : Proves(o, {r \in P : r.input = i}) THEN "Succeeded"
  ELSE "ConflictSpent"

------------------------------------------------------------------------------
(* The store.                                                              *)

(* After success a retry must be whole and may not contradict it.          *)
RetryAccepted(o, P) ==
  outcome[o] = "Succeeded" =>
    /\ \A i \in InputsOf[o] : status[i] = "ConfirmedSpent"
    /\ \A i \in InputsOf[o] \cap {r.input : r \in P} :
         LET F == {r \in P : r.input = i}
         IN  (\E r \in F : Provided(r)) => Proves(o, F)

(* mutation: an outcome once recorded is kept *)
FirstOutcomeKept(o) == outcome[o] # "none"

Settled(o) == outcome[o] = "Succeeded"

(* reconcileSpentByLookupKeys: the operations with an input in the page are*)
(* decided together; one that throws undoes the page.                      *)
Reconcile(P) ==
  LET paged == {r.input : r \in P}
      affected == {o \in Op : InputsOf[o] \cap paged # {}}
      written == {o \in affected : ~Settled(o)}
  IN  /\ P # {} /\ Coalesces(P)
      /\ \A o \in affected : RetryAccepted(o, P)
      /\ status' = [i \in Input |->
           IF i \in paged /\ OpOf(i) \in written THEN "ConfirmedSpent" ELSE status[i]]
      /\ outcome' = [o \in Op |-> IF o \in written THEN OutcomeOf(o, P) ELSE outcome[o]]

(* The wallet or an indexer reads the spender of an input, or the failed   *)
(* transaction the record names, and keeps what it showed.                 *)
Collect(i, t, shows) ==
  /\ IsSpent(i) /\ i \in Spends[t]
  /\ Executed(t) \/ (block[t] = "failed" /\ t = OwnTx[OpOf(i)])
  /\ Cardinality(reports) < MaxReports
  /\ reports' = reports \cup {Reading(i, t, shows)}
  /\ UNCHANGED <<block, status, outcome>>

ReconcileCollected(P) ==
  /\ Reconcile(P)
  /\ reports' = {}
  /\ UNCHANGED block

(* The page threw, or the fragments were lost with the process.            *)
Drop ==
  /\ reports # {}
  /\ reports' = {}
  /\ UNCHANGED <<block, status, outcome>>

(* A scan page rebuilt from the chain as it is now: every spent input with *)
(* everything its spender shows.                                           *)
ReconcileFresh ==
  /\ \E P \in {{Reading(it[1], it[2], Attribute) :
                  it \in {it \in Input \X Tx : Executed(it[2]) /\ it[1] \in Spends[it[2]]}}} :
       Reconcile(P)
  /\ UNCHANGED <<block, reports>>

Next ==
  \/ \E t \in Tx : Include(t) \/ Fail(t) \/ Finalize(t) \/ Reorganise(t)
  \/ \E i \in Input, t \in Tx, shows \in Shown : Collect(i, t, shows)
  \/ \E P \in SUBSET reports : ReconcileCollected(P)
  \/ Drop
  \/ ReconcileFresh

(* The wallet keeps scanning.                                              *)
Fairness == WF_vars(ReconcileFresh)

Spec == Init /\ [][Next]_vars /\ Fairness

------------------------------------------------------------------------------
TypeOK ==
  /\ block \in [Tx -> {"out", "in", "final", "failed"}]
  /\ reports \subseteq [input : Input, of : Tx, ok : BOOLEAN, final : BOOLEAN,
                        shows : SUBSET Attribute]
  /\ status \in [Input -> {"Submitted", "ConfirmedSpent"}]
  /\ outcome \in [Op -> {"none", "ManualReview", "ConflictSpent", "Succeeded"}]

(* An operation recorded as succeeded took effect: every input of it is    *)
(* quarantined and is spent on the chain by a transaction whose content is *)
(* what the operation expected, and on EVM one no reorganisation removes.  *)
(* No combination of partial, late or mixed fragments proves anything else.*)
SuccessIsTrue ==
  \A o \in Op : outcome[o] = "Succeeded" =>
    \A i \in InputsOf[o] :
      /\ status[i] = "ConfirmedSpent"
      /\ \E t \in Tx : /\ Executed(t) /\ i \in Spends[t]
                       /\ Agrees[t][o] = Content
                       /\ Evm => block[t] = "final"

(* A success is never taken back, whatever evidence a later page brings.   *)
SuccessStaysStep == \A o \in Op : outcome[o] = "Succeeded" => outcome'[o] = "Succeeded"
(* A quarantine is not the end: whatever partial evidence decided first,   *)
(* and whatever the rest of the page is, an operation whose own transaction*)
(* became final is recorded as succeeded by the scans that follow.         *)
OwnIsFinal(o) == block[OwnTx[o]] = "final"
=============================================================================
