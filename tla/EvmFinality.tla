----------------------------- MODULE EvmFinality -----------------------------
(***************************************************************************)
(* waitForEvmFinality (src/transport/evm-finality.js): an application with *)
(* a receipt polls one EVM node until the receipt's block is final, while  *)
(* blocks are added and the node's fork choice changes between any two of  *)
(* its calls.                                                              *)
(***************************************************************************)
EXTENDS Naturals, FiniteSets

CONSTANTS
  Mode,           \* "receipt", "confirmations" or "finalized" (also "safe")
  Confirmations,  \* policy.confirmations
  Attempts,       \* polls of one wait
  Depth,          \* the node never replaces a block with Depth - 1 above it
  MaxBlock        \* blocks, bound

EvmFinalityAssumption ==
  /\ Mode \in {"receipt", "confirmations", "finalized"}
  /\ Confirmations \in Nat \ {0} /\ Attempts \in Nat \ {0}
  /\ Depth \in Nat \ {0} /\ MaxBlock \in Nat

VARIABLES
  line,      \* block -> the block and all before it
  tx,        \* block -> what became of the transaction in it
  head,      \* the node's latest block
  settled,   \* blocks it will not replace
  phase,     \* idle, polling, verifying or answered
  receipt,   \* the block of the caller's receipt (expectedBlock)
  attempt,   \* polls that are over
  refetched, \* answers of Promise.all: a set of [call, block]
  conflict,  \* has a poll of this wait seen the receipt move
  verified   \* the result

chain == <<line, tx, head, settled>>
wait == <<phase, receipt, attempt, refetched, conflict, verified>>
vars == <<chain, wait>>

Block == 0 .. MaxBlock
None == MaxBlock + 1
Fate == {"absent", "ok", "failed"}
Calls == {"receipt", "block"}

HeightOf(b) == Cardinality(line[b]) - 1
Canonical == line[head]
(* Where the transaction is mined on the branch of b, if it is.            *)
Mined(b) == {c \in line[b] : tx[c] # "absent"}
(* Blocks of b's branch that have Depth - 1 others above them.             *)
Buried(b) == {c \in line[b] : HeightOf(b) - HeightOf(c) >= Depth - 1}

Init ==
  /\ line = [b \in {0} |-> {0}] /\ tx = [b \in {0} |-> "absent"]
  /\ head = 0 /\ settled = {0}
  /\ phase = "idle" /\ receipt = None /\ attempt = 0
  /\ refetched = {} /\ conflict = FALSE /\ verified = FALSE

------------------------------------------------------------------------------
(* The node (external).                                                    *)

(* A block is mined on any branch, with the transaction if that branch     *)
(* does not have it.                                                       *)
Mine ==
  /\ Cardinality(DOMAIN line) <= MaxBlock
  /\ LET new == Cardinality(DOMAIN line)
     IN  \E parent \in DOMAIN line : \E fate \in Fate :
           /\ settled \subseteq line[parent]
           /\ fate # "absent" => Mined(parent) = {}
           /\ line' = [b \in DOMAIN line \cup {new} |->
                         IF b = new THEN line[parent] \cup {new} ELSE line[b]]
           /\ tx' = [b \in DOMAIN tx \cup {new} |-> IF b = new THEN fate ELSE tx[b]]
  /\ UNCHANGED <<head, settled, wait>>

(* The fork choice: the head moves up, or to another branch.               *)
Choose ==
  /\ \E b \in DOMAIN line \ {head} :
       /\ settled \subseteq line[b]
       /\ head' = b
       /\ settled' = settled \cup Buried(b)
  /\ UNCHANGED <<line, tx, wait>>

(* The safe or finalized tag moves up.                                     *)
Finalize ==
  /\ Mode = "finalized"
  /\ \E b \in Canonical \ settled : settled' = settled \cup line[b]
  /\ UNCHANGED <<line, tx, head, wait>>

------------------------------------------------------------------------------
(* The wait.                                                               *)

Done(result) ==
  /\ phase' = "answered" /\ verified' = result
  /\ UNCHANGED <<chain, receipt, attempt>> /\ refetched' = {}

(* The receipt a caller starts from, read now or before the fork choice    *)
(* moved; one that did not succeed is refused.                             *)
StartFrom(b) ==
  /\ receipt' = b
  /\ IF tx[b] # "ok"
     THEN phase' = "answered" /\ verified' = FALSE
     ELSE IF Mode = "receipt"
     THEN phase' = "answered" /\ verified' = TRUE
     ELSE phase' = "polling" /\ verified' = FALSE
  /\ attempt' = 0 /\ refetched' = {} /\ conflict' = FALSE
  /\ UNCHANGED chain

Start ==
  /\ phase \in {"idle", "answered"}
  /\ \E b \in {c \in DOMAIN line : tx[c] # "absent"} : StartFrom(b)

(* The poll is over without a result: another one, or the wait fails.      *)
NextPoll ==
  IF attempt + 1 < Attempts
  THEN /\ phase' = "polling" /\ attempt' = attempt + 1
       /\ UNCHANGED <<chain, receipt, conflict, verified>> /\ refetched' = {}
  ELSE Done(FALSE) /\ UNCHANGED conflict

(* Is the head, or the tagged block, far enough above the receipt's block? *)
(* Only heights are compared here.                                         *)
DeepEnough ==
  IF Mode = "confirmations" THEN HeightOf(head) + 1 >= HeightOf(receipt) + Confirmations
  ELSE \E b \in settled : HeightOf(b) >= HeightOf(receipt)

AskHead ==
  /\ phase = "polling"
  /\ IF DeepEnough
     THEN phase' = "verifying" /\ UNCHANGED <<chain, receipt, attempt, refetched, conflict, verified>>
     ELSE NextPoll

CallFails == phase \in {"polling", "verifying"} /\ NextPoll

(* The node's answers now: the block of the receipt, the block at its      *)
(* height, or nothing.                                                     *)
Answer(call) ==
  LET blocks == IF call = "receipt" THEN Mined(head)
                ELSE {b \in Canonical : HeightOf(b) = HeightOf(receipt)}
  IN  IF blocks = {} THEN None ELSE CHOOSE b \in blocks : TRUE

Moved(got) == got.block # None /\ (got.block # receipt \/ tx[got.block] # "ok")

(* verifyCanonicalInclusion, its checks in their order: a receipt that     *)
(* disappeared hides what the block says.                                  *)
Conflicts(got) ==
  \E g \in got : Moved(g) /\ (g.call = "receipt" \/ \A h \in got : h.block # None)

Judge(got) ==
  IF Conflicts(got) THEN Done(FALSE) /\ conflict' = TRUE
  ELSE IF \E g \in got : g.block = None THEN NextPoll
  ELSE Done(TRUE) /\ UNCHANGED conflict

(* The two calls of verifyCanonicalInclusion are answered in any order and *)
(* at different moments.                                                   *)
Refetch ==
  /\ phase = "verifying"
  /\ \E call \in Calls \ {g.call : g \in refetched} :
       LET got == refetched \cup {[call |-> call, block |-> Answer(call)]}
       IN  IF {g.call : g \in got} = Calls THEN Judge(got)
           ELSE refetched' = got /\ UNCHANGED <<chain, phase, receipt, attempt, conflict, verified>>

Node == Mine \/ Choose \/ Finalize
Poll == AskHead \/ CallFails \/ Refetch
Next == Node \/ Start \/ Poll

(* Every call is answered or fails.                                        *)
Spec == Init /\ [][Next]_vars /\ WF_vars(Poll)

------------------------------------------------------------------------------
(* The variables keep their ranges and blocks their ancestors; the head    *)
(* never leaves a settled block.                                           *)
TypeOK ==
  /\ DOMAIN line \subseteq Block /\ DOMAIN tx = DOMAIN line /\ head \in DOMAIN line
  /\ \A b \in DOMAIN line : b \in line[b] /\ line[b] \subseteq DOMAIN line
  /\ settled \subseteq Canonical
  /\ phase \in {"idle", "polling", "verifying", "answered"}
  /\ receipt \in DOMAIN line \cup {None}
  /\ attempt \in 0 .. Attempts - 1
  /\ refetched \subseteq [call : Calls, block : Block \cup {None}]
  /\ conflict \in BOOLEAN /\ verified \in BOOLEAN

(* A verified result is final: the block it names succeeded and can never  *)
(* leave the chain, although head, receipt and block were asked for one    *)
(* after the other while the fork choice moved (evm-finality.js:222).      *)
VerifiedIsFinal == verified => receipt \in settled /\ tx[receipt] = "ok"

(* A wait that has seen its receipt move fails, even if the fork choice    *)
(* moves back before the next poll (evm-finality.js:260).                  *)
ConflictIsTerminal == conflict => phase = "answered" /\ ~verified

==============================================================================
