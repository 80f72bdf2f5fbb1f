---------------------------- MODULE NotePlanner ----------------------------
(***************************************************************************)
(* Which notes a wallet spends (planner.js, and selectTransferInputs and   *)
(* selectBatchTransferInputs of payload.js), and what becomes of a payment *)
(* when the wallet follows the plans one after another: a transfer takes   *)
(* exactly two notes, so it may have to create a zero helper note or merge *)
(* notes before it can pay, and a withdrawal needs a note of its amount.   *)
(***************************************************************************)
EXTENDS Integers, Sequences, FiniteSets, FiniteSetsExt

CONSTANTS
  Arrivals,        \* notes the wallet may receive: [amount, usable]
  Target,          \* amounts it wants to pay
  MaxShielded,     \* the largest amount of one note (2^64 - 1)
  MaxInputs,       \* inputs of a batch transfer (16)
  MaxOutputs,      \* its outputs (32)
  SearchStepLimit, \* steps of the batch search (250000)
  MaxReceived,     \* bound: notes received in a behaviour
  MaxPayments      \* bound: payments made in a behaviour

PlannerAssumption ==
  /\ \A a \in Arrivals : a.amount \in 0 .. MaxShielded /\ a.usable \in BOOLEAN
  /\ Target \subseteq Nat
  /\ {MaxInputs, MaxOutputs, SearchStepLimit} \subseteq Nat \ {0}

VARIABLES
  notes,    \* the notes a scan finds: [id, amount, usable]
  ids,      \* ids given so far: the order of height, transaction and nullifier
  received, \* notes received from others
  payments, \* payments begun
  pending   \* the payment being made: [kind, amount]

vars == <<notes, ids, received, payments, pending>>

Nothing == [kind |-> "none", amount |-> 0]

------------------------------------------------------------------------------
(* Notes and their order.                                                  *)

(* isVerifiedUnspentFoundNote of the denomination asked for.               *)
Spendable(N) == {n \in N : n.usable}
Total(N) == MapThenSumSet(LAMBDA n : n.amount, N)
SpendableTotal(N) == Total(Spendable(N))

(* foundNotePlannerLess: amount first, then where the note was found.      *)
Less(n, m) == n.amount < m.amount \/ (n.amount = m.amount /\ n.id < m.id)
Least(N) == CHOOSE n \in N : \A m \in N \ {n} : Less(n, m)

(* finalTransferOutputsWithinBound: the change must fit one note.          *)
WithinBound(total, t) == t <= MaxShielded /\ total >= t /\ total - t <= MaxShielded

------------------------------------------------------------------------------
(* selectTransferInputs.                                                   *)

Selection(inputs, total, final, dummy) ==
  [inputs |-> inputs, total |-> total, isFinal |-> final, needsZeroDummy |-> dummy]
NoSelection == Selection({}, 0, FALSE, FALSE)

(* findZeroNote.                                                           *)
ZeroHelpers(N, n) == {z \in N : z.amount = 0 /\ z # n}

Pairs(N) == {p \in N \X N : p[1].amount > 0 /\ Less(p[1], p[2])}
PairTotal(p) == p[1].amount + p[2].amount

(* betterSufficientPairCandidate: least change, then the smaller notes.    *)
BetterSufficient(p, q) ==
  LET key(r) == <<PairTotal(r), r[2].amount, r[1].amount, r[1].id, r[2].id>>
  IN  \E k \in 1 .. 5 : key(p)[k] < key(q)[k] /\ \A j \in 1 .. k - 1 : key(p)[j] = key(q)[j]

(* betterMergePairCandidate: the largest sum, then the larger notes.       *)
BetterMerge(p, q) ==
  LET key(r) == <<-PairTotal(r), -r[2].amount, -r[1].amount, r[1].id, r[2].id>>
  IN  \E k \in 1 .. 5 : key(p)[k] < key(q)[k] /\ \A j \in 1 .. k - 1 : key(p)[j] = key(q)[j]

MergeablePairs(N) == {p \in Pairs(N) : PairTotal(p) <= MaxShielded}

SelectTransferInputs(all, t) ==
  LET N == Spendable(all)
      singles == {n \in N : WithinBound(n.amount, t)}
      helped == {n \in singles : ZeroHelpers(N, n) # {}}
      sufficient == {p \in Pairs(N) : WithinBound(PairTotal(p), t)}
      mergeable == MergeablePairs(N)
  IN  IF helped # {} THEN
        LET n == Least(helped)
        IN  Selection({n, Least(ZeroHelpers(N, n))}, n.amount, TRUE, FALSE)
      ELSE IF sufficient # {} THEN
        LET p == CHOOSE p \in sufficient : \A q \in sufficient \ {p} : BetterSufficient(p, q)
        IN  Selection({p[1], p[2]}, PairTotal(p), TRUE, FALSE)
      ELSE IF mergeable # {} THEN
        LET p == CHOOSE p \in mergeable : \A q \in mergeable \ {p} : BetterMerge(p, q)
        IN  Selection({p[1], p[2]}, PairTotal(p), FALSE, FALSE)
      ELSE [NoSelection EXCEPT !.needsZeroDummy = singles # {}]

(* planTransferNotes.                                                      *)
TransferStatus(N, t) ==
  LET selection == SelectTransferInputs(N, t)
  IN  IF t <= 0 THEN "invalid_amount"
      ELSE IF selection.needsZeroDummy THEN "zero_dummy_required"
      ELSE IF selection.total = 0 \/ (~selection.isFinal /\ SpendableTotal(N) < t)
        THEN "insufficient_balance"
      ELSE IF ~selection.isFinal THEN "self_merge_required"
      ELSE "final_transfer_ready"

(* planWithdrawNotes.                                                      *)
ExactNotes(N, t) == {n \in Spendable(N) : n.amount = t}

WithdrawStatus(N, t) ==
  IF t <= 0 THEN "invalid_amount"
  ELSE IF ExactNotes(N, t) # {} THEN "withdraw_ready"
  ELSE IF SpendableTotal(N) < t THEN "insufficient_balance"
  ELSE "exact_note_required"

------------------------------------------------------------------------------
(* selectBatchTransferInputs: a bounded depth-first search over the notes  *)
(* from the largest down, and a greedy choice when the search found none.  *)

(* mutation: the smallest notes are tried first *)
RECURSIVE Ascending(_)
Ascending(N) ==
  IF N = {} THEN <<>> ELSE <<Least(N)>> \o Ascending(N \ {Least(N)})

RECURSIVE Descending(_)
Descending(N) ==
  IF N = {} THEN <<>>
  ELSE LET top == Max({n.amount : n \in N})
           n == Least({m \in N : m.amount = top})
       IN  <<n>> \o Descending(N \ {n})

(* betterBatchInputSelection, up to the order of equally good selections.  *)
BetterBatch(S, best, t) ==
  \/ best = {}
  \/ Total(best) # t /\ Total(S) = t
  \/ Total(best) # t /\ Total(S) < Total(best)
  \/ Total(S) = Total(best) /\ Cardinality(S) < Cardinality(best)

Reach(c, i, slots) ==
  Total({c[k] : k \in {k \in DOMAIN c : k >= i /\ k < i + slots}})

Consider(S, best, t) ==
  IF Total(S) >= t /\ Total(S) <= t + MaxShielded /\ BetterBatch(S, best, t) THEN S ELSE best

(* The state of the search is the best selection and the steps taken.      *)
RECURSIVE Search(_, _, _, _, _)
Search(c, t, i, S, found) ==
  LET s == [found EXCEPT !.steps = @ + 1]
      slots == MaxInputs - Cardinality(S)
  IN  IF s.steps > SearchStepLimit \/ (s.best # {} /\ Total(s.best) = t) THEN s
      ELSE IF Total(S) >= t THEN [s EXCEPT !.best = Consider(S, @, t)]
      ELSE IF i > Len(c) \/ slots <= 0 \/ Total(S) + Reach(c, i, slots) < t THEN s
      ELSE Search(c, t, i + 1, S,
             IF Total(S) + c[i].amount <= t + MaxShielded
             THEN Search(c, t, i + 1, S \cup {c[i]}, s) ELSE s)

RECURSIVE GreedyFrom(_, _, _, _)
GreedyFrom(c, t, i, S) ==
  IF i > Len(c) \/ Cardinality(S) >= MaxInputs \/ Total(S) >= t THEN S
  ELSE GreedyFrom(c, t, i + 1,
         IF Total(S) + c[i].amount > t + MaxShielded THEN S ELSE S \cup {c[i]})

(* mutation: a search that gave up has no fallback *)
NoGreedy(c, t) == {}

Greedy(c, t) == Consider(GreedyFrom(c, t, 1, {}), {}, t)

SelectBatchInputs(N, t) ==
  LET c == Descending(Spendable(N))
      found == Search(c, t, 1, {}, [best |-> {}, steps |-> 0]).best
  IN  IF found # {} THEN found ELSE Greedy(c, t)

(* planTransferBatchNotes, of one denomination and positive amounts.       *)
Outputs(S, t, count) == count + (IF Total(S) > t THEN 1 ELSE 0)

BatchStatus(N, t, count) ==
  LET S == SelectBatchInputs(N, t)
  IN  IF count > MaxOutputs THEN "batch_capacity_exceeded"
      ELSE IF SpendableTotal(N) < t THEN "insufficient_balance"
      ELSE IF S = {} THEN "batch_note_preparation_required"
      ELSE IF Outputs(S, t, count) > MaxOutputs THEN "batch_capacity_exceeded"
      ELSE "batch_transfer_ready"

------------------------------------------------------------------------------
(* The wallet follows the plans.                                           *)

Init ==
  /\ notes = {} /\ ids = 0 /\ received = 0 /\ payments = 0
  /\ pending = Nothing

NewNote(k, amount, usable) == [id |-> ids + k, amount |-> amount, usable |-> usable]

Receive(a) ==
  /\ received < MaxReceived
  /\ notes' = notes \cup {NewNote(1, a.amount, a.usable)}
  /\ ids' = ids + 1 /\ received' = received + 1
  /\ UNCHANGED <<payments, pending>>

BeginPayment(kind, t) ==
  /\ pending = Nothing /\ payments < MaxPayments
  /\ pending' = [kind |-> kind, amount |-> t]
  /\ payments' = payments + 1
  /\ UNCHANGED <<notes, ids, received>>

(* A deposit of the zero note planTransferNotes asks for.                  *)
CreateZeroHelper(t) ==
  /\ TransferStatus(notes, t) = "zero_dummy_required"
  /\ notes' = notes \cup {NewNote(1, 0, TRUE)}
  /\ ids' = ids + 1
  /\ UNCHANGED <<received, payments, pending>>

(* A transfer of two inputs makes two notes of the wallet or its recipient.*)
SelfMerge(t) ==
  LET selection == SelectTransferInputs(notes, t)
  IN  /\ TransferStatus(notes, t) = "self_merge_required"
      /\ notes' = (notes \ selection.inputs)
                    \cup {NewNote(1, selection.total, TRUE), NewNote(2, 0, TRUE)}
      /\ ids' = ids + 2
      /\ UNCHANGED <<received, payments, pending>>

PayTransfer(t) ==
  LET selection == SelectTransferInputs(notes, t)
  IN  /\ TransferStatus(notes, t) = "final_transfer_ready"
      /\ notes' = (notes \ selection.inputs) \cup {NewNote(1, selection.total - t, TRUE)}
      /\ ids' = ids + 1
      /\ pending' = Nothing
      /\ UNCHANGED <<received, payments>>

TransferStep(t) == CreateZeroHelper(t) \/ SelfMerge(t) \/ PayTransfer(t)

Withdraw(t) ==
  /\ WithdrawStatus(notes, t) = "withdraw_ready"
  /\ \E n \in ExactNotes(notes, t) : notes' = notes \ {n}
  /\ pending' = Nothing
  /\ UNCHANGED <<ids, received, payments>>

(* exact_note_required: a shielded self-transfer of the amount, through    *)
(* whatever its own plan asks for first.                                   *)
MakeExactNote(t) ==
  /\ WithdrawStatus(notes, t) = "exact_note_required"
  /\ \/ CreateZeroHelper(t)
     \/ SelfMerge(t)
     \/ LET selection == SelectTransferInputs(notes, t)
        IN  /\ TransferStatus(notes, t) = "final_transfer_ready"
            /\ notes' = (notes \ selection.inputs)
                  \cup {NewNote(1, t, TRUE), NewNote(2, selection.total - t, TRUE)}
            /\ ids' = ids + 2
            /\ UNCHANGED <<received, payments, pending>>

Follow ==
  \/ pending.kind = "transfer" /\ TransferStep(pending.amount)
  \/ pending.kind = "withdraw" /\ (Withdraw(pending.amount) \/ MakeExactNote(pending.amount))

Next ==
  \/ \E a \in Arrivals : Receive(a)
  \/ \E kind \in {"transfer", "withdraw"}, t \in Target : BeginPayment(kind, t)
  \/ Follow

(* The user carries out what the plan asks for.                            *)
Spec == Init /\ [][Next]_vars /\ WF_vars(Follow)

------------------------------------------------------------------------------
TypeOK ==
  /\ \A n \in notes : n.id \in 1 .. ids /\ n.amount \in 0 .. MaxShielded /\ n.usable \in BOOLEAN
  /\ \A n, m \in notes : n.id = m.id => n = m
  /\ pending \in [kind : {"none", "transfer", "withdraw"}, amount : Nat]

(* The plans are not a circle: a payment the wallet's usable notes cover is*)
(* made after finitely many merges and helper notes, whatever the notes    *)
(* are and whatever arrives meanwhile.                                     *)
Covered == pending # Nothing /\ SpendableTotal(notes) >= pending.amount
(* A batch is refused for want of suitable notes only if no selection of at*)
(* most MaxInputs notes pays it with a change that fits one note; the      *)
(* bounded search and the greedy fallback together miss none.              *)
Pays(S, t) ==
  Cardinality(S) <= MaxInputs /\ Total(S) >= t /\ Total(S) <= t + MaxShielded
BatchIsComplete ==
  \A t \in Target :
    LET S == SelectBatchInputs(notes, t)
    IN  IF \E R \in SUBSET Spendable(notes) : Pays(R, t)
        THEN S \subseteq Spendable(notes) /\ Pays(S, t)
        ELSE S = {}

(* Where the search was not cut short, its change is the least possible.   *)
BatchChangeIsLeast ==
  \A t \in Target :
    LET S == SelectBatchInputs(notes, t)
    IN  \A R \in SUBSET Spendable(notes) : Pays(R, t) => Total(S) <= Total(R)

(* A batch that is ready fits the circuit, its change output included.     *)
ReadyBatchFits ==
  \A t \in Target, count \in 1 .. MaxOutputs + 1 :
    BatchStatus(notes, t, count) = "batch_transfer_ready" =>
      LET S == SelectBatchInputs(notes, t)
      IN  Pays(S, t) /\ count + (IF Total(S) = t THEN 0 ELSE 1) <= MaxOutputs

(* A balance is called insufficient only when it is: a plan never says so  *)
(* of notes whose sum covers the amount.                                   *)
InsufficientMeansShort ==
  \A t \in Target :
    "insufficient_balance" \in {TransferStatus(notes, t), WithdrawStatus(notes, t)} =>
      SpendableTotal(notes) < t
=============================================================================
