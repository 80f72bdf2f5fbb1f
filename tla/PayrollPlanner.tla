--------------------------- MODULE PayrollPlanner ---------------------------
(***************************************************************************)
(* How a payroll is cut into one-proof batch transfers and funded          *)
(* (planOneProofPayroll of reference-payroll.js), and the advisory analysis*)
(* for two-input transfers (analyzeNotePreparation).  An operation pays    *)
(* consecutive items from notes of one owner key; operations share none.   *)
(***************************************************************************)
EXTENDS Integers, Sequences, FiniteSets, FiniteSetsExt

CONSTANTS
  Arrivals,       \* treasury notes there may be: [amount, owner, free]
  Owners,         \* owner keys, numbered in their order
  ItemAmount,     \* amounts of payroll items
  MaxUint64,      \* the largest amount of one note
  MaxInputs,      \* oneProofPayrollMaxInputs (16)
  MaxOutputs,     \* oneProofPayrollMaxOutputs (32)
  MaxCandidates,  \* maxInputCandidates (64)
  MaxVisits,      \* maxInputCandidateSearch (4096)
  SearchLimit,    \* maxBatchPlanSearch (20000)
  MaxNotes,       \* bound: treasury notes
  MaxItems        \* bound: payroll items

PayrollPlannerAssumption ==
  /\ \A a \in Arrivals : a.amount \in 0 .. MaxUint64 /\ a.owner \in Owners /\ a.free \in BOOLEAN
  /\ Owners \subseteq Nat /\ ItemAmount \subseteq 1 .. MaxUint64

VARIABLES
  notes,  \* treasury notes: [id, amount, owner, free]
  items   \* amounts of the payroll items, in order

vars == <<notes, items>>

Failed(left) == [ok |-> FALSE, plan |-> <<>>, left |-> left]
CeilDiv(a, b) == (a + b - 1) \div b
AtLeastOne(n) == IF n < 1 THEN 1 ELSE n

Total(N) == MapThenSumSet(LAMBDA n : n.amount, N)
ItemsTotal(from, count) == MapThenSumSet(LAMBDA k : items[k], from .. from + count - 1)

(* availableNotes: neither spent nor reserved, and of the payroll's denom. *)
Available(N) == {n \in N : n.free}

------------------------------------------------------------------------------
(* selectOneProofCandidates: per owner a bounded depth-first search over   *)
(* the positive notes from the largest down.                               *)

LargerFirst(n, m) == n.amount > m.amount \/ (n.amount = m.amount /\ n.id < m.id)

RECURSIVE Sorted(_)
Sorted(N) ==
  IF N = {} THEN <<>>
  ELSE LET n == CHOOSE n \in N : \A m \in N \ {n} : LargerFirst(n, m)
       IN  <<n>> \o Sorted(N \ {n})

Reach(c, i, slots) ==
  Total({c[k] : k \in {k \in DOMAIN c : k >= i /\ k < i + slots}})

(* The state of the search: selections found, visits of this owner and     *)
(* visits left of the whole attempt.                                       *)
RECURSIVE Visit(_, _, _, _, _, _)
Visit(c, t, limits, i, S, s) ==
  IF Total(S) >= t THEN
    IF Len(s.found) >= limits.found THEN s ELSE [s EXCEPT !.found = Append(@, S)]
  ELSE IF s.left <= 0 \/ s.visited >= limits.visits \/ Len(s.found) >= limits.found THEN s
  ELSE LET v == [s EXCEPT !.visited = @ + 1, !.left = @ - 1]
           slots == MaxInputs - Cardinality(S)
       IN  IF i > Len(c) \/ slots <= 0 \/ Total(S) + Reach(c, i, slots) < t THEN v
           ELSE Visit(c, t, limits, i + 1, S, Visit(c, t, limits, i + 1, S \cup {c[i]}, v))

RECURSIVE OwnersVisited(_, _, _, _, _)
OwnersVisited(A, t, limits, owners, s) ==
  IF owners = {} \/ s.left <= 0 THEN s.all
  ELSE LET owner == Min(owners)
           v == Visit(Sorted({n \in A : n.owner = owner}), t, limits, 1, {},
                      [found |-> <<>>, visited |-> 0, left |-> s.left])
       IN  OwnersVisited(A, t, limits, owners \ {owner},
             [all |-> s.all \cup {v.found[k] : k \in DOMAIN v.found}, left |-> v.left])

CandidateSets(A, t) ==
  LET positive == {n \in A : n.amount > 0}
      owners == {n.owner : n \in positive}
      share == AtLeastOne(Cardinality(owners))
      limits == [found |-> AtLeastOne(CeilDiv(MaxCandidates, share)),
                 visits |-> AtLeastOne(MaxVisits \div share)]
  IN  OwnersVisited(positive, t, limits, owners, [all |-> {}, left |-> MaxVisits])

(* Least waste, then fewest notes, then the ids.                           *)
BetterCandidate(S, R) ==
  LET first(X, Y) == Min({n.id : n \in (X \ Y) \cup (Y \ X)}) \in {n.id : n \in X}
  IN  \/ Total(S) < Total(R)
      \/ Total(S) = Total(R) /\ Cardinality(S) < Cardinality(R)
      \/ Total(S) = Total(R) /\ Cardinality(S) = Cardinality(R) /\ first(S, R)

(* mutation: the search does not come back to a second choice *)
OnlyBest(C, room) ==
  IF C = {} THEN <<>>
  ELSE <<CHOOSE S \in C : \A R \in C \ {S} : BetterCandidate(S, R)>>

RECURSIVE Ranked(_, _)
Ranked(C, room) ==
  IF C = {} \/ room = 0 THEN <<>>
  ELSE LET S == CHOOSE S \in C : \A R \in C \ {S} : BetterCandidate(S, R)
       IN  <<S>> \o Ranked(C \ {S}, room - 1)

Candidates(A, t) == Ranked(CandidateSets(A, t), MaxCandidates)

------------------------------------------------------------------------------
(* planOneProofSearch: the longest run of items first, then the candidates *)
(* in their order, with backtracking and a bound on the calls.             *)

Fits(S, t, count) ==
  LET change == Total(S) - t
  IN  /\ change <= MaxUint64
      /\ count + (IF change > 0 THEN 1 ELSE 0) <= MaxOutputs

Remaining(A, S) == A \ S

RECURSIVE PlanFrom(_, _, _), TryCount(_, _, _, _), TryCandidate(_, _, _, _, _, _)
PlanFrom(A, from, left) ==
  IF from > Len(items) THEN [ok |-> TRUE, plan |-> <<>>, left |-> left]
  ELSE IF left <= 0 THEN Failed(left - 1)
  ELSE TryCount(A, from, Min({MaxOutputs, Len(items) - from + 1}), left - 1)

TryCount(A, from, count, left) ==
  IF count = 0 THEN Failed(left)
  ELSE LET r == TryCandidate(A, from, count, Candidates(A, ItemsTotal(from, count)), 1, left)
       IN  IF r.ok THEN r ELSE TryCount(A, from, count - 1, r.left)

TryCandidate(A, from, count, C, k, left) ==
  IF k > Len(C) THEN Failed(left)
  ELSE LET r == IF Fits(C[k], ItemsTotal(from, count), count)
                THEN PlanFrom(Remaining(A, C[k]), from + count, left)
                ELSE Failed(left)
       IN  IF r.ok
           THEN [r EXCEPT !.plan = <<[from |-> from, count |-> count, inputs |-> C[k]]>> \o @]
           ELSE TryCandidate(A, from, count, C, k + 1, r.left)

PlanOneProofPayroll == PlanFrom(Available(notes), 1, SearchLimit)

------------------------------------------------------------------------------
(* analyzeNotePreparation: items in order, each takes two notes.           *)

SmallerFirst(n, m) == n.amount < m.amount \/ (n.amount = m.amount /\ n.id < m.id)
Smallest(N) == CHOOSE n \in N : \A m \in N \ {n} : SmallerFirst(n, m)
WithinLegacyBound(total, t) == total >= t /\ total - t <= MaxUint64

(* selectLegacyInputs: a zero note and one that suffices, or a pair.       *)
SelectLegacyInputs(A, t) ==
  LET zeros == {n \in A : n.amount = 0}
      single == {n \in A : n.amount > 0 /\ WithinLegacyBound(n.amount, t)}
      pairs == {P \in kSubset(2, {n \in A : n.amount > 0}) : WithinLegacyBound(Total(P), t)}
  IN  IF zeros # {} /\ single # {} THEN {Smallest(single), Smallest(zeros)}
      ELSE IF pairs # {} THEN CHOOSE P \in pairs : \A Q \in pairs \ {P} : BetterCandidate(P, Q)
      ELSE {}

RECURSIVE Ready(_, _)
Ready(A, k) ==
  IF k > Len(items) THEN <<>>
  ELSE LET S == SelectLegacyInputs(A, items[k])
       IN  <<S>> \o Ready(Remaining(A, S), k + 1)

------------------------------------------------------------------------------
Init == notes = {} /\ items = <<>>

AddNote(a) ==
  /\ Cardinality(notes) < MaxNotes /\ items = <<>>
  /\ notes' = notes \cup {[id |-> Cardinality(notes) + 1, amount |-> a.amount,
                           owner |-> a.owner, free |-> a.free]}
  /\ UNCHANGED items

AddItem(t) ==
  /\ Len(items) < MaxItems
  /\ items' = Append(items, t)
  /\ UNCHANGED notes

Next == (\E a \in Arrivals : AddNote(a)) \/ (\E t \in ItemAmount : AddItem(t))

Spec == Init /\ [][Next]_vars

------------------------------------------------------------------------------
(* One operation can be proved: notes of one owner, within the circuit, and*)
(* a change that fits one note and has an output.                          *)
Provable(S, t, count) ==
  /\ S # {} /\ Cardinality(S) <= MaxInputs
  /\ \A n \in S : n.amount > 0 /\ n.free
  /\ Cardinality({n.owner : n \in S}) = 1
  /\ Total(S) >= t /\ Total(S) - t <= MaxUint64
  /\ count + (IF Total(S) = t THEN 0 ELSE 1) <= MaxOutputs

(* A plan pays every item once, in order, and no note twice.               *)
PlanIsExecutable ==
  LET plan == PlanOneProofPayroll.plan
  IN  PlanOneProofPayroll.ok =>
        /\ \A j \in DOMAIN plan :
             /\ Provable(plan[j].inputs, ItemsTotal(plan[j].from, plan[j].count), plan[j].count)
             /\ plan[j].from = 1 + MapThenSumSet(LAMBDA i : plan[i].count, 1 .. j - 1)
             /\ \A i \in 1 .. j - 1 : plan[i].inputs \cap plan[j].inputs = {}
        /\ MapThenSumSet(LAMBDA i : plan[i].count, DOMAIN plan) = Len(items)

(* Note preparation is demanded only when no cut of the payroll can be     *)
(* funded; whatever the search prunes and tries first, it misses nothing.  *)
RECURSIVE Fundable(_, _)
Fundable(A, from) ==
  \/ from > Len(items)
  \/ \E count \in 1 .. Len(items) - from + 1 : \E S \in SUBSET A :
       Provable(S, ItemsTotal(from, count), count) /\ Fundable(A \ S, from + count)
PlanIsFound == Fundable(notes, 1) => PlanOneProofPayroll.ok

(* Items the analysis calls ready can all be paid together.                *)
ReadyTogether ==
  LET ready == Ready(Available(notes), 1)
  IN  \A i \in DOMAIN ready : ready[i] # {} =>
        /\ Cardinality(ready[i]) = 2 /\ \A n \in ready[i] : n.free
        /\ Total(ready[i]) >= items[i] /\ Total(ready[i]) - items[i] <= MaxUint64
        /\ \A j \in 1 .. i - 1 : ready[i] \cap ready[j] = {}

(* Planned is payable, and payable is planned.                             *)
PayrollIsFunded == PlanIsExecutable /\ PlanIsFound /\ ReadyTogether
=============================================================================
