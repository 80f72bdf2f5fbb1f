------------------------------- MODULE MCNotes -------------------------------
(***************************************************************************)
(* Instances of NoteStore, PrivacyScan and NotePlanner: how a wallet finds,*)
(* keeps and chooses its notes.  A history is of one of them; the others   *)
(* stay as they are.                                                       *)
(***************************************************************************)
EXTENDS Naturals, Sequences, TLC

CONSTANTS note, n1, n2, Other, scanner, c1, c2

VARIABLES
  machine,
  blocks, spentAt, replaced, since, reorgs, store, calls,         \* NoteStore
  pc, after, pending, views, pages, more, accepted, saved,        \* PrivacyScan
  notes, ids, received, payments, payment                         \* NotePlanner

storeVars == <<blocks, spentAt, replaced, since, reorgs, store, calls>>
scanVars == <<pc, after, pending, views, pages, more, accepted, saved>>
planVars == <<notes, ids, received, payments, payment>>

(* One call at a time over every endpoint; a reorganisation.               *)
Reorganised == INSTANCE NoteStore WITH
  Note <- {note}, Call <- {scanner}, Width <- 2, MaxHeight <- 2, MaxReorg <- 1,
  MaxPages <- 1, Missing <- {"privacy_scan", "scan_events", "privacy_events"},
  Spendable <- {}, QueriesFail <- FALSE, Locked <- TRUE, Coordinated <- TRUE

(* Overlapping calls, with only the store methods locked.                  *)
Overlapping == INSTANCE NoteStore WITH
  Note <- {n1, n2}, Call <- {c1, c2}, Width <- 1, MaxHeight <- 2, MaxReorg <- 0,
  MaxPages <- 1, Missing <- {}, Spendable <- {}, QueriesFail <- FALSE,
  Locked <- TRUE, Coordinated <- FALSE

(* Three events of up to two outputs, pages of any content; or two events  *)
(* of up to three outputs, with and without self-view payloads.            *)
Events == INSTANCE PrivacyScan WITH
  MaxEvent <- 3, MaxOutputs <- 2, OutputLimit <- 2, PageBudget <- 1,
  MaxCompletion <- 1, Views <- {TRUE}
SelfViews == INSTANCE PrivacyScan WITH
  MaxEvent <- 2, MaxOutputs <- 3, OutputLimit <- 2, PageBudget <- 1,
  MaxCompletion <- 1, Views <- {TRUE, FALSE}

(* Notes hold up to 4: sums of two may or may not fit one note.  One kind  *)
(* of note is spent already or of another denomination.                    *)
Usable(S) == {[amount |-> a, usable |-> TRUE] : a \in S}
Unusable == [amount |-> 4, usable |-> FALSE]

(* A wallet pays amounts one note can hold.                                *)
Payments == INSTANCE NotePlanner WITH
  Arrivals <- Usable({1, 2, 4}) \cup {Unusable}, Target <- 1 .. 4,
  MaxShielded <- 4, MaxInputs <- 2, MaxOutputs <- 2, SearchStepLimit <- 100,
  MaxReceived <- 4, MaxPayments <- 1, pending <- payment

(* Batches of more notes than inputs and sums beyond one note; or with a   *)
(* search that is cut short.                                               *)
Batches == INSTANCE NotePlanner WITH
  Arrivals <- Usable({0, 1, 3, 4}) \cup {Unusable}, Target <- {1, 2, 3, 4, 5, 7, 8, 11},
  MaxShielded <- 4, MaxInputs <- 3, MaxOutputs <- 3, SearchStepLimit <- 1000,
  MaxReceived <- 5, MaxPayments <- 0, pending <- payment
CutBatches == INSTANCE NotePlanner WITH
  Arrivals <- Usable({0, 1, 3, 4}) \cup {Unusable}, Target <- {1, 2, 3, 4, 5, 7, 8, 11},
  MaxShielded <- 4, MaxInputs <- 3, MaxOutputs <- 3, SearchStepLimit <- 2,
  MaxReceived <- 5, MaxPayments <- 0, pending <- payment

ASSUME Reorganised!NoteStoreAssumption /\ Overlapping!NoteStoreAssumption
ASSUME Events!PrivacyScanAssumption /\ SelfViews!PrivacyScanAssumption
ASSUME Payments!PlannerAssumption /\ Batches!PlannerAssumption

MCInit ==
  /\ machine \in {"reorganised", "overlapping", "events", "self views", "payments", "batches"}
  /\ IF machine = "overlapping" THEN Overlapping!Init ELSE Reorganised!Init
  /\ Events!Init /\ Payments!Init

MCNext ==
  \/ machine = "reorganised" /\ Reorganised!Next /\ UNCHANGED <<machine, scanVars, planVars>>
  \/ machine = "overlapping" /\ Overlapping!Next /\ UNCHANGED <<machine, scanVars, planVars>>
  \/ machine = "events" /\ Events!Next /\ UNCHANGED <<machine, storeVars, planVars>>
  \/ machine = "self views" /\ SelfViews!Next /\ UNCHANGED <<machine, storeVars, planVars>>
  \/ machine = "payments" /\ Payments!Next /\ UNCHANGED <<machine, storeVars, scanVars>>
  \/ machine = "batches" /\ Batches!Next /\ UNCHANGED <<machine, storeVars, scanVars>>

MCSpec == MCInit /\ [][MCNext]_<<machine, storeVars, scanVars, planVars>>

(* Three outputs in two blocks are enough to have one between two others.  *)
ThreeOutputs ==
  machine = "reorganised" /\ Len(blocks) = 2 => Len(blocks[1]) + Len(blocks[2]) <= 3

Interchangeable == Permutations({n1, n2}) \cup Permutations({c1, c2})

(* Between reorganisations the cache misses no note and keeps no other;    *)
(* overlapping scans may only repeat what they find.                       *)
CacheIsExact ==
  /\ machine = "reorganised" => Reorganised!CacheIsExact
  /\ machine = "overlapping" => Overlapping!NothingSkipped

(* Every announced output is delivered once, whatever the pages.           *)
ScanIsExact ==
  /\ machine = "events" => Events!ScanIsExact
  /\ machine = "self views" => SelfViews!ScanIsExact

(* Transfers, withdrawals and batches are planned when they can be paid,   *)
(* batches also when the search for their notes is cut short.              *)
PlansAreSound ==
  /\ machine = "payments" => Payments!TypeOK /\ Payments!InsufficientMeansShort
  /\ machine = "batches" =>
       /\ Batches!BatchIsComplete /\ CutBatches!BatchIsComplete
       /\ Batches!BatchChangeIsLeast /\ Batches!ReadyBatchFits
==============================================================================
